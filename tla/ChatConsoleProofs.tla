-------------------------- MODULE ChatConsoleProofs -------------------------
(***************************************************************************)
(* The debug console and the server it talks to, for any number of         *)
(* messages, sockets and attempts: what is under way between them, in the  *)
(* order it is under way, says of the message the console waits for what   *)
(* the handler does with it, and says nothing of any other.                *)
(***************************************************************************)
EXTENDS ChatConsole, TLAPS

-----------------------------------------------------------------------------
(* The events under way to a console, as a sequence d.                     *)

NodeEvents == {"running", "completed", "failed"}
TerminalEvents == {"response.completed", "response.cancelled"}
EventTypes == {"conversation.ready", "response.started", "error"} \union NodeEvents \union TerminalEvents

WellFormed(e) ==
  /\ e.type = "conversation.ready" => e.message = None /\ e.response = None
  /\ e.type = "response.started" => e.message = e.response /\ e.response # None
  /\ e.type \in NodeEvents \union TerminalEvents => e.message = None /\ e.response # None
  /\ e.type = "error" /\ e.message # None /\ e.response # None => e.message = e.response
ServerEvents ==
  {e \in [type : EventTypes, message : Messages \union {None}, response : Messages \union {None}] : WellFormed(e)}

\* What an event says of a message: that its response starts, goes on or ends, or that
\* there will be none.  A late answer to a Stop and the refusal of an unreadable message
\* say nothing.
IsStart(e) == e.type = "response.started"
IsRefusal(e) == e.type = "error" /\ e.message # None /\ e.response = None
IsEnd(e) == e.type \in TerminalEvents \/ (e.type = "error" /\ e.message # None)
Talk(e) == IsStart(e) \/ e.type \in NodeEvents \/ IsEnd(e)
IsLate(e) == e.type = "error" /\ e.message = None /\ e.response # None
Subject(e) == IF e.response = None THEN e.message ELSE e.response
EndsANode(e) == e.type \in {"completed", "failed"}

Silent(d) == \A e \in Range(d) : ~ Talk(e)
HasStart(d) == \E e \in Range(d) : IsStart(e)
HasEnd(d) == \E e \in Range(d) : IsEnd(e)
Completes(d) == \E e \in Range(d) : e.type = "response.completed"

\* A response starts first and ends last, and a refusal stands alone.
Ordered(d) ==
  \A i, j \in 1..Len(d) : i < j /\ Talk(d[i]) /\ Talk(d[j]) =>
    ~ IsStart(d[j]) /\ ~ IsEnd(d[i]) /\ ~ IsRefusal(d[j])

\* d is what a console that waits for m is to hear of it, before the start or after it.
TellsOf(d, m) == \A e \in Range(d) : Talk(e) => Subject(e) = m
LateIsLate(d, m) ==
  \A i \in 1..Len(d) : IsLate(d[i]) /\ d[i].response = m => \E j \in 1..(i - 1) : IsEnd(d[j])
TellsBefore(d, m) ==
  /\ Ordered(d) /\ TellsOf(d, m)
  /\ \A e \in Range(d) : IsLate(e) => e.response # m
  /\ \A e \in Range(d) : Talk(e) => IsRefusal(e) \/ HasStart(d)
TellsAfter(d, m) ==
  /\ Ordered(d) /\ TellsOf(d, m) /\ LateIsLate(d, m)
  /\ \A e \in Range(d) : ~ IsStart(e) /\ ~ IsRefusal(e)

\* Every node that d says is running ends in d.
EndsNode(d) == \E e \in Range(d) : EndsANode(e)
NodesEnd(d) ==
  \A i \in 1..Len(d) : d[i].type = "running" => \E j \in (i + 1)..Len(d) : EndsANode(d[j])

-----------------------------------------------------------------------------
(* The inductive invariant.                                                *)

LinkStates == {"unused", "connecting", "open", "closing", "broken", "closed"}
WiresOK ==
  link \in [Sockets -> LinkStates] /\ up \in [Sockets -> Seq(ClientEvents)] /\ down \in [Sockets -> Seq(ServerEvents)]
HandlersOK == turn \in [Sockets -> Turns \union {None}] /\ served \subseteq Sockets
ConnectingOK ==
  /\ opened \in Sockets /\ socket \in {opened, None}
  /\ connection \in {"connecting", "ready", "offline"} /\ reconnectAttempts \in 0..MaxReconnectAttempts
  /\ timer \in BOOLEAN /\ intentionalClose \in BOOLEAN
RequestOK ==
  /\ phase \in {"idle", "pending", "streaming", "cancelling"}
  /\ pendingMessageId \in Messages \union {None} /\ (pendingMessageId # None <=> phase = "pending")
  /\ activeResponseId \in Messages \union {None}
  /\ activeResponseId # None <=> phase \in {"streaming", "cancelling"}
Views == [response : Messages \union {None}, node : NodeStates, terminal : NodeStates \ {"running"}]
PastOK == messageSequence \in 0..MaxMessages /\ odd \subseteq Messages /\ outcome \in [Messages -> NodeStates]
Typing == WiresOK /\ HandlersOK /\ ConnectingOK /\ RequestOK /\ workflow \in Views /\ PastOK

\* A console that has no socket, or one that is connecting, is idle; a socket that was
\* not accepted yet has nothing under way.
NoTimerWhileConnected == timer => socket = None
IdleUnlessConnected == socket = None \/ link[socket] = "connecting" => phase = "idle"
FreshSockets == \A s \in Sockets :
  /\ s > opened => link[s] = "unused"
  /\ link[s] \in {"unused", "connecting"} => up[s] = <<>> /\ turn[s] = None
Connections ==
  /\ LostSocketIsRetried /\ ~ intentionalClose
  /\ NoTimerWhileConnected /\ IdleUnlessConnected /\ FreshSockets

\* A message is on its way to one handler, or generated by one, and then it has no
\* outcome yet.
Generating(s) == turn[s] # None /\ turn[s].stage # "ended"
Creates(s, i) == up[s][i].type = "message.create"
OneCreation == \A s, t \in Sockets : \A i \in 1..Len(up[s]), j \in 1..Len(up[t]) :
  Creates(s, i) /\ Creates(t, j) /\ up[s][i].id = up[t][j].id => s = t /\ i = j
CreationsAreOpen == \A s, t \in Sockets : \A i \in 1..Len(up[s]) : Creates(s, i) =>
  /\ outcome[up[s][i].id] = None
  /\ Generating(t) => turn[t].id # up[s][i].id
TurnsAreOpen == \A s \in Sockets : Generating(s) =>
  /\ outcome[turn[s].id] = None
  /\ \A t \in Sockets : Generating(t) /\ turn[t].id = turn[s].id => s = t

\* The number of the next message is new everywhere.
NumbersAreUsed ==
  /\ \A m \in Messages : outcome[m] # None => m <= messageSequence
  /\ \A s \in Sockets :
       /\ \A e \in Range(up[s]) : e.id <= messageSequence
       /\ \A e \in Range(down[s]) : e.response # None => e.response <= messageSequence
       /\ turn[s] # None => turn[s].id <= messageSequence
  /\ activeResponseId # None => activeResponseId <= messageSequence

\* What is under way to a console says how its response ended.
Agrees(e, result) ==
  /\ e.type = "response.completed" => result[e.response] = "completed"
  /\ e.type = "response.cancelled" => result[e.response] = "cancelled"
  /\ e.type = "error" /\ e.message # None /\ e.response # None => result[e.response] = "failed"
EndsAreTrue == \A s \in Sockets : \A e \in Range(down[s]) : Agrees(e, outcome)
Open == OneCreation /\ CreationsAreOpen /\ TurnsAreOpen

\* The console and the handler of its current socket s, while it is open: what is under
\* way both ways is about the message the console waits for, and it waits for something.
Current == IF phase = "pending" THEN pendingMessageId ELSE activeResponseId
Hears(s) ==
  IF phase = "pending" THEN TellsBefore(down[s], pendingMessageId) ELSE TellsAfter(down[s], activeResponseId)
CreationIsCurrent(s) == \A e \in Range(up[s]) : e.type = "message.create" =>
  phase = "pending" /\ e.id = pendingMessageId /\ Silent(down[s]) /\ ~ Generating(s)
StopIsNotPending(s) == \A e \in Range(up[s]) : e.type = "response.cancel" => e.id # pendingMessageId
TurnIsCurrent(s) == Generating(s) =>
  /\ turn[s].id = Current /\ ~ HasEnd(down[s])
  /\ turn[s].stage = "begun" => phase = "pending" /\ Silent(down[s]) /\ turn[s].node = None
  /\ turn[s].stage = "streaming" /\ phase = "pending" => HasStart(down[s])
CurrentIsUnderWay(s) == Current # None /\ Current \notin odd =>
  (\E e \in Range(up[s]) : e.type = "message.create") \/ Generating(s) \/ HasEnd(down[s])
OddIsIgnored(s) ==
  /\ pendingMessageId \in odd => Silent(down[s]) /\ ~ Generating(s)
  /\ activeResponseId \notin odd
NodesAreShown(s) ==
  Completes(down[s]) \/ (Generating(s) /\ turn[s].node # "running") =>
    /\ NodesEnd(down[s])
    /\ phase # "pending" /\ workflow.node = "running" => EndsNode(down[s])
Converses(s) ==
  /\ Hears(s) /\ CreationIsCurrent(s) /\ StopIsNotPending(s) /\ TurnIsCurrent(s)
  /\ CurrentIsUnderWay(s) /\ OddIsIgnored(s) /\ NodesAreShown(s)
Conversation == \A s \in Sockets : socket = s /\ link[s] = "open" => Converses(s)

\* The workflow view shows the response that is active.
View ==
  /\ WorkflowIsTrue
  /\ activeResponseId # None => workflow.response = activeResponseId
  /\ workflow.response = None => workflow.node = None /\ workflow.terminal = None

Inv == Typing /\ Connections /\ Open /\ NumbersAreUsed /\ EndsAreTrue /\ Conversation /\ View

-----------------------------------------------------------------------------
(* Sequences: an element more, and the first one taken.                    *)

\* The set of a sequence's elements, and where they are.
LEMMA RangeIsElements ==
  ASSUME NEW S, NEW d \in Seq(S)
  PROVE  /\ Len(d) \in Nat /\ Range(d) \subseteq S
         /\ \A i \in 1..Len(d) : d[i] \in Range(d) /\ d[i] \in S
         /\ \A x \in Range(d) : \E i \in 1..Len(d) : d[i] = x
  BY DEF Range

LEMMA EmptyFacts ==
  ASSUME NEW S
  PROVE  <<>> \in Seq(S) /\ Len(<<>>) = 0 /\ Range(<<>>) = {}
  BY DEF Range

LEMMA AppendFacts ==
  ASSUME NEW S, NEW d \in Seq(S), NEW x \in S
  PROVE  /\ Append(d, x) \in Seq(S) /\ Len(Append(d, x)) = Len(d) + 1 /\ Len(d) \in Nat
         /\ Append(d, x)[Len(d) + 1] = x
         /\ \A i \in 1..Len(d) : Append(d, x)[i] = d[i]
         /\ Range(Append(d, x)) = Range(d) \union {x}
<1>1. /\ Append(d, x) \in Seq(S) /\ Len(Append(d, x)) = Len(d) + 1 /\ Len(d) \in Nat
      /\ Append(d, x)[Len(d) + 1] = x
      /\ \A i \in 1..Len(d) : Append(d, x)[i] = d[i]
  OBVIOUS
<1>2. ASSUME NEW y \in Range(Append(d, x)) PROVE y \in Range(d) \union {x}
  <2>1. PICK i \in 1..(Len(d) + 1) : Append(d, x)[i] = y BY <1>1, RangeIsElements
  <2>2. CASE i = Len(d) + 1 BY <2>1, <2>2, <1>1
  <2>3. CASE i # Len(d) + 1 BY <2>1, <2>3, <1>1, RangeIsElements
  <2> QED BY <2>2, <2>3
<1>3. ASSUME NEW y \in Range(d) PROVE y \in Range(Append(d, x))
  <2>1. PICK i \in 1..Len(d) : d[i] = y BY <1>3, RangeIsElements
  <2>2. i \in 1..Len(Append(d, x)) /\ Append(d, x)[i] = y BY <1>1, <2>1
  <2> QED BY <2>2, <1>1, RangeIsElements
<1>4. Len(d) + 1 \in 1..Len(Append(d, x)) /\ Append(d, x) \in Seq(S) BY <1>1
<1>5. Append(d, x)[Len(d) + 1] \in Range(Append(d, x)) BY <1>4, RangeIsElements
<1> QED BY <1>1, <1>2, <1>3, <1>5

LEMMA TailFacts ==
  ASSUME NEW S, NEW d \in Seq(S), d # <<>>
  PROVE  /\ Tail(d) \in Seq(S) /\ Len(d) = Len(Tail(d)) + 1 /\ Len(Tail(d)) \in Nat
         /\ Head(d) = d[1] /\ Head(d) \in S
         /\ \A i \in 1..Len(Tail(d)) : Tail(d)[i] = d[i + 1]
         /\ Range(d) = {Head(d)} \union Range(Tail(d))
<1>1. /\ Tail(d) \in Seq(S) /\ Len(d) = Len(Tail(d)) + 1 /\ Len(Tail(d)) \in Nat
      /\ Head(d) = d[1]
      /\ \A i \in 1..Len(Tail(d)) : Tail(d)[i] = d[i + 1]
  OBVIOUS
<1>2. 1 \in 1..Len(d) BY <1>1
<1>3. Head(d) \in S /\ Head(d) \in Range(d) BY <1>1, <1>2, RangeIsElements
<1>4. ASSUME NEW y \in Range(d) PROVE y \in {Head(d)} \union Range(Tail(d))
  <2>1. PICK i \in 1..Len(d) : d[i] = y BY RangeIsElements
  <2>2. CASE i = 1 BY <2>1, <2>2, <1>1
  <2>3. CASE i # 1
    <3>1. i - 1 \in 1..Len(Tail(d)) /\ Tail(d)[i - 1] = y BY <2>1, <2>3, <1>1
    <3> QED BY <3>1, <1>1, RangeIsElements
  <2> QED BY <2>2, <2>3
<1>5. ASSUME NEW y \in Range(Tail(d)) PROVE y \in Range(d)
  <2>1. PICK i \in 1..Len(Tail(d)) : Tail(d)[i] = y BY <1>1, RangeIsElements
  <2>2. i + 1 \in 1..Len(d) /\ d[i + 1] = y BY <2>1, <1>1
  <2> QED BY <2>2, RangeIsElements
<1> QED BY <1>1, <1>3, <1>4, <1>5

\* The first element is at no other place.
LEMMA TailPlaces ==
  ASSUME NEW S, NEW d \in Seq(S), d # <<>>, NEW x \in Range(Tail(d))
  PROVE  \E i \in 1..Len(d) : i > 1 /\ d[i] = x
<1>1. Tail(d) \in Seq(S) BY TailFacts
<1>2. PICK i \in 1..Len(Tail(d)) : Tail(d)[i] = x BY <1>1, RangeIsElements
<1>3. i + 1 \in 1..Len(d) /\ i + 1 > 1 /\ d[i + 1] = x BY <1>2, TailFacts
<1> QED BY <1>3

-----------------------------------------------------------------------------
(* What is under way to a console, when an event is sent.                  *)

\* What the sequence says, it still says; what it does not say, only x may.
LEMMA AppendSays ==
  ASSUME NEW d \in Seq(ServerEvents), NEW x \in ServerEvents
  PROVE  /\ Silent(Append(d, x)) <=> Silent(d) /\ ~ Talk(x)
         /\ HasStart(Append(d, x)) <=> HasStart(d) \/ IsStart(x)
         /\ HasEnd(Append(d, x)) <=> HasEnd(d) \/ IsEnd(x)
         /\ Completes(Append(d, x)) <=> Completes(d) \/ x.type = "response.completed"
         /\ EndsNode(Append(d, x)) <=> EndsNode(d) \/ EndsANode(x)
<1>1. Range(Append(d, x)) = Range(d) \union {x} BY AppendFacts
<1> QED BY <1>1 DEF Silent, HasStart, HasEnd, Completes, EndsNode

\* An answer that is heard after no end, and is a start or a refusal only after
\* silence, keeps the order.
InOrder(d, x) == Talk(x) => Silent(d) \/ (~ IsStart(x) /\ ~ IsRefusal(x) /\ ~ HasEnd(d))

LEMMA AppendOrdered ==
  ASSUME NEW d \in Seq(ServerEvents), NEW x \in ServerEvents, Ordered(d), InOrder(d, x)
  PROVE  Ordered(Append(d, x))
<1> DEFINE c == Append(d, x)
<1>1. /\ Len(c) = Len(d) + 1 /\ Len(d) \in Nat /\ c[Len(d) + 1] = x
      /\ \A i \in 1..Len(d) : c[i] = d[i]
  BY AppendFacts
<1>2. \A i \in 1..Len(d) : d[i] \in Range(d) BY RangeIsElements
<1> HIDE DEF c
<1> SUFFICES ASSUME NEW i \in 1..Len(c), NEW j \in 1..Len(c), i < j, Talk(c[i]), Talk(c[j])
             PROVE  ~ IsStart(c[j]) /\ ~ IsEnd(c[i]) /\ ~ IsRefusal(c[j])
  BY DEF Ordered, c
<1>3. i \in 1..Len(d) /\ c[i] = d[i] BY <1>1
<1>4. CASE j = Len(d) + 1
  <2>1. ~ Silent(d) BY <1>2, <1>3 DEF Silent
  <2>2. ~ IsStart(x) /\ ~ IsRefusal(x) /\ ~ HasEnd(d) BY <2>1, <1>1, <1>4 DEF InOrder
  <2>3. ~ IsEnd(d[i]) BY <2>2, <1>2, <1>3 DEF HasEnd
  <2> QED BY <2>2, <2>3, <1>1, <1>3, <1>4
<1>5. CASE j # Len(d) + 1
  <2>1. j \in 1..Len(d) /\ c[j] = d[j] BY <1>1, <1>5
  <2> QED BY <2>1, <1>3 DEF Ordered
<1> QED BY <1>4, <1>5

LEMMA AppendBefore ==
  ASSUME NEW d \in Seq(ServerEvents), NEW x \in ServerEvents, NEW m,
         TellsBefore(d, m), InOrder(d, x), Talk(x) => Subject(x) = m, IsLate(x) => x.response # m,
         Talk(x) => IsRefusal(x) \/ IsStart(x) \/ HasStart(d)
  PROVE  TellsBefore(Append(d, x), m)
<1>1. Range(Append(d, x)) = Range(d) \union {x} BY AppendFacts
<1>2. Ordered(Append(d, x)) BY AppendOrdered DEF TellsBefore
<1>3. HasStart(Append(d, x)) <=> HasStart(d) \/ IsStart(x) BY AppendSays
<1> QED BY <1>1, <1>2, <1>3 DEF TellsBefore, TellsOf

LEMMA AppendAfter ==
  ASSUME NEW d \in Seq(ServerEvents), NEW x \in ServerEvents, NEW m,
         TellsAfter(d, m), Talk(x) => Subject(x) = m /\ ~ HasEnd(d), ~ IsStart(x), ~ IsRefusal(x),
         IsLate(x) /\ x.response = m => HasEnd(d)
  PROVE  TellsAfter(Append(d, x), m)
<1> DEFINE c == Append(d, x)
<1>1. /\ Len(c) = Len(d) + 1 /\ Len(d) \in Nat /\ c[Len(d) + 1] = x
      /\ \A i \in 1..Len(d) : c[i] = d[i]
      /\ Range(c) = Range(d) \union {x}
  BY AppendFacts
<1>2. Ordered(c) BY AppendOrdered DEF TellsAfter, InOrder
<1> HIDE DEF c
<1>3. ASSUME NEW i \in 1..Len(c), IsLate(c[i]), c[i].response = m
      PROVE  \E j \in 1..(i - 1) : IsEnd(c[j])
  <2>1. CASE i = Len(d) + 1
    <3>1. HasEnd(d) BY <1>1, <1>3, <2>1
    <3>2. PICK j \in 1..Len(d) : IsEnd(d[j]) BY <3>1, RangeIsElements DEF HasEnd
    <3> QED BY <3>2, <2>1, <1>1
  <2>2. CASE i # Len(d) + 1
    <3>1. i \in 1..Len(d) BY <1>1, <2>2
    <3>2. PICK j \in 1..(i - 1) : IsEnd(d[j]) BY <3>1, <1>1, <1>3 DEF TellsAfter, LateIsLate
    <3> QED BY <3>1, <3>2, <1>1
  <2> QED BY <2>1, <2>2
<1>4. LateIsLate(c, m) BY <1>3 DEF LateIsLate
<1> QED BY <1>1, <1>2, <1>4 DEF TellsAfter, TellsOf, c

LEMMA AppendNodesEnd ==
  ASSUME NEW d \in Seq(ServerEvents), NEW x \in ServerEvents,
         EndsANode(x) \/ (NodesEnd(d) /\ x.type # "running")
  PROVE  NodesEnd(Append(d, x))
<1> DEFINE c == Append(d, x)
<1>1. /\ Len(c) = Len(d) + 1 /\ Len(d) \in Nat /\ c[Len(d) + 1] = x
      /\ \A i \in 1..Len(d) : c[i] = d[i]
  BY AppendFacts
<1> HIDE DEF c
<1> SUFFICES ASSUME NEW i \in 1..Len(c), c[i].type = "running"
             PROVE  \E j \in (i + 1)..Len(c) : EndsANode(c[j])
  BY DEF NodesEnd, c
<1>2. x.type # "running" BY DEF EndsANode
<1>3. i \in 1..Len(d) /\ d[i].type = "running" BY <1>1, <1>2
<1>4. CASE EndsANode(x)
  <2>1. Len(d) + 1 \in (i + 1)..Len(c) BY <1>1, <1>3
  <2> QED BY <2>1, <1>1, <1>4
<1>5. CASE NodesEnd(d)
  <2>1. PICK j \in (i + 1)..Len(d) : EndsANode(d[j]) BY <1>3, <1>5 DEF NodesEnd
  <2>2. j \in (i + 1)..Len(c) /\ c[j] = d[j] BY <2>1, <1>1, <1>3
  <2> QED BY <2>1, <2>2
<1> QED BY <1>4, <1>5

-----------------------------------------------------------------------------
(* ... and when the console takes the first event.                         *)

\* A console hears only events that say who they are about.
LEMMA EventFacts ==
  ASSUME NEW e \in ServerEvents
  PROVE  /\ e.type \in EventTypes /\ WellFormed(e)
         /\ e.message \in Messages \union {None} /\ e.response \in Messages \union {None}
         /\ Talk(e) => Subject(e) \in Messages
<1>1. e.type \in EventTypes /\ WellFormed(e) /\ e.message \in Messages \union {None}
      /\ e.response \in Messages \union {None}
  BY DEF ServerEvents
<1> QED BY <1>1 DEF Talk, IsStart, IsEnd, NodeEvents, TerminalEvents, Subject, WellFormed

\* An idle console is to hear nothing.
LEMMA IdleIsSilent ==
  ASSUME NEW d \in Seq(ServerEvents), None \notin Messages
  PROVE  TellsAfter(d, None) <=> Silent(d)
<1>1. /\ Len(d) \in Nat /\ Range(d) \subseteq ServerEvents
      /\ \A i \in 1..Len(d) : d[i] \in Range(d)
  BY RangeIsElements
<1>2. ASSUME TellsAfter(d, None) PROVE Silent(d)
  BY <1>1, <1>2, EventFacts DEF TellsAfter, TellsOf, Silent
<1>3. ASSUME Silent(d) PROVE TellsAfter(d, None)
  <2>1. \A i \in 1..Len(d) : ~ Talk(d[i]) BY <1>1, <1>3 DEF Silent
  <2>2. Ordered(d) BY <2>1 DEF Ordered
  <2>3. LateIsLate(d, None) BY DEF LateIsLate, IsLate
  <2>4. \A e \in Range(d) : ~ IsStart(e) /\ ~ IsRefusal(e) BY <1>3 DEF Silent, Talk, IsRefusal, IsEnd
  <2> QED BY <1>3, <2>2, <2>3, <2>4 DEF TellsAfter, TellsOf, Silent
<1> QED BY <1>2, <1>3

LEMMA TailSays ==
  ASSUME NEW d \in Seq(ServerEvents), d # <<>>
  PROVE  /\ Silent(d) <=> Silent(Tail(d)) /\ ~ Talk(Head(d))
         /\ HasStart(d) <=> HasStart(Tail(d)) \/ IsStart(Head(d))
         /\ HasEnd(d) <=> HasEnd(Tail(d)) \/ IsEnd(Head(d))
         /\ Completes(d) <=> Completes(Tail(d)) \/ Head(d).type = "response.completed"
         /\ EndsNode(d) <=> EndsNode(Tail(d)) \/ EndsANode(Head(d))
<1>1. Range(d) = {Head(d)} \union Range(Tail(d)) BY TailFacts
<1> QED BY <1>1 DEF Silent, HasStart, HasEnd, Completes, EndsNode

\* What follows an event is neither a start nor a refusal, and nothing follows an end.
LEMMA TailOrdered ==
  ASSUME NEW d \in Seq(ServerEvents), d # <<>>, Ordered(d)
  PROVE  /\ Ordered(Tail(d))
         /\ Talk(Head(d)) => \A e \in Range(Tail(d)) : ~ IsStart(e) /\ ~ IsRefusal(e)
         /\ IsEnd(Head(d)) => Silent(Tail(d))
<1>1. /\ Len(d) = Len(Tail(d)) + 1 /\ Len(Tail(d)) \in Nat /\ Head(d) = d[1]
      /\ \A i \in 1..Len(Tail(d)) : Tail(d)[i] = d[i + 1]
  BY TailFacts
<1>2. Ordered(Tail(d))
  <2> SUFFICES ASSUME NEW i \in 1..Len(Tail(d)), NEW j \in 1..Len(Tail(d)), i < j,
                      Talk(Tail(d)[i]), Talk(Tail(d)[j])
               PROVE  ~ IsStart(Tail(d)[j]) /\ ~ IsEnd(Tail(d)[i]) /\ ~ IsRefusal(Tail(d)[j])
    BY DEF Ordered
  <2>1. i + 1 \in 1..Len(d) /\ j + 1 \in 1..Len(d) /\ i + 1 < j + 1 BY <1>1
  <2>2. Tail(d)[i] = d[i + 1] /\ Tail(d)[j] = d[j + 1] BY <1>1
  <2> QED BY <2>1, <2>2 DEF Ordered
<1>3. ASSUME Talk(Head(d)), NEW e \in Range(Tail(d)), Talk(e)
      PROVE  ~ IsStart(e) /\ ~ IsRefusal(e) /\ ~ IsEnd(Head(d))
  <2>1. PICK i \in 1..Len(d) : i > 1 /\ d[i] = e BY TailPlaces
  <2>2. 1 \in 1..Len(d) BY <1>1
  <2> QED BY <2>1, <2>2, <1>1, <1>3 DEF Ordered
<1>4. \A e : IsStart(e) \/ IsRefusal(e) \/ IsEnd(e) => Talk(e) BY DEF Talk, IsRefusal, IsEnd
<1> QED BY <1>2, <1>3, <1>4 DEF Silent

LEMMA TailBefore ==
  ASSUME NEW d \in Seq(ServerEvents), d # <<>>, NEW m \in Messages, None \notin Messages, TellsBefore(d, m)
  PROVE  LET h == Head(d) IN
         /\ ~ Talk(h) => TellsBefore(Tail(d), m)
         /\ Talk(h) => Subject(h) = m /\ (IsStart(h) \/ IsRefusal(h))
         /\ IsStart(h) => TellsAfter(Tail(d), m)
         /\ IsRefusal(h) => Silent(Tail(d))
         /\ IsLate(h) => h.response # m
<1> DEFINE h == Head(d)
<1>1. /\ Range(d) = {h} \union Range(Tail(d)) /\ Tail(d) \in Seq(ServerEvents)
      /\ h \in ServerEvents
  BY TailFacts
<1>2. /\ Ordered(Tail(d))
      /\ Talk(h) => \A e \in Range(Tail(d)) : ~ IsStart(e) /\ ~ IsRefusal(e)
      /\ IsEnd(h) => Silent(Tail(d))
  BY TailOrdered DEF TellsBefore
<1>3. HasStart(d) <=> HasStart(Tail(d)) \/ IsStart(h) BY TailSays
<1>4. TellsOf(Tail(d), m) /\ (Talk(h) => Subject(h) = m) BY <1>1 DEF TellsBefore, TellsOf
<1>5. (IsStart(h) => Talk(h)) /\ (IsRefusal(h) => Talk(h) /\ IsEnd(h)) BY DEF Talk, IsRefusal, IsEnd
<1> HIDE DEF h
<1>6. \A e \in Range(Tail(d)) : IsLate(e) => e.response # m BY <1>1 DEF TellsBefore
<1>7. ~ Talk(h) => TellsBefore(Tail(d), m) BY <1>1, <1>2, <1>3, <1>4, <1>5, <1>6 DEF TellsBefore
<1>8. Talk(h) => IsStart(h) \/ IsRefusal(h) BY <1>1, <1>2, <1>3 DEF TellsBefore, HasStart
<1>9. LateIsLate(Tail(d), m) BY <1>1, <1>6, RangeIsElements DEF LateIsLate
<1>10. IsStart(h) => TellsAfter(Tail(d), m) BY <1>2, <1>4, <1>5, <1>9 DEF TellsAfter
<1>11. IsLate(h) => h.response # m BY <1>1 DEF TellsBefore
<1> QED BY <1>2, <1>4, <1>5, <1>7, <1>8, <1>10, <1>11 DEF h

LEMMA TailAfter ==
  ASSUME NEW d \in Seq(ServerEvents), d # <<>>, NEW m, TellsAfter(d, m)
  PROVE  LET h == Head(d) IN
         /\ Talk(h) => Subject(h) = m
         /\ ~ IsStart(h) /\ ~ IsRefusal(h)
         /\ ~ IsEnd(h) => TellsAfter(Tail(d), m)
         /\ IsEnd(h) => Silent(Tail(d))
         /\ IsLate(h) => h.response # m
<1> DEFINE h == Head(d)
<1>1. /\ Range(d) = {h} \union Range(Tail(d))
      /\ Len(d) = Len(Tail(d)) + 1 /\ Len(Tail(d)) \in Nat /\ h = d[1]
      /\ \A i \in 1..Len(Tail(d)) : Tail(d)[i] = d[i + 1]
  BY TailFacts
<1>2. /\ Ordered(Tail(d))
      /\ IsEnd(h) => Silent(Tail(d))
  BY TailOrdered DEF TellsAfter
<1>3. TellsOf(Tail(d), m) /\ (Talk(h) => Subject(h) = m) BY <1>1 DEF TellsAfter, TellsOf
<1>4. IsEnd(h) => Talk(h) BY DEF Talk
<1> HIDE DEF h
<1>5. /\ ~ IsStart(h) /\ ~ IsRefusal(h)
      /\ \A e \in Range(Tail(d)) : ~ IsStart(e) /\ ~ IsRefusal(e)
  BY <1>1 DEF TellsAfter
<1>6. IsLate(h) => h.response # m
  <2>1. 1 \in 1..Len(d) BY <1>1
  <2> QED BY <2>1, <1>1 DEF TellsAfter, LateIsLate
<1>7. ASSUME ~ IsEnd(h) PROVE LateIsLate(Tail(d), m)
  <2> SUFFICES ASSUME NEW i \in 1..Len(Tail(d)), IsLate(Tail(d)[i]), Tail(d)[i].response = m
               PROVE  \E j \in 1..(i - 1) : IsEnd(Tail(d)[j])
    BY DEF LateIsLate
  <2>1. i + 1 \in 1..Len(d) /\ Tail(d)[i] = d[i + 1] BY <1>1
  <2>2. PICK j \in 1..((i + 1) - 1) : IsEnd(d[j]) BY <2>1 DEF TellsAfter, LateIsLate
  <2>3. j # 1 BY <2>2, <1>1, <1>7
  <2>4. j - 1 \in 1..(i - 1) /\ j - 1 \in 1..Len(Tail(d)) BY <2>2, <2>3, <1>1
  <2>5. Tail(d)[j - 1] = d[j] BY <2>4, <1>1
  <2> QED BY <2>2, <2>4, <2>5
<1> QED BY <1>2, <1>3, <1>4, <1>5, <1>6, <1>7 DEF TellsAfter, h

LEMMA TailNodesEnd ==
  ASSUME NEW d \in Seq(ServerEvents), d # <<>>, NodesEnd(d)
  PROVE  /\ NodesEnd(Tail(d))
         /\ Head(d).type = "running" => EndsNode(Tail(d))
<1>1. /\ Len(d) = Len(Tail(d)) + 1 /\ Len(Tail(d)) \in Nat /\ Head(d) = d[1] /\ Tail(d) \in Seq(ServerEvents)
      /\ \A i \in 1..Len(Tail(d)) : Tail(d)[i] = d[i + 1]
  BY TailFacts
<1>2. ASSUME NEW i \in 1..Len(Tail(d)), Tail(d)[i].type = "running"
      PROVE  \E j \in (i + 1)..Len(Tail(d)) : EndsANode(Tail(d)[j])
  <2>1. i + 1 \in 1..Len(d) /\ d[i + 1].type = "running" BY <1>1, <1>2
  <2>2. PICK j \in ((i + 1) + 1)..Len(d) : EndsANode(d[j]) BY <2>1 DEF NodesEnd
  <2>3. j - 1 \in (i + 1)..Len(Tail(d)) /\ Tail(d)[j - 1] = d[j] BY <2>2, <1>1
  <2> QED BY <2>2, <2>3
<1>3. ASSUME Head(d).type = "running" PROVE EndsNode(Tail(d))
  <2>1. 1 \in 1..Len(d) BY <1>1
  <2>2. PICK j \in (1 + 1)..Len(d) : EndsANode(d[j]) BY <2>1, <1>1, <1>3 DEF NodesEnd
  <2>3. j - 1 \in 1..Len(Tail(d)) /\ Tail(d)[j - 1] = d[j] BY <2>2, <1>1
  <2>4. Tail(d)[j - 1] \in Range(Tail(d)) BY <2>3, <1>1, RangeIsElements
  <2> QED BY <2>2, <2>3, <2>4 DEF EndsNode
<1> QED BY <1>2, <1>3 DEF NodesEnd

-----------------------------------------------------------------------------
(* Types.                                                                  *)

LEMMA ConstantFacts ==
  /\ MaxMessages \in Nat /\ MaxSockets \in Nat /\ MaxReconnectAttempts \in Nat
  /\ Messages \subseteq Nat /\ Sockets \subseteq Nat /\ 1 \in Sockets
  /\ None \notin Messages /\ None \notin Sockets /\ None \notin Turns
  /\ None \notin {"running", "over", "completed", "failed", "cancelled", "interrupted"}
  BY BoundsAssumption DEF Messages, Sockets

\* Typing says all that TypeOK does.
LEMMA TypingIsTypeOK == Typing => TypeOK
<1> SUFFICES ASSUME Typing PROVE TypeOK OBVIOUS
<1> USE DEF Typing, WiresOK, HandlersOK, ConnectingOK, RequestOK, PastOK, Views
<1>1. link \in [Sockets -> {"unused", "connecting", "open", "closing", "broken", "closed"}]
  BY DEF LinkStates
<1>2. ASSUME NEW s \in Sockets PROVE Range(up[s]) \subseteq ClientEvents /\ turn[s] \in Turns \union {None}
  BY <1>2, RangeIsElements
<1>3. workflow.node \in NodeStates /\ workflow.terminal \in NodeStates \ {"running"} OBVIOUS
<1> QED BY <1>1, <1>2, <1>3 DEF TypeOK

\* The events of the model.
LEMMA ServerEventFacts ==
  ASSUME NEW m \in Messages
  PROVE  /\ \A t \in NodeEvents \union TerminalEvents : ServerEvent(t, None, m) \in ServerEvents
         /\ ServerEvent("response.started", m, m) \in ServerEvents
         /\ ServerEvent("error", m, m) \in ServerEvents
         /\ ServerEvent("error", m, None) \in ServerEvents
         /\ ServerEvent("error", None, m) \in ServerEvents
         /\ ServerEvent("error", None, None) \in ServerEvents
         /\ ServerEvent("conversation.ready", None, None) \in ServerEvents
  BY ConstantFacts DEF ServerEvent, ServerEvents, WellFormed, EventTypes, NodeEvents, TerminalEvents

\* What send() does.
LEMMA SendFacts ==
  ASSUME Typing, NEW s \in Sockets, NEW e \in ServerEvents, Send(s, e)
  PROVE  /\ down' \in [Sockets -> Seq(ServerEvents)]
         /\ link[s] = "open" => down'[s] = Append(down[s], e)
         /\ \A t \in Sockets : t # s => down'[t] = down[t]
         /\ \A t \in Sockets : \A x \in Range(down'[t]) : x \in Range(down[t]) \/ x = e
<1>1. down \in [Sockets -> Seq(ServerEvents)] BY DEF Typing, WiresOK
<1>2. down[s] \in Seq(ServerEvents) BY <1>1
<1>3. Append(down[s], e) \in Seq(ServerEvents) /\ Range(Append(down[s], e)) = Range(down[s]) \union {e}
  BY <1>2, AppendFacts
<1>4. CASE link[s] = "open"
  <2>1. down' = [down EXCEPT ![s] = Append(down[s], e)] BY <1>4 DEF Send
  <2> QED BY <2>1, <1>1, <1>3
<1>5. CASE link[s] # "open"
  <2>1. down' = down BY <1>5 DEF Send
  <2> QED BY <2>1, <1>1, <1>5
<1> QED BY <1>4, <1>5

\* What the browser's send() does.
LEMMA TransmitFacts ==
  ASSUME Typing, socket \in Sockets, NEW e \in ClientEvents, Transmit(e)
  PROVE  /\ up' \in [Sockets -> Seq(ClientEvents)]
         /\ link[socket] = "open" => up'[socket] = Append(up[socket], e)
         /\ link[socket] # "open" => up' = up
         /\ \A t \in Sockets : t # socket => up'[t] = up[t]
         /\ \A t \in Sockets : \A x \in Range(up'[t]) : x \in Range(up[t]) \/ x = e
<1>1. up \in [Sockets -> Seq(ClientEvents)] BY DEF Typing, WiresOK
<1>2. up[socket] \in Seq(ClientEvents) BY <1>1
<1>3. /\ Append(up[socket], e) \in Seq(ClientEvents)
      /\ Range(Append(up[socket], e)) = Range(up[socket]) \union {e}
  BY <1>2, AppendFacts
<1>4. CASE link[socket] = "open"
  <2>1. up' = [up EXCEPT ![socket] = Append(up[socket], e)] BY <1>4 DEF Transmit
  <2> QED BY <2>1, <1>1, <1>3, <1>4
<1>5. CASE link[socket] # "open"
  <2>1. up' = up BY <1>5 DEF Transmit
  <2> QED BY <2>1, <1>1, <1>5
<1> QED BY <1>4, <1>5

\* The handler takes the first event; the console does.
LEMMA AnsweredFacts ==
  ASSUME Typing, NEW s \in Sockets, NEW type, Received(s, type), Answered(s)
  PROVE  /\ up' \in [Sockets -> Seq(ClientEvents)]
         /\ Head(up[s]) \in ClientEvents /\ Head(up[s]).id \in Messages /\ Head(up[s]).type = type
         /\ up[s] # <<>> /\ up'[s] = Tail(up[s]) /\ Range(up[s]) = {Head(up[s])} \union Range(up'[s])
         /\ \A t \in Sockets : t # s => up'[t] = up[t]
         /\ \A t \in Sockets : Range(up'[t]) \subseteq Range(up[t])
<1>1. up \in [Sockets -> Seq(ClientEvents)] BY DEF Typing, WiresOK
<1>2. up[s] \in Seq(ClientEvents) /\ up[s] # <<>> BY <1>1 DEF Received
<1>3. /\ Tail(up[s]) \in Seq(ClientEvents) /\ Range(up[s]) = {Head(up[s])} \union Range(Tail(up[s]))
      /\ Head(up[s]) \in ClientEvents
  BY <1>2, TailFacts
<1>4. up' = [up EXCEPT ![s] = Tail(up[s])] BY DEF Answered
<1>5. Head(up[s]).id \in Messages BY <1>3 DEF ClientEvents, ClientEvent
<1>6. Head(up[s]).type = type BY DEF Received
<1> QED BY <1>1, <1>2, <1>3, <1>4, <1>5, <1>6

LEMMA ArrivalFacts ==
  ASSUME Typing, NEW s \in Sockets, MessageArrives(s)
  PROVE  /\ down' \in [Sockets -> Seq(ServerEvents)]
         /\ down[s] \in Seq(ServerEvents) /\ down[s] # <<>> /\ down'[s] = Tail(down[s])
         /\ Head(down[s]) \in ServerEvents
         /\ Range(down[s]) = {Head(down[s])} \union Range(down'[s])
         /\ \A t \in Sockets : t # s => down'[t] = down[t]
         /\ \A t \in Sockets : Range(down'[t]) \subseteq Range(down[t])
<1>1. down \in [Sockets -> Seq(ServerEvents)] BY DEF Typing, WiresOK
<1>2. down[s] \in Seq(ServerEvents) /\ down[s] # <<>> BY <1>1 DEF MessageArrives
<1>3. /\ Tail(down[s]) \in Seq(ServerEvents) /\ Head(down[s]) \in ServerEvents
      /\ Range(down[s]) = {Head(down[s])} \union Range(Tail(down[s]))
  BY <1>2, TailFacts
<1>4. down' = [down EXCEPT ![s] = Tail(down[s])] BY DEF MessageArrives
<1> QED BY <1>1, <1>2, <1>3, <1>4

\* A handler's turn has the number of a message.
LEMMA TurnFacts ==
  ASSUME Typing, NEW s \in Sockets, turn[s] # None
  PROVE  /\ turn[s] \in Turns /\ turn[s].id \in Messages
         /\ turn[s].stage \in {"begun", "streaming", "ended"} /\ turn[s].node \in {None, "running", "over"}
  BY DEF Typing, HandlersOK, Turns

\* The console's operations keep the types.
LEMMA ConsoleKeepsTypes ==
  ASSUME Typing
  PROVE  /\ \A readable \in BOOLEAN : SubmitMessage(readable) => Typing'
         /\ SubmitStop \/ NewSession \/ ClearDisplay \/ ReconnectTimerFires => Typing'
         /\ \A s \in Sockets : SocketCloses(s) \/ MessageArrives(s) => Typing'
<1> USE ConstantFacts
<1> USE DEF Typing, WiresOK, HandlersOK, ConnectingOK, RequestOK, PastOK, wires, handlers, connecting, request, past
<1>1. ASSUME NEW readable \in BOOLEAN, SubmitMessage(readable) PROVE Typing'
  <2>1. messageSequence' \in Messages /\ messageSequence' \in 0..MaxMessages /\ socket \in Sockets
    BY <1>1 DEF SubmitMessage, CanSend, Messages
  <2>2. ClientEvent("message.create", messageSequence') \in ClientEvents BY <2>1 DEF ClientEvents
  <2>3. up' \in [Sockets -> Seq(ClientEvents)] BY <1>1, <2>1, <2>2, TransmitFacts DEF SubmitMessage
  <2> QED BY <1>1, <2>1, <2>3 DEF SubmitMessage
<1>2. CASE SubmitStop
  <2>1. socket \in Sockets /\ activeResponseId \in Messages BY <1>2 DEF SubmitStop, CanSend
  <2>2. ClientEvent("response.cancel", activeResponseId) \in ClientEvents BY <2>1 DEF ClientEvents
  <2>3. up' \in [Sockets -> Seq(ClientEvents)] BY <1>2, <2>1, <2>2, TransmitFacts DEF SubmitStop
  <2> QED BY <1>2, <2>3 DEF SubmitStop
<1>3. NoWorkflow \in Views BY DEF NoWorkflow, Views, NodeStates
<1>4. ASSUME NEW links \in [Sockets -> LinkStates], NEW attempts \in 0..MaxReconnectAttempts,
             Connect(links, attempts)
      PROVE  ConnectingOK' /\ link' \in [Sockets -> LinkStates]
  <2>1. opened' \in Sockets /\ socket' = opened'
    <3>1. opened \in Nat /\ opened < MaxSockets /\ opened' = opened + 1 /\ socket' = opened' BY <1>4 DEF Connect
    <3> QED BY <3>1 DEF Sockets
  <2>2. link' \in [Sockets -> LinkStates] BY <1>4, <2>1 DEF Connect, LinkStates
  <2> QED BY <1>4, <2>1, <2>2 DEF Connect
<1>5. CASE NewSession
  <2> DEFINE links == IF socket = None THEN link
                      ELSE [link EXCEPT ![socket] = IF @ = "open" THEN "closing" ELSE "broken"]
  <2>1. links \in [Sockets -> LinkStates] BY DEF LinkStates
  <2>2. Connect(links, 0) /\ 0 \in 0..MaxReconnectAttempts BY <1>5 DEF NewSession
  <2> HIDE DEF links
  <2>3. ConnectingOK' /\ link' \in [Sockets -> LinkStates] BY <1>4, <2>1, <2>2
  <2>4. <<>> \in Seq(ServerEvents) BY EmptyFacts
  <2>5. down' \in [Sockets -> Seq(ServerEvents)] BY <1>5, <2>4 DEF NewSession
  <2> QED BY <1>3, <1>5, <2>3, <2>5 DEF NewSession, ResetRequestState
<1>6. CASE ClearDisplay BY <1>3, <1>6 DEF ClearDisplay
<1>7. CASE ReconnectTimerFires
  <2>1. ConnectingOK' /\ link' \in [Sockets -> LinkStates] BY <1>4, <1>7 DEF ReconnectTimerFires
  <2> QED BY <1>7, <2>1 DEF ReconnectTimerFires
<1>8. ASSUME NEW r, NEW terminal \in NodeStates \ {"running"} PROVE Finished(r, terminal) \in Views
  <2>1. CASE workflow.response # r BY <2>1 DEF Finished
  <2>2. CASE workflow.response = r
    <3>1. Finished(r, terminal) = [workflow EXCEPT !.terminal = terminal,
                                                   !.node = IF @ = "running" THEN terminal ELSE @]
      BY <2>2 DEF Finished
    <3> QED BY <3>1 DEF Views
  <2> QED BY <2>1, <2>2
<1>9. ASSUME NEW s \in Sockets, SocketCloses(s) PROVE Typing'
  <2>1. link' \in [Sockets -> LinkStates] BY <1>9 DEF SocketCloses, LinkStates
  <2>2. CASE socket = s
    <3>1. Finished(activeResponseId, "interrupted") \in Views BY <1>8 DEF NodeStates
    <3>2. workflow' \in Views BY <1>9, <2>2, <3>1 DEF SocketCloses, HandleClose
    <3>3. reconnectAttempts' \in 0..MaxReconnectAttempts
      <4>1. \/ reconnectAttempts' = reconnectAttempts
            \/ reconnectAttempts < MaxReconnectAttempts /\ reconnectAttempts' = reconnectAttempts + 1
        BY <1>9, <2>2 DEF SocketCloses, HandleClose
      <4>2. reconnectAttempts \in 0..MaxReconnectAttempts /\ MaxReconnectAttempts \in Nat OBVIOUS
      <4> QED BY <4>1, <4>2
    <3> QED BY <1>9, <2>1, <2>2, <3>2, <3>3 DEF SocketCloses, HandleClose, ResetRequestState
  <2>3. CASE socket # s BY <1>9, <2>1, <2>3 DEF SocketCloses, HandleClose
  <2> QED BY <2>2, <2>3
<1>10. ASSUME NEW s \in Sockets, MessageArrives(s) PROVE Typing'
  <2> DEFINE e == Head(down[s])
  <2>1. down' \in [Sockets -> Seq(ServerEvents)] /\ e \in ServerEvents BY <1>10, ArrivalFacts
  <2>2. /\ e.response \in Messages \union {None}
        /\ e.type = "response.started" => e.response # None
    BY <2>1, EventFacts DEF WellFormed
  <2> HIDE DEF e
  <2>3. ASSUME HandleEvent(e) PROVE ConnectingOK' /\ RequestOK' /\ workflow' \in Views
    <3>1. CASE HandleReady(e) BY <3>1 DEF HandleReady
    <3>2. CASE HandleStarted(e)
      <4>1. [NoWorkflow EXCEPT !.response = e.response] \in Views
        BY <2>2 DEF NoWorkflow, Views, NodeStates
      <4> QED BY <2>2, <3>2, <4>1 DEF HandleStarted
    <3>3. CASE HandleNode(e)
      <4>1. workflow' \in Views BY <3>3 DEF HandleNode, Views, NodeStates
      <4> QED BY <3>3, <4>1 DEF HandleNode
    <3>4. CASE HandleTerminal(e)
      <4>1. workflow' \in Views BY <1>8, <3>4 DEF HandleTerminal, NodeStates
      <4> QED BY <3>4, <4>1 DEF HandleTerminal, ResetRequestState
    <3>5. CASE HandleError(e)
      <4>1. workflow' \in Views BY <1>8, <3>5 DEF HandleError, NodeStates
      <4> QED BY <3>5, <4>1 DEF HandleError, ResetRequestState
    <3> QED BY <2>3, <3>1, <3>2, <3>3, <3>4, <3>5 DEF HandleEvent
  <2>4. ConnectingOK' /\ RequestOK' /\ workflow' \in Views BY <1>10, <2>3 DEF MessageArrives, e
  <2> QED BY <1>10, <2>1, <2>4 DEF MessageArrives
<1> QED BY <1>1, <1>2, <1>5, <1>6, <1>7, <1>9, <1>10

\* So do the network and the handlers.
LEMMA ServerKeepsTypes ==
  ASSUME Typing, NEW s \in Sockets,
         AcceptSocket(s) \/ RefuseSocket(s) \/ LinkBreaks(s) \/ Receive(s) \/ TurnStep(s)
  PROVE  Typing'
<1> USE ConstantFacts
<1> USE DEF Typing, WiresOK, HandlersOK, ConnectingOK, RequestOK, PastOK, wires, handlers, connecting, request, past
<1>1. <<>> \in Seq(ServerEvents) /\ <<>> \in Seq(ClientEvents) BY EmptyFacts
<1>2. CASE AcceptSocket(s)
  <2>1. 1 \in Messages BY BoundsAssumption DEF Messages
  <2>2. ServerEvent("conversation.ready", None, None) \in ServerEvents BY <2>1, ServerEventFacts
  <2>3. <<ServerEvent("conversation.ready", None, None)>> \in Seq(ServerEvents) BY <2>2
  <2> QED BY <1>2, <2>3 DEF AcceptSocket, LinkStates
<1>3. CASE RefuseSocket(s) BY <1>3 DEF RefuseSocket, LinkStates
<1>4. CASE LinkBreaks(s) BY <1>1, <1>4 DEF LinkBreaks, LinkStates
<1>5. CASE Receive(s)
  <2>1. CASE HandlerEnds(s) BY <2>1 DEF HandlerEnds
  <2>2. ASSUME NEW type, Received(s, type), Answered(s), NEW e \in ServerEvents, Send(s, e) \/ UNCHANGED down,
               turn' \in [Sockets -> Turns \union {None}], outcome' \in [Messages -> NodeStates]
        PROVE  Typing'
    <3>1. down' \in [Sockets -> Seq(ServerEvents)] BY <2>2, SendFacts
    <3>2. up' \in [Sockets -> Seq(ClientEvents)] BY <2>2, AnsweredFacts
    <3> QED BY <2>2, <3>1, <3>2 DEF Answered
  <2>3. ASSUME NEW type, Received(s, type), Answered(s) PROVE Head(up[s]).id \in Messages
    BY <2>3, AnsweredFacts
  <2>4. CASE RejectUnreadable(s)
    <3>1. ServerEvent("error", None, None) \in ServerEvents BY <2>3, <2>4, ServerEventFacts DEF RejectUnreadable
    <3> QED BY <2>2, <2>4, <3>1 DEF RejectUnreadable
  <2>5. CASE RejectBusy(s)
    <3>1. ServerEvent("error", Head(up[s]).id, None) \in ServerEvents
      BY <2>3, <2>5, ServerEventFacts DEF RejectBusy, Readable
    <3> QED BY <2>2, <2>5, <3>1 DEF RejectBusy, Readable
  <2>6. CASE StartTurn(s)
    <3>1. /\ [id |-> Head(up[s]).id, stage |-> "begun", node |-> None] \in Turns
          /\ ServerEvent("error", None, None) \in ServerEvents
      BY <2>3, <2>6, ServerEventFacts DEF StartTurn, Readable, Turns
    <3>2. turn' \in [Sockets -> Turns \union {None}] BY <2>6, <3>1 DEF StartTurn
    <3> QED BY <2>2, <2>6, <3>1, <3>2 DEF StartTurn, Readable
  <2>7. CASE CancelTurn(s)
    <3>1. turn[s].id \in Messages BY <2>7, TurnFacts DEF CancelTurn, Generates
    <3>2. ServerEvent("response.cancelled", None, turn[s].id) \in ServerEvents
      BY <3>1, ServerEventFacts DEF TerminalEvents
    <3>3. turn' \in [Sockets -> Turns \union {None}] /\ outcome' \in [Messages -> NodeStates]
      BY <2>7 DEF CancelTurn, NodeStates
    <3> QED BY <2>2, <2>7, <3>2, <3>3 DEF CancelTurn
  <2>8. CASE CancelNotFound(s)
    <3>1. ServerEvent("error", None, Head(up[s]).id) \in ServerEvents
      BY <2>3, <2>8, ServerEventFacts DEF CancelNotFound
    <3> QED BY <2>2, <2>8, <3>1 DEF CancelNotFound
  <2> QED BY <1>5, <2>1, <2>4, <2>5, <2>6, <2>7, <2>8 DEF Receive
<1>6. CASE TurnStep(s)
  <2>1. turn[s] \in Turns /\ turn[s].id \in Messages
    BY <1>6, TurnFacts DEF TurnStep, ResponseStarts, NodeStarts, NodeEnds, ResponseCompletes, ResponseFails,
       FreeSession, At
  <2>2. ASSUME NEW e \in ServerEvents, Send(s, e) \/ UNCHANGED down, ServerOnly,
               turn' \in [Sockets -> Turns \union {None}], outcome' \in [Messages -> NodeStates]
        PROVE  Typing'
    <3>1. down' \in [Sockets -> Seq(ServerEvents)] BY <2>2, SendFacts
    <3> QED BY <2>2, <3>1 DEF ServerOnly
  <2>3. CASE ResponseStarts(s)
    <3>1. ServerEvent("response.started", turn[s].id, turn[s].id) \in ServerEvents BY <2>1, ServerEventFacts
    <3>2. turn' \in [Sockets -> Turns \union {None}] BY <2>1, <2>3 DEF ResponseStarts, Turns
    <3> QED BY <2>2, <2>3, <3>1, <3>2 DEF ResponseStarts
  <2>4. CASE NodeStarts(s)
    <3>1. ServerEvent("running", None, turn[s].id) \in ServerEvents BY <2>1, ServerEventFacts DEF NodeEvents
    <3>2. turn' \in [Sockets -> Turns \union {None}] BY <2>1, <2>4 DEF NodeStarts, Turns
    <3> QED BY <2>2, <2>4, <3>1, <3>2 DEF NodeStarts
  <2>5. ASSUME NEW result \in {"completed", "failed"}, NodeEnds(s, result) PROVE Typing'
    <3>1. ServerEvent(result, None, turn[s].id) \in ServerEvents BY <2>1, ServerEventFacts DEF NodeEvents
    <3>2. turn' \in [Sockets -> Turns \union {None}] BY <2>1, <2>5 DEF NodeEnds, Turns
    <3> QED BY <2>2, <2>5, <3>1, <3>2 DEF NodeEnds
  <2>6. ASSUME NEW result \in {"completed", "failed"}, EndTurn(s, result)
        PROVE  turn' \in [Sockets -> Turns \union {None}] /\ outcome' \in [Messages -> NodeStates]
    BY <2>1, <2>6 DEF EndTurn, Turns, NodeStates
  <2>7. CASE ResponseCompletes(s)
    <3>1. ServerEvent("response.completed", None, turn[s].id) \in ServerEvents
      BY <2>1, ServerEventFacts DEF TerminalEvents
    <3> QED BY <2>2, <2>6, <2>7, <3>1 DEF ResponseCompletes
  <2>8. CASE ResponseFails(s)
    <3>1. ServerEvent("error", turn[s].id, turn[s].id) \in ServerEvents BY <2>1, ServerEventFacts
    <3> QED BY <2>2, <2>6, <2>8, <3>1 DEF ResponseFails
  <2>9. CASE FreeSession(s)
    <3>1. ServerEvent("error", None, None) \in ServerEvents BY <2>1, ServerEventFacts
    <3>2. turn' \in [Sockets -> Turns \union {None}] BY <2>9 DEF FreeSession
    <3> QED BY <2>2, <2>9, <3>1, <3>2 DEF FreeSession
  <2> QED BY <1>6, <2>3, <2>4, <2>5, <2>7, <2>8, <2>9 DEF TurnStep
<1> QED BY <1>2, <1>3, <1>4, <1>5, <1>6

-----------------------------------------------------------------------------
(* Connections.                                                            *)

\* The console's operations, and what it is told, keep Connections.
LEMMA ConsoleKeepsConnections ==
  ASSUME Typing, Connections
  PROVE  /\ \A readable \in BOOLEAN : SubmitMessage(readable) => Connections'
         /\ SubmitStop \/ NewSession \/ ClearDisplay \/ ReconnectTimerFires => Connections'
         /\ \A s \in Sockets : SocketCloses(s) \/ MessageArrives(s) => Connections'
<1> USE ConstantFacts
<1> USE DEF Typing, WiresOK, HandlersOK, ConnectingOK, RequestOK, handlers, connecting, request, past,
        Connections, LostSocketIsRetried, NoTimerWhileConnected, IdleUnlessConnected, FreshSockets
<1>1. ASSUME socket \in Sockets, link[socket] \in {"open", "broken"}, NEW e \in ClientEvents, Transmit(e),
             UNCHANGED <<link, handlers, connecting>>
      PROVE  Connections'
  <2>1. /\ \A t \in Sockets : t # socket => up'[t] = up[t]
        /\ link[socket] # "open" => up' = up
    BY <1>1, TransmitFacts
  <2>2. FreshSockets' BY <1>1, <2>1
  <2> QED BY <1>1, <2>2
<1>2. ASSUME NEW readable \in BOOLEAN, SubmitMessage(readable) PROVE Connections'
  <2>1. messageSequence' \in Messages BY <1>2 DEF SubmitMessage, Messages, PastOK
  <2>2. ClientEvent("message.create", messageSequence') \in ClientEvents BY <2>1 DEF ClientEvents
  <2> QED BY <1>1, <1>2, <2>2 DEF SubmitMessage, CanSend
<1>3. CASE SubmitStop
  <2>1. ClientEvent("response.cancel", activeResponseId) \in ClientEvents BY <1>3 DEF SubmitStop, ClientEvents
  <2> QED BY <1>1, <1>3, <2>1 DEF SubmitStop, CanSend
<1>4. ASSUME NEW links \in [Sockets -> LinkStates], NEW attempts \in 0..MaxReconnectAttempts,
             Connect(links, attempts), UNCHANGED <<up, handlers>>, phase' = "idle",
             \A s \in Sockets : links[s] \in {"unused", "connecting"} => link[s] \in {"unused", "connecting"},
             \A s \in Sockets : s > opened => links[s] = link[s]
      PROVE  Connections'
  <2>1. /\ opened' \in Sockets /\ opened' = opened + 1 /\ socket' = opened'
        /\ timer' = FALSE /\ intentionalClose' = FALSE
    <3>1. /\ opened \in Nat /\ opened < MaxSockets /\ opened' = opened + 1 /\ socket' = opened'
          /\ timer' = FALSE /\ intentionalClose' = FALSE
      BY <1>4 DEF Connect
    <3> QED BY <3>1 DEF Sockets
  <2>2. link' = [links EXCEPT ![opened'] = "connecting"] BY <1>4 DEF Connect
  <2>3. link[opened'] = "unused" BY <2>1
  <2>4. FreshSockets'
    <3>1. ASSUME NEW s \in Sockets, s # opened'
          PROVE  /\ s > opened' => link'[s] = "unused"
                 /\ link'[s] \in {"unused", "connecting"} => up[s] = <<>> /\ turn[s] = None
      <4>1. link'[s] = links[s] BY <1>4, <2>2, <3>1
      <4>2. s > opened' => s > opened BY <2>1
      <4> QED BY <1>4, <4>1, <4>2
    <3>2. up[opened'] = <<>> /\ turn[opened'] = None BY <2>1, <2>3
    <3> QED BY <1>4, <2>1, <3>1, <3>2
  <2> QED BY <1>4, <2>1, <2>4
<1>5. CASE NewSession
  <2> DEFINE links == IF socket = None THEN link
                      ELSE [link EXCEPT ![socket] = IF @ = "open" THEN "closing" ELSE "broken"]
  <2>1. links \in [Sockets -> LinkStates] BY DEF LinkStates
  <2>2. Connect(links, 0) /\ 0 \in 0..MaxReconnectAttempts BY <1>5 DEF NewSession
  <2>3. CASE socket = None BY <1>4, <1>5, <2>1, <2>2, <2>3 DEF NewSession, ResetRequestState
  <2>4. CASE socket # None
    <3>1. \A s \in Sockets : links[s] \in {"unused", "connecting"} => link[s] \in {"unused", "connecting"}
      BY <2>4
    <3>2. \A s \in Sockets : s > opened => links[s] = link[s] BY <2>4
    <3> HIDE DEF links
    <3> QED BY <1>4, <1>5, <2>1, <2>2, <3>1, <3>2 DEF NewSession, ResetRequestState
  <2> QED BY <2>3, <2>4
<1>6. CASE ClearDisplay BY <1>6 DEF ClearDisplay, wires
<1>7. CASE ReconnectTimerFires BY <1>4, <1>7 DEF ReconnectTimerFires
<1>8. ASSUME NEW s \in Sockets, SocketCloses(s) PROVE Connections'
  <2>1. FreshSockets'
    <3>1. link' = [link EXCEPT ![s] = "closed"] /\ opened' = opened /\ UNCHANGED <<up, turn>>
      BY <1>8 DEF SocketCloses, HandleClose
    <3>2. link[s] \notin {"unused", "connecting"} BY <1>8 DEF SocketCloses
    <3> QED BY <3>1, <3>2
  <2>2. CASE socket = s BY <1>8, <2>1, <2>2 DEF SocketCloses, HandleClose, ResetRequestState
  <2>3. CASE socket # s BY <1>8, <2>1, <2>3 DEF SocketCloses, HandleClose
  <2> QED BY <2>2, <2>3
<1>9. ASSUME NEW s \in Sockets, MessageArrives(s) PROVE Connections'
  <2>1. UNCHANGED <<link, up, turn, socket, opened, timer, intentionalClose>> /\ link[s] = "open"
    BY <1>9 DEF MessageArrives, HandleEvent, HandleReady, HandleStarted, HandleNode, HandleTerminal, HandleError
  <2>2. CASE socket = s BY <1>9, <2>1, <2>2
  <2>3. CASE socket # s BY <1>9, <2>1, <2>3 DEF MessageArrives
  <2> QED BY <2>2, <2>3
<1> QED BY <1>2, <1>3, <1>5, <1>6, <1>7, <1>8, <1>9

\* So do the network and the handlers.
LEMMA ServerKeepsConnections ==
  ASSUME Typing, Connections, NEW s \in Sockets,
         AcceptSocket(s) \/ RefuseSocket(s) \/ LinkBreaks(s) \/ Receive(s) \/ TurnStep(s)
  PROVE  Connections'
<1> USE ConstantFacts
<1> USE DEF Typing, WiresOK, HandlersOK, ConnectingOK, RequestOK, wires, connecting, request,
        Connections, LostSocketIsRetried, NoTimerWhileConnected, IdleUnlessConnected, FreshSockets
<1>1. CASE AcceptSocket(s) BY <1>1 DEF AcceptSocket
<1>2. CASE RefuseSocket(s) BY <1>2 DEF RefuseSocket, handlers
<1>3. CASE LinkBreaks(s) BY <1>3 DEF LinkBreaks, handlers
<1>4. ASSUME up[s] # <<>> \/ turn[s] # None, UNCHANGED <<link, connecting, request>>,
             \A t \in Sockets : t # s => up'[t] = up[t] /\ turn'[t] = turn[t]
      PROVE  Connections'
  BY <1>4
<1>5. CASE Receive(s)
  <2>1. CASE HandlerEnds(s) BY <2>1 DEF HandlerEnds
  <2>2. CASE ~ HandlerEnds(s)
    <3>1. PICK type : Received(s, type) /\ Answered(s)
      BY <1>5, <2>2 DEF Receive, RejectUnreadable, RejectBusy, StartTurn, CancelTurn, CancelNotFound, Readable
    <3>2. up[s] # <<>> /\ \A t \in Sockets : t # s => up'[t] = up[t] BY <3>1, AnsweredFacts
    <3>3. \A t \in Sockets : t # s => turn'[t] = turn[t]
      BY <1>5, <2>2 DEF Receive, RejectUnreadable, RejectBusy, StartTurn, CancelTurn, CancelNotFound
    <3> QED BY <1>4, <3>1, <3>2, <3>3 DEF Answered
  <2> QED BY <2>1, <2>2
<1>6. CASE TurnStep(s)
  <2>1. turn[s] # None /\ ServerOnly
    BY <1>6 DEF TurnStep, ResponseStarts, NodeStarts, NodeEnds, ResponseCompletes, ResponseFails, FreeSession, At
  <2>2. \A t \in Sockets : t # s => turn'[t] = turn[t]
    BY <1>6 DEF TurnStep, ResponseStarts, NodeStarts, NodeEnds, ResponseCompletes, ResponseFails, FreeSession, EndTurn
  <2> QED BY <1>4, <2>1, <2>2 DEF ServerOnly
<1> QED BY <1>1, <1>2, <1>3, <1>5, <1>6

-----------------------------------------------------------------------------
(* Messages under way and generated.                                       *)

LEMMA UpFacts ==
  ASSUME Typing, NEW s \in Sockets
  PROVE  /\ up[s] \in Seq(ClientEvents) /\ Len(up[s]) \in Nat
         /\ \A i \in 1..Len(up[s]) : up[s][i].id \in Messages /\ up[s][i] \in Range(up[s])
         /\ \A e \in Range(up[s]) : e.id \in Messages /\ e.type \in {"message.create", "response.cancel"}
<1>1. up[s] \in Seq(ClientEvents) BY DEF Typing, WiresOK
<1>2. \A e \in ClientEvents : e.id \in Messages /\ e.type \in {"message.create", "response.cancel"}
  BY DEF ClientEvents, ClientEvent
<1> QED BY <1>1, <1>2, RangeIsElements

\* What a step that sends no message and starts no turn does to the messages under way.
Advances(k) == \A s \in Sockets : \A i \in 1..Len(up'[s]) :
  up'[s][i].type = "message.create" => i + k[s] \in 1..Len(up[s]) /\ up'[s][i] = up[s][i + k[s]]
NoNewCreation == \E k \in [Sockets -> {0, 1}] : Advances(k)
NoNewTurn == \A s \in Sockets : Generating(s)' => Generating(s) /\ turn'[s].id = turn[s].id
EndsOfTurns == \A m \in Messages :
  outcome'[m] = outcome[m] \/ \E s \in Sockets : Generating(s) /\ turn[s].id = m /\ ~ Generating(s)'

LEMMA OpenStays ==
  ASSUME Typing, Typing', Open, NoNewCreation, NoNewTurn, EndsOfTurns
  PROVE  Open'
<1>1. PICK k \in [Sockets -> {0, 1}] : Advances(k) BY DEF NoNewCreation
<1>2. ASSUME NEW s \in Sockets, NEW i \in 1..Len(up'[s]), Creates(s, i)'
      PROVE  /\ i \in Nat /\ k[s] \in Nat /\ i + k[s] \in 1..Len(up[s])
             /\ up'[s][i] = up[s][i + k[s]] /\ Creates(s, i + k[s])
             /\ up'[s][i].id \in Messages
  <2>1. i + k[s] \in 1..Len(up[s]) /\ up'[s][i] = up[s][i + k[s]] BY <1>1, <1>2 DEF Advances, Creates
  <2>2. up[s][i + k[s]].id \in Messages BY <2>1, UpFacts
  <2>3. k[s] \in {0, 1} BY <1>1
  <2> QED BY <1>2, <2>1, <2>2, <2>3 DEF Creates
<1>3. ASSUME NEW s \in Sockets, NEW t \in Sockets, NEW i \in 1..Len(up'[s]), NEW j \in 1..Len(up'[t]),
             Creates(s, i)', Creates(t, j)', up'[s][i].id = up'[t][j].id
      PROVE  s = t /\ i = j
  <2>1. /\ i + k[s] \in 1..Len(up[s]) /\ Creates(s, i + k[s]) /\ i \in Nat /\ k[s] \in Nat
        /\ j + k[t] \in 1..Len(up[t]) /\ Creates(t, j + k[t]) /\ j \in Nat /\ k[t] \in Nat
        /\ up[s][i + k[s]].id = up[t][j + k[t]].id
    BY <1>2, <1>3
  <2>2. s = t /\ i + k[s] = j + k[t] BY <2>1 DEF Open, OneCreation
  <2> QED BY <2>1, <2>2
<1>4. ASSUME NEW s \in Sockets, NEW t \in Sockets, NEW i \in 1..Len(up'[s]), Creates(s, i)'
      PROVE  outcome'[up'[s][i].id] = None /\ (Generating(t)' => turn'[t].id # up'[s][i].id)
  <2> DEFINE m == up'[s][i].id
  <2>1. m \in Messages /\ i + k[s] \in 1..Len(up[s]) /\ Creates(s, i + k[s]) /\ m = up[s][i + k[s]].id
    BY <1>2, <1>4
  <2>2. CreationsAreOpen BY DEF Open
  <2> HIDE DEF m
  <2>3. outcome[m] = None /\ \A u \in Sockets : Generating(u) => turn[u].id # m
    BY <2>1, <2>2 DEF CreationsAreOpen
  <2>4. outcome'[m] = None /\ (Generating(t)' => turn'[t].id # m) BY <2>1, <2>3 DEF NoNewTurn, EndsOfTurns
  <2> QED BY <2>4 DEF m
<1>5. ASSUME NEW s \in Sockets, Generating(s)'
      PROVE  /\ outcome'[turn'[s].id] = None
             /\ \A t \in Sockets : Generating(t)' /\ turn'[t].id = turn'[s].id => s = t
  <2>1. Generating(s) /\ turn'[s].id = turn[s].id BY <1>5 DEF NoNewTurn
  <2>2. turn[s].id \in Messages BY <2>1, TurnFacts DEF Generating
  <2>3. /\ outcome[turn[s].id] = None
        /\ \A t \in Sockets : Generating(t) /\ turn[t].id = turn[s].id => s = t
    BY <2>1 DEF Open, TurnsAreOpen
  <2> QED BY <1>5, <2>1, <2>2, <2>3 DEF NoNewTurn, EndsOfTurns
<1> QED BY <1>3, <1>4, <1>5 DEF Open, OneCreation, CreationsAreOpen, TurnsAreOpen

\* Nothing arrives at the server, or all that was under way is lost.
LEMMA NoCreationIfLost ==
  ASSUME Typing, \A s \in Sockets : up'[s] = up[s] \/ up'[s] = <<>>
  PROVE  NoNewCreation
<1> DEFINE k == [s \in Sockets |-> 0]
<1>1. k \in [Sockets -> {0, 1}] OBVIOUS
<1>2. ASSUME NEW s \in Sockets, NEW i \in 1..Len(up'[s])
      PROVE  i + k[s] \in 1..Len(up[s]) /\ up'[s][i] = up[s][i + k[s]]
  <2>1. Len(up[s]) \in Nat BY UpFacts
  <2> QED BY <1>2, <2>1, EmptyFacts
<1> QED BY <1>1, <1>2 DEF NoNewCreation, Advances

LEMMA NoCreationIfAnswered ==
  ASSUME Typing, NEW s \in Sockets, NEW type, Received(s, type), Answered(s)
  PROVE  NoNewCreation
<1> DEFINE k == [t \in Sockets |-> IF t = s THEN 1 ELSE 0]
<1>1. k \in [Sockets -> {0, 1}] OBVIOUS
<1>2. ASSUME NEW t \in Sockets, NEW i \in 1..Len(up'[t])
      PROVE  i + k[t] \in 1..Len(up[t]) /\ up'[t][i] = up[t][i + k[t]]
  <2>1. up[t] \in Seq(ClientEvents) /\ Len(up[t]) \in Nat BY UpFacts
  <2>2. CASE t = s
    <3>1. up[s] # <<>> /\ up'[s] = Tail(up[s]) BY AnsweredFacts
    <3> QED BY <1>2, <2>1, <2>2, <3>1, TailFacts
  <2>3. CASE t # s BY <1>2, <2>1, <2>3, AnsweredFacts
  <2> QED BY <2>2, <2>3
<1> QED BY <1>1, <1>2 DEF NoNewCreation, Advances

LEMMA NoCreationIfStopped ==
  ASSUME Typing, socket \in Sockets, NEW m \in Messages, Transmit(ClientEvent("response.cancel", m))
  PROVE  NoNewCreation
<1> DEFINE k == [s \in Sockets |-> 0]
           e == ClientEvent("response.cancel", m)
<1>1. k \in [Sockets -> {0, 1}] OBVIOUS
<1>2. e \in ClientEvents /\ e.type = "response.cancel" BY DEF ClientEvents, ClientEvent
<1>3. /\ link[socket] = "open" => up'[socket] = Append(up[socket], e)
      /\ link[socket] # "open" => up' = up
      /\ \A t \in Sockets : t # socket => up'[t] = up[t]
  BY <1>2, TransmitFacts
<1> HIDE DEF e
<1>4. ASSUME NEW s \in Sockets, NEW i \in 1..Len(up'[s]), up'[s][i].type = "message.create"
      PROVE  i + k[s] \in 1..Len(up[s]) /\ up'[s][i] = up[s][i + k[s]]
  <2>1. up[s] \in Seq(ClientEvents) /\ Len(up[s]) \in Nat BY UpFacts
  <2>2. CASE up'[s] = up[s] BY <1>4, <2>1, <2>2
  <2>3. CASE up'[s] = Append(up[s], e)
    <3>1. i \in 1..(Len(up[s]) + 1) /\ i # Len(up[s]) + 1 BY <1>2, <1>4, <2>1, <2>3, AppendFacts
    <3> QED BY <1>2, <2>1, <2>3, <3>1, AppendFacts
  <2> QED BY <1>3, <2>2, <2>3
<1> QED BY <1>1, <1>4 DEF NoNewCreation, Advances

\* A new message has a new number.
LEMMA SubmitKeepsOpen ==
  ASSUME Typing, Open, NumbersAreUsed, NEW readable \in BOOLEAN, SubmitMessage(readable)
  PROVE  Open'
<1> DEFINE m == messageSequence'
           e == ClientEvent("message.create", m)
<1>1. /\ m \in Messages /\ m \in Nat /\ messageSequence \in Nat /\ m > messageSequence
      /\ socket \in Sockets /\ Transmit(e) /\ UNCHANGED <<turn, outcome>>
  BY ConstantFacts DEF SubmitMessage, CanSend, Messages, Typing, ConnectingOK, PastOK, handlers
<1>2. e \in ClientEvents /\ e.id = m BY <1>1 DEF ClientEvents, ClientEvent
<1>3. /\ link[socket] = "open" => up'[socket] = Append(up[socket], e)
      /\ link[socket] # "open" => up' = up
      /\ \A s \in Sockets : s # socket => up'[s] = up[s]
  BY <1>1, <1>2, TransmitFacts
<1> HIDE DEF m, e
\* What is sent is at the end, with the new number; the rest is as it was.
<1>4. ASSUME NEW s \in Sockets, NEW i \in 1..Len(up'[s])
      PROVE  \/ i \in 1..Len(up[s]) /\ up'[s][i] = up[s][i] /\ up[s][i].id \in Messages /\ up[s][i].id # m
             \/ s = socket /\ i = Len(up[s]) + 1 /\ up'[s][i] = e
  <2>1. up[s] \in Seq(ClientEvents) /\ Len(up[s]) \in Nat BY UpFacts
  <2>2. ASSUME i \in 1..Len(up[s]) PROVE up[s][i].id \in Messages /\ up[s][i].id # m
    <3>1. up[s][i] \in Range(up[s]) /\ up[s][i].id \in Messages BY <2>2, UpFacts
    <3>2. up[s][i].id <= messageSequence BY <3>1 DEF NumbersAreUsed
    <3> QED BY <1>1, <3>1, <3>2
  <2>3. CASE up'[s] = up[s] BY <1>4, <2>2, <2>3
  <2>4. CASE s = socket /\ up'[s] = Append(up[s], e)
    <3>1. i \in 1..(Len(up[s]) + 1) BY <1>2, <1>4, <2>1, <2>4, AppendFacts
    <3>2. CASE i = Len(up[s]) + 1 BY <1>2, <2>1, <2>4, <3>2, AppendFacts
    <3>3. CASE i # Len(up[s]) + 1
      <4>1. i \in 1..Len(up[s]) BY <2>1, <3>1, <3>3
      <4>2. up'[s][i] = up[s][i] BY <1>2, <2>1, <2>4, <4>1, AppendFacts
      <4> QED BY <2>2, <4>1, <4>2
    <3> QED BY <3>2, <3>3
  <2> QED BY <1>3, <2>3, <2>4
<1>5. OneCreation'
  <2> SUFFICES ASSUME NEW s \in Sockets, NEW t \in Sockets, NEW i \in 1..Len(up'[s]), NEW j \in 1..Len(up'[t]),
                      Creates(s, i)', Creates(t, j)', up'[s][i].id = up'[t][j].id
               PROVE  s = t /\ i = j
    BY DEF OneCreation
  <2>1. CASE i \in 1..Len(up[s]) /\ up'[s][i] = up[s][i] /\ up[s][i].id # m
    <3>1. j \in 1..Len(up[t]) /\ up'[t][j] = up[t][j] BY <1>2, <1>4, <2>1
    <3> QED BY <2>1, <3>1 DEF Open, OneCreation, Creates
  <2>2. CASE s = socket /\ i = Len(up[s]) + 1 /\ up'[s][i] = e
    <3>1. t = socket /\ j = Len(up[t]) + 1 BY <1>2, <1>4, <2>2
    <3> QED BY <2>2, <3>1
  <2> QED BY <1>4, <2>1, <2>2
<1>6. CreationsAreOpen'
  <2>1. outcome[m] = None BY <1>1 DEF NumbersAreUsed
  <2>2. ASSUME NEW t \in Sockets, Generating(t) PROVE turn[t].id # m
    <3>1. turn[t].id <= messageSequence /\ turn[t].id \in Messages
      BY <2>2, TurnFacts DEF NumbersAreUsed, Generating
    <3> QED BY <1>1, <3>1
  <2>3. \A t \in Sockets : Generating(t)' <=> Generating(t) BY <1>1 DEF Generating
  <2> SUFFICES ASSUME NEW s \in Sockets, NEW t \in Sockets, NEW i \in 1..Len(up'[s]), Creates(s, i)'
               PROVE  outcome'[up'[s][i].id] = None /\ (Generating(t)' => turn'[t].id # up'[s][i].id)
    BY DEF CreationsAreOpen
  <2>4. CASE i \in 1..Len(up[s]) /\ up'[s][i] = up[s][i]
    BY <1>1, <2>3, <2>4 DEF Open, CreationsAreOpen, Creates
  <2>5. CASE up'[s][i] = e BY <1>1, <1>2, <2>1, <2>2, <2>3, <2>5
  <2> QED BY <1>4, <2>4, <2>5
<1>7. TurnsAreOpen' BY <1>1 DEF Open, TurnsAreOpen, Generating
<1> QED BY <1>5, <1>6, <1>7 DEF Open

\* The message that a turn begins with is no longer under way.
LEMMA StartKeepsOpen ==
  ASSUME Typing, Typing', Open, NEW s \in Sockets, StartTurn(s)
  PROVE  Open'
<1> DEFINE m == Head(up[s]).id
<1>1. /\ Received(s, "message.create") /\ Answered(s) /\ outcome' = outcome
      /\ turn' = [turn EXCEPT ![s] = [id |-> m, stage |-> "begun", node |-> None]]
  BY DEF StartTurn, Readable
<1>2. /\ m \in Messages /\ up[s] # <<>> /\ up[s] \in Seq(ClientEvents) /\ up'[s] = Tail(up[s])
      /\ Head(up[s]).type = "message.create"
      /\ \A t \in Sockets : t # s => up'[t] = up[t]
  BY <1>1, AnsweredFacts, UpFacts
<1>3. 1 \in 1..Len(up[s]) /\ Head(up[s]) = up[s][1] /\ Creates(s, 1) BY <1>2, TailFacts DEF Creates
<1>4. /\ \A t \in Sockets : t # s => (Generating(t)' <=> Generating(t)) /\ turn'[t] = turn[t]
      /\ turn'[s].id = m
  BY <1>1 DEF Generating, Typing, HandlersOK
\* Every creation left was under way before, at another place.
<1>5. ASSUME NEW t \in Sockets, NEW i \in 1..Len(up'[t])
      PROVE  \E j \in 1..Len(up[t]) :
               /\ up'[t][i] = up[t][j] /\ (t = s => j = i + 1 /\ i \in Nat) /\ (t # s => j = i)
               /\ t # s \/ j # 1
  <2>1. CASE t = s
    <3>1. /\ Len(up[s]) = Len(up'[s]) + 1 /\ Len(up'[s]) \in Nat
          /\ \A j \in 1..Len(up'[s]) : up'[s][j] = up[s][j + 1]
      BY <1>2, TailFacts
    <3>2. i + 1 \in 1..Len(up[s]) /\ up'[s][i] = up[s][i + 1] /\ i \in Nat /\ i + 1 # 1
      BY <1>5, <2>1, <3>1
    <3> QED BY <2>1, <3>2
  <2>2. CASE t # s BY <1>2, <1>5, <2>2
  <2> QED BY <2>1, <2>2
<1>6. ASSUME NEW t \in Sockets, NEW i \in 1..Len(up'[t]), Creates(t, i)' PROVE up'[t][i].id # m
  <2>1. PICK j \in 1..Len(up[t]) : up'[t][i] = up[t][j] /\ (t # s \/ j # 1) BY <1>5
  <2>2. Creates(t, j) BY <1>6, <2>1 DEF Creates
  <2> QED BY <1>3, <2>1, <2>2 DEF Open, OneCreation
<1> HIDE DEF m
<1>7. OneCreation'
  <2> SUFFICES ASSUME NEW t \in Sockets, NEW u \in Sockets, NEW i \in 1..Len(up'[t]), NEW j \in 1..Len(up'[u]),
                      Creates(t, i)', Creates(u, j)', up'[t][i].id = up'[u][j].id
               PROVE  t = u /\ i = j
    BY DEF OneCreation
  <2>1. PICK a \in 1..Len(up[t]) :
          up'[t][i] = up[t][a] /\ (t = s => a = i + 1 /\ i \in Nat) /\ (t # s => a = i)
    BY <1>5
  <2>2. PICK b \in 1..Len(up[u]) :
          up'[u][j] = up[u][b] /\ (u = s => b = j + 1 /\ j \in Nat) /\ (u # s => b = j)
    BY <1>5
  <2>3. t = u /\ a = b BY <2>1, <2>2 DEF Open, OneCreation, Creates
  <2> QED BY <2>1, <2>2, <2>3
<1>8. CreationsAreOpen'
  <2> SUFFICES ASSUME NEW t \in Sockets, NEW u \in Sockets, NEW i \in 1..Len(up'[t]), Creates(t, i)'
               PROVE  outcome'[up'[t][i].id] = None /\ (Generating(u)' => turn'[u].id # up'[t][i].id)
    BY DEF CreationsAreOpen
  <2>1. PICK j \in 1..Len(up[t]) : up'[t][i] = up[t][j] BY <1>5
  <2>2. Creates(t, j) BY <2>1 DEF Creates
  <2>3. /\ outcome[up[t][j].id] = None
        /\ \A x \in Sockets : Generating(x) => turn[x].id # up[t][j].id
    BY <2>2 DEF Open, CreationsAreOpen
  <2>4. CASE u = s BY <1>1, <1>4, <1>6, <2>1, <2>3, <2>4
  <2>5. CASE u # s BY <1>1, <1>4, <2>1, <2>3, <2>5
  <2> QED BY <2>4, <2>5
<1>9. TurnsAreOpen'
  <2>1. outcome[m] = None /\ \A t \in Sockets : Generating(t) => turn[t].id # m
    BY <1>3 DEF Open, CreationsAreOpen, m
  <2> SUFFICES ASSUME NEW t \in Sockets, Generating(t)'
               PROVE  /\ outcome'[turn'[t].id] = None
                      /\ \A u \in Sockets : Generating(u)' /\ turn'[u].id = turn'[t].id => t = u
    BY DEF TurnsAreOpen
  <2>2. CASE t = s BY <1>1, <1>4, <2>1, <2>2
  <2>3. CASE t # s
    <3>1. Generating(t) /\ turn'[t] = turn[t] BY <1>4, <2>3
    <3>2. /\ outcome[turn[t].id] = None /\ turn[t].id # m
          /\ \A u \in Sockets : Generating(u) /\ turn[u].id = turn[t].id => t = u
      BY <2>1, <3>1 DEF Open, TurnsAreOpen
    <3> QED BY <1>1, <1>4, <3>1, <3>2
  <2> QED BY <2>2, <2>3
<1> QED BY <1>7, <1>8, <1>9 DEF Open

\* Any other step of the console, the network and the handlers.
LEMMA ConsoleKeepsOpen ==
  ASSUME Typing, Typing', Open
  PROVE  /\ SubmitStop \/ NewSession \/ ClearDisplay \/ ReconnectTimerFires => Open'
         /\ \A s \in Sockets : SocketCloses(s) \/ MessageArrives(s) => Open'
<1>1. ASSUME UNCHANGED <<turn, outcome>>, NoNewCreation PROVE Open'
  <2>1. NoNewTurn /\ EndsOfTurns BY <1>1 DEF NoNewTurn, EndsOfTurns, Generating
  <2> QED BY <1>1, <2>1, OpenStays
<1>2. ASSUME UNCHANGED <<up, turn, outcome>> PROVE Open'
  <2>1. NoNewCreation BY <1>2, NoCreationIfLost
  <2> QED BY <1>1, <1>2, <2>1
<1>3. CASE SubmitStop
  <2>1. socket \in Sockets /\ activeResponseId \in Messages
    BY <1>3 DEF SubmitStop, CanSend, Typing, ConnectingOK, RequestOK
  <2>2. NoNewCreation BY <1>3, <2>1, NoCreationIfStopped DEF SubmitStop
  <2> QED BY <1>1, <1>3, <2>2 DEF SubmitStop, handlers, past
<1>4. CASE NewSession BY <1>2, <1>4 DEF NewSession, handlers, past
<1>5. CASE ClearDisplay BY <1>2, <1>5 DEF ClearDisplay, wires, handlers, past
<1>6. CASE ReconnectTimerFires BY <1>2, <1>6 DEF ReconnectTimerFires, handlers, past
<1>7. ASSUME NEW s \in Sockets, SocketCloses(s) \/ MessageArrives(s) PROVE Open'
  BY <1>2, <1>7 DEF SocketCloses, MessageArrives, handlers, past
<1> QED BY <1>3, <1>4, <1>5, <1>6, <1>7

LEMMA ServerKeepsOpen ==
  ASSUME Typing, Typing', Open, NEW s \in Sockets,
         AcceptSocket(s) \/ RefuseSocket(s) \/ LinkBreaks(s) \/ Receive(s) \/ TurnStep(s)
  PROVE  Open'
<1>1. turn \in [Sockets -> Turns \union {None}] /\ outcome \in [Messages -> NodeStates]
  BY DEF Typing, HandlersOK, PastOK
\* The turn goes on, or its session is free; or it ends and has an outcome.
<1>2. ASSUME UNCHANGED outcome, \A t \in Sockets : t # s => turn'[t] = turn[t],
             Generating(s)' => Generating(s) /\ turn'[s].id = turn[s].id
      PROVE  NoNewTurn /\ EndsOfTurns
  BY <1>2 DEF NoNewTurn, EndsOfTurns, Generating
<1>3. ASSUME NEW result, outcome' = [outcome EXCEPT ![turn[s].id] = result], Generating(s), ~ Generating(s)',
             \A t \in Sockets : t # s => turn'[t] = turn[t]
      PROVE  NoNewTurn /\ EndsOfTurns
  <2>1. \A t \in Sockets : t # s => (Generating(t)' <=> Generating(t)) BY <1>3 DEF Generating
  <2>2. EndsOfTurns BY <1>1, <1>3 DEF EndsOfTurns
  <2> QED BY <1>3, <2>1, <2>2 DEF NoNewTurn
<1>4. CASE AcceptSocket(s) \/ RefuseSocket(s) \/ LinkBreaks(s) \/ HandlerEnds(s)
  <2>1. \A t \in Sockets : up'[t] = up[t] \/ up'[t] = <<>>
    BY <1>4 DEF AcceptSocket, RefuseSocket, LinkBreaks, HandlerEnds, wires, Typing, WiresOK
  <2>2. NoNewCreation BY <2>1, NoCreationIfLost
  <2>3. UNCHANGED outcome /\ (UNCHANGED turn \/ turn' = [turn EXCEPT ![s] = None])
    BY <1>4 DEF AcceptSocket, RefuseSocket, LinkBreaks, HandlerEnds, handlers, past
  <2>4. NoNewTurn /\ EndsOfTurns BY <1>1, <1>2, <2>3 DEF Generating
  <2> QED BY <2>2, <2>4, OpenStays
<1>5. CASE Receive(s) /\ ~ HandlerEnds(s)
  <2>1. PICK type : Received(s, type) /\ Answered(s)
    BY <1>5 DEF Receive, RejectUnreadable, RejectBusy, StartTurn, CancelTurn, CancelNotFound, Readable
  <2>2. NoNewCreation BY <2>1, NoCreationIfAnswered
  <2>3. CASE RejectUnreadable(s) \/ RejectBusy(s) \/ CancelNotFound(s)
    <3>1. UNCHANGED <<turn, outcome>> BY <2>3 DEF RejectUnreadable, RejectBusy, CancelNotFound
    <3>2. NoNewTurn /\ EndsOfTurns BY <1>2, <3>1 DEF Generating
    <3> QED BY <2>2, <3>2, OpenStays
  <2>4. CASE StartTurn(s) BY <2>4, StartKeepsOpen
  <2>5. CASE CancelTurn(s)
    <3>1. /\ Generating(s) /\ turn' = [turn EXCEPT ![s] = None]
          /\ outcome' = [outcome EXCEPT ![turn[s].id] = "cancelled"]
      BY <2>5 DEF CancelTurn, Generates, Generating
    <3>2. ~ Generating(s)' /\ \A t \in Sockets : t # s => turn'[t] = turn[t] BY <1>1, <3>1 DEF Generating
    <3>3. NoNewTurn /\ EndsOfTurns BY <1>3, <3>1, <3>2
    <3> QED BY <2>2, <3>3, OpenStays
  <2> QED BY <1>5, <2>3, <2>4, <2>5 DEF Receive
<1>6. CASE TurnStep(s)
  <2>1. ServerOnly
    BY <1>6 DEF TurnStep, ResponseStarts, NodeStarts, NodeEnds, ResponseCompletes, ResponseFails, FreeSession
  <2>2. NoNewCreation BY <2>1, NoCreationIfLost DEF ServerOnly
  <2>3. CASE \/ ResponseStarts(s) \/ NodeStarts(s) \/ FreeSession(s)
             \/ \E result \in {"completed", "failed"} : NodeEnds(s, result)
    <3>1. UNCHANGED outcome /\ (Generating(s) \/ ~ Generating(s)')
      BY <1>1, <2>3 DEF ResponseStarts, NodeStarts, NodeEnds, FreeSession, At, Generating
    <3>2. \A t \in Sockets : t # s => turn'[t] = turn[t]
      BY <1>1, <2>3 DEF ResponseStarts, NodeStarts, NodeEnds, FreeSession
    <3>3. Generating(s)' => turn'[s].id = turn[s].id
      BY <1>1, <2>3 DEF ResponseStarts, NodeStarts, NodeEnds, FreeSession, At, Generating, Turns
    <3>4. NoNewTurn /\ EndsOfTurns BY <1>2, <3>1, <3>2, <3>3
    <3> QED BY <2>2, <3>4, OpenStays
  <2>4. CASE ResponseCompletes(s) \/ ResponseFails(s)
    <3>1. PICK result : Generating(s) /\ EndTurn(s, result)
      BY <2>4 DEF ResponseCompletes, ResponseFails, At, Generating
    <3>2. turn[s] \in Turns /\ turn[s] # None BY <3>1, TurnFacts DEF Generating
    <3>3. /\ ~ Generating(s)' /\ \A t \in Sockets : t # s => turn'[t] = turn[t]
          /\ outcome' = [outcome EXCEPT ![turn[s].id] = result]
      BY <1>1, <3>1, <3>2 DEF EndTurn, Turns, Generating
    <3>4. NoNewTurn /\ EndsOfTurns BY <1>3, <3>1, <3>3
    <3> QED BY <2>2, <3>4, OpenStays
  <2> QED BY <1>6, <2>3, <2>4 DEF TurnStep
<1> QED BY <1>4, <1>5, <1>6

-----------------------------------------------------------------------------
(* Numbers, and how responses ended.                                       *)

\* A step that mentions no number but those in use.
LEMMA NumbersStay ==
  ASSUME Typing, NumbersAreUsed, messageSequence' \in Nat, messageSequence' >= messageSequence,
         \A m \in Messages : outcome'[m] # None => outcome[m] # None \/ m <= messageSequence',
         \A s \in Sockets : \A e \in Range(up'[s]) : e \in Range(up[s]) \/ e.id <= messageSequence',
         \A s \in Sockets : \A e \in Range(down'[s]) :
           e \in Range(down[s]) \/ e.response = None \/ e.response <= messageSequence',
         \A s \in Sockets : turn'[s] # None =>
           (turn[s] # None /\ turn'[s].id = turn[s].id) \/ turn'[s].id <= messageSequence',
         activeResponseId' # None => activeResponseId' = activeResponseId \/ activeResponseId' <= messageSequence'
  PROVE  NumbersAreUsed'
<1>1. messageSequence \in Nat /\ \A m \in Messages : m <= messageSequence => m <= messageSequence'
  <2>1. messageSequence \in Nat BY ConstantFacts DEF Typing, PastOK
  <2>2. ASSUME NEW m \in Messages, m <= messageSequence PROVE m <= messageSequence'
    <3>1. m \in Nat BY ConstantFacts
    <3> QED BY <2>1, <2>2, <3>1
  <2> QED BY <2>1, <2>2
<1>2. \A m \in Messages : outcome'[m] # None => m <= messageSequence' BY <1>1 DEF NumbersAreUsed
<1>3. ASSUME NEW s \in Sockets, NEW e \in Range(up'[s]) PROVE e.id <= messageSequence'
  BY <1>1, <1>3, UpFacts DEF NumbersAreUsed
<1>4. ASSUME NEW s \in Sockets, NEW e \in Range(down'[s]), e.response # None PROVE e.response <= messageSequence'
  <2>1. CASE e \in Range(down[s])
    <3>1. down[s] \in Seq(ServerEvents) BY DEF Typing, WiresOK
    <3>2. e \in ServerEvents BY <2>1, <3>1, RangeIsElements
    <3>3. e.response \in Messages BY <1>4, <3>2, EventFacts
    <3> QED BY <1>1, <1>4, <2>1, <3>3 DEF NumbersAreUsed
  <2> QED BY <1>4, <2>1
<1>5. ASSUME NEW s \in Sockets, turn'[s] # None PROVE turn'[s].id <= messageSequence'
  <2>1. CASE turn[s] # None /\ turn'[s].id = turn[s].id
    <3>1. turn[s].id \in Messages BY <2>1, TurnFacts
    <3> QED BY <1>1, <2>1, <3>1 DEF NumbersAreUsed
  <2> QED BY <1>5, <2>1
<1>6. activeResponseId' # None => activeResponseId' <= messageSequence'
  BY <1>1 DEF NumbersAreUsed, Typing, RequestOK
<1> QED BY <1>2, <1>3, <1>4, <1>5, <1>6 DEF NumbersAreUsed

\* A step that ends no response again, and says no more than how it ended.
LEMMA EndsStay ==
  ASSUME Typing, EndsAreTrue, \A m \in Messages : outcome[m] # None => outcome'[m] = outcome[m],
         \A s \in Sockets : \A e \in Range(down'[s]) : e \in Range(down[s]) \/ Agrees(e, outcome')
  PROVE  EndsAreTrue'
<1> SUFFICES ASSUME NEW s \in Sockets, NEW e \in Range(down'[s]), e \in Range(down[s]) PROVE Agrees(e, outcome')
  BY DEF EndsAreTrue
<1>1. down[s] \in Seq(ServerEvents) BY DEF Typing, WiresOK
<1>2. e \in ServerEvents BY <1>1, RangeIsElements
<1>3. /\ e.response \in Messages \union {None}
      /\ e.type \in NodeEvents \union TerminalEvents => e.response # None
  BY <1>2, EventFacts DEF WellFormed
<1>4. Agrees(e, outcome) BY DEF EndsAreTrue
<1> QED BY <1>3, <1>4, ConstantFacts DEF Agrees, TerminalEvents

\* The console's operations, and what it is told.
LEMMA ConsoleKeepsNumbers ==
  ASSUME Typing, NumbersAreUsed, EndsAreTrue
  PROVE  /\ \A readable \in BOOLEAN : SubmitMessage(readable) => NumbersAreUsed' /\ EndsAreTrue'
         /\ SubmitStop \/ NewSession \/ ClearDisplay \/ ReconnectTimerFires => NumbersAreUsed' /\ EndsAreTrue'
         /\ \A s \in Sockets : SocketCloses(s) \/ MessageArrives(s) => NumbersAreUsed' /\ EndsAreTrue'
<1> USE DEF handlers, connecting, request, past, wires
<1>1. messageSequence \in Nat BY DEF Typing, PastOK
<1>2. ASSUME UNCHANGED <<messageSequence, outcome, turn>>,
             \A s \in Sockets : \A e \in Range(up'[s]) : e \in Range(up[s]) \/ e.id <= messageSequence,
             \A s \in Sockets : \A e \in Range(down'[s]) : e \in Range(down[s]),
             activeResponseId' \in {None, activeResponseId} \/ activeResponseId' <= messageSequence
      PROVE  NumbersAreUsed' /\ EndsAreTrue'
  <2>1. EndsAreTrue' BY <1>2, EndsStay
  <2>2. NumbersAreUsed' BY <1>1, <1>2, NumbersStay
  <2> QED BY <2>1, <2>2
<1>3. ASSUME NEW readable \in BOOLEAN, SubmitMessage(readable) PROVE NumbersAreUsed' /\ EndsAreTrue'
  <2> DEFINE m == messageSequence'
             e == ClientEvent("message.create", m)
  <2>1. /\ m \in Messages /\ m \in Nat /\ m >= messageSequence
        /\ socket \in Sockets /\ Transmit(e) /\ UNCHANGED <<turn, outcome, down, activeResponseId>>
    BY <1>1, <1>3, ConstantFacts DEF SubmitMessage, CanSend, Messages, Typing, ConnectingOK
  <2>2. e \in ClientEvents /\ e.id = m BY <2>1 DEF ClientEvents, ClientEvent
  <2>3. \A s \in Sockets : \A x \in Range(up'[s]) : x \in Range(up[s]) \/ x = e BY <2>1, <2>2, TransmitFacts
  <2>4. m <= m BY <2>1
  <2> HIDE DEF e
  <2>5. NumbersAreUsed' BY <2>1, <2>2, <2>3, <2>4, NumbersStay
  <2>6. EndsAreTrue' BY <2>1, EndsStay
  <2> QED BY <2>5, <2>6
<1>4. CASE SubmitStop
  <2> DEFINE e == ClientEvent("response.cancel", activeResponseId)
  <2>1. socket \in Sockets /\ activeResponseId \in Messages /\ activeResponseId # None
    BY <1>4, ConstantFacts DEF SubmitStop, CanSend, Typing, ConnectingOK, RequestOK
  <2>2. e \in ClientEvents /\ e.id = activeResponseId BY <2>1 DEF ClientEvents, ClientEvent
  <2>3. \A s \in Sockets : \A x \in Range(up'[s]) : x \in Range(up[s]) \/ x = e
    BY <1>4, <2>1, <2>2, TransmitFacts DEF SubmitStop
  <2>4. activeResponseId <= messageSequence BY <2>1 DEF NumbersAreUsed
  <2> HIDE DEF e
  <2> QED BY <1>2, <1>4, <2>2, <2>3, <2>4 DEF SubmitStop
<1>5. CASE NewSession
  <2>1. \A s \in Sockets : \A e \in Range(down'[s]) : e \in Range(down[s])
    <3>1. \A s \in Sockets : down'[s] = down[s] \/ down'[s] = <<>>
      BY <1>5 DEF NewSession, Typing, WiresOK
    <3> QED BY <3>1, EmptyFacts
  <2> QED BY <1>2, <1>5, <2>1 DEF NewSession, ResetRequestState
<1>6. CASE ClearDisplay BY <1>2, <1>6 DEF ClearDisplay
<1>7. CASE ReconnectTimerFires BY <1>2, <1>7 DEF ReconnectTimerFires
<1>8. ASSUME NEW s \in Sockets, SocketCloses(s) PROVE NumbersAreUsed' /\ EndsAreTrue'
  BY <1>2, <1>8 DEF SocketCloses, HandleClose, ResetRequestState
<1>9. ASSUME NEW s \in Sockets, MessageArrives(s) PROVE NumbersAreUsed' /\ EndsAreTrue'
  <2>1. \A t \in Sockets : \A e \in Range(down'[t]) : e \in Range(down[t]) BY <1>9, ArrivalFacts
  <2>2. UNCHANGED <<messageSequence, outcome, turn, up>> BY <1>9 DEF MessageArrives
  <2>3. activeResponseId' \in {None, activeResponseId} \/ activeResponseId' <= messageSequence
    <3>1. CASE HandleStarted(Head(down[s]))
      <4>1. Head(down[s]).response # None => Head(down[s]).response <= messageSequence
        BY <1>9, ArrivalFacts DEF NumbersAreUsed
      <4> QED BY <3>1, <4>1 DEF HandleStarted
    <3>2. CASE ~ HandleStarted(Head(down[s]))
      BY <1>9, <3>2 DEF MessageArrives, HandleEvent, HandleReady, HandleNode, HandleTerminal, HandleError,
         ResetRequestState
    <3> QED BY <3>1, <3>2
  <2> QED BY <1>2, <2>1, <2>2, <2>3
<1> QED BY <1>3, <1>4, <1>5, <1>6, <1>7, <1>8, <1>9

LEMMA ServerKeepsNumbers ==
  ASSUME Typing, TurnsAreOpen, NumbersAreUsed, EndsAreTrue, NEW s \in Sockets,
         AcceptSocket(s) \/ RefuseSocket(s) \/ LinkBreaks(s) \/ Receive(s) \/ TurnStep(s)
  PROVE  NumbersAreUsed' /\ EndsAreTrue'
<1> USE DEF handlers, connecting, request, past, wires
<1>1. /\ messageSequence \in Nat /\ turn \in [Sockets -> Turns \union {None}]
      /\ outcome \in [Messages -> NodeStates]
      /\ up \in [Sockets -> Seq(ClientEvents)] /\ down \in [Sockets -> Seq(ServerEvents)]
  BY DEF Typing, WiresOK, HandlersOK, PastOK
\* Nothing, or one event, is sent to s: of the turn, or of the event that is answered.
<1>2. ASSUME NEW e, \A t \in Sockets : \A x \in Range(down'[t]) : x \in Range(down[t]) \/ x = e,
             e.response # None => e.response <= messageSequence, Agrees(e, outcome'),
             \A t \in Sockets : Range(up'[t]) \subseteq Range(up[t]),
             \A t \in Sockets : turn'[t] # None =>
               (turn[t] # None /\ turn'[t].id = turn[t].id) \/ turn'[t].id <= messageSequence,
             UNCHANGED <<activeResponseId, messageSequence>>,
             \/ UNCHANGED outcome
             \/ Generating(s) /\ \E result : outcome' = [outcome EXCEPT ![turn[s].id] = result]
      PROVE  NumbersAreUsed' /\ EndsAreTrue'
  <2>1. ASSUME Generating(s), NEW result, outcome' = [outcome EXCEPT ![turn[s].id] = result]
        PROVE  /\ \A m \in Messages : outcome[m] # None => outcome'[m] = outcome[m]
               /\ \A m \in Messages : outcome'[m] # None => outcome[m] # None \/ m <= messageSequence
    BY <1>1, <2>1 DEF TurnsAreOpen, Generating, NumbersAreUsed
  <2>2. /\ \A m \in Messages : outcome[m] # None => outcome'[m] = outcome[m]
        /\ \A m \in Messages : outcome'[m] # None => outcome[m] # None \/ m <= messageSequence
    BY <1>2, <2>1
  <2>3. EndsAreTrue' BY <1>2, <2>2, EndsStay
  <2>4. NumbersAreUsed' BY <1>1, <1>2, <2>2, NumbersStay
  <2> QED BY <2>3, <2>4
<1>3. /\ \A m, r : Agrees(ServerEvent("error", m, None), outcome') /\ Agrees(ServerEvent("error", None, r), outcome')
      /\ \A t \in NodeEvents \union {"response.started", "conversation.ready"} :
           \A m, r : Agrees(ServerEvent(t, m, r), outcome')
  BY DEF Agrees, ServerEvent, NodeEvents
<1>4. \A t, m, r : ServerEvent(t, m, r).response = r BY DEF ServerEvent
<1>5. CASE AcceptSocket(s)
  <2> DEFINE e == ServerEvent("conversation.ready", None, None)
  <2>1. Range(<<e>>) = {e} BY DEF Range
  <2>2. \A t \in Sockets : down'[t] = down[t] \/ down'[t] = <<e>> BY <1>1, <1>5 DEF AcceptSocket
  <2>3. Agrees(e, outcome') /\ e.response = None BY <1>3, <1>4
  <2>4. UNCHANGED <<up, turn, activeResponseId, messageSequence, outcome>> BY <1>5 DEF AcceptSocket
  <2> HIDE DEF e
  <2> QED BY <1>2, <2>1, <2>2, <2>3, <2>4
<1>6. CASE RefuseSocket(s) \/ LinkBreaks(s) \/ HandlerEnds(s)
  <2> DEFINE e == ServerEvent("conversation.ready", None, None)
  <2>1. \A t \in Sockets : (down'[t] = down[t] \/ down'[t] = <<>>) /\ (up'[t] = up[t] \/ up'[t] = <<>>)
    BY <1>1, <1>6 DEF RefuseSocket, LinkBreaks, HandlerEnds
  <2>2. Agrees(e, outcome') /\ e.response = None BY <1>3, <1>4
  <2>3. /\ UNCHANGED <<activeResponseId, messageSequence, outcome>>
        /\ \A t \in Sockets : turn'[t] = turn[t] \/ turn'[t] = None
    BY <1>1, <1>6 DEF RefuseSocket, LinkBreaks, HandlerEnds
  <2> HIDE DEF e
  <2> QED BY <1>2, <2>1, <2>2, <2>3, EmptyFacts
<1>7. CASE Receive(s) /\ ~ HandlerEnds(s)
  <2>1. PICK type : Received(s, type) /\ Answered(s)
    BY <1>7 DEF Receive, RejectUnreadable, RejectBusy, StartTurn, CancelTurn, CancelNotFound, Readable
  <2>2. /\ Head(up[s]).id \in Messages /\ Head(up[s]).id <= messageSequence
        /\ \A t \in Sockets : Range(up'[t]) \subseteq Range(up[t])
        /\ UNCHANGED <<activeResponseId, messageSequence>>
    BY <2>1, AnsweredFacts DEF Answered, NumbersAreUsed
  <2>3. ASSUME UNCHANGED <<turn, outcome>>, NEW e \in ServerEvents, Send(s, e) \/ UNCHANGED down,
               e.response # None => e.response <= messageSequence, Agrees(e, outcome')
        PROVE  NumbersAreUsed' /\ EndsAreTrue'
    <3>1. \A t \in Sockets : \A x \in Range(down'[t]) : x \in Range(down[t]) \/ x = e BY <2>3, SendFacts
    <3> QED BY <1>2, <2>2, <2>3, <3>1
  <2>4. CASE RejectUnreadable(s)
    <3> DEFINE e == ServerEvent("error", None, None)
    <3>1. e \in ServerEvents /\ e.response = None /\ Agrees(e, outcome') BY <1>3, <1>4, <2>2, ServerEventFacts
    <3> QED BY <2>3, <2>4, <3>1 DEF RejectUnreadable
  <2>5. CASE RejectBusy(s)
    <3> DEFINE e == ServerEvent("error", Head(up[s]).id, None)
    <3>1. e \in ServerEvents /\ e.response = None /\ Agrees(e, outcome') BY <1>3, <1>4, <2>2, ServerEventFacts
    <3> QED BY <2>3, <2>5, <3>1 DEF RejectBusy
  <2>6. CASE CancelNotFound(s)
    <3> DEFINE e == ServerEvent("error", None, Head(up[s]).id)
    <3>1. e \in ServerEvents /\ e.response <= messageSequence /\ Agrees(e, outcome')
      BY <1>3, <1>4, <2>2, ServerEventFacts
    <3> QED BY <2>3, <2>6, <3>1 DEF CancelNotFound
  <2>7. CASE StartTurn(s)
    <3> DEFINE e == ServerEvent("error", None, None)
    <3>1. e.response = None /\ Agrees(e, outcome') BY <1>3, <1>4
    <3>2. UNCHANGED <<down, outcome>> /\ \A t \in Sockets : turn'[t] = turn[t] \/ turn'[t].id = Head(up[s]).id
      BY <1>1, <2>7 DEF StartTurn
    <3> HIDE DEF e
    <3> QED BY <1>2, <2>2, <3>1, <3>2
  <2>8. CASE CancelTurn(s)
    <3> DEFINE e == ServerEvent("response.cancelled", None, turn[s].id)
    <3>1. /\ Generating(s) /\ turn[s] # None
          /\ turn' = [turn EXCEPT ![s] = None] /\ outcome' = [outcome EXCEPT ![turn[s].id] = "cancelled"]
      BY <2>8 DEF CancelTurn, Generates, Generating
    <3>2. turn[s].id \in Messages /\ turn[s].id <= messageSequence BY <3>1, TurnFacts DEF NumbersAreUsed
    <3>3. e \in ServerEvents BY <3>2, ServerEventFacts DEF TerminalEvents
    <3>4. \A t \in Sockets : \A x \in Range(down'[t]) : x \in Range(down[t]) \/ x = e
      BY <2>8, <3>3, SendFacts DEF CancelTurn
    <3>5. e.response <= messageSequence BY <1>4, <3>2
    <3>6. Agrees(e, outcome') BY <1>1, <3>1, <3>2 DEF Agrees, ServerEvent
    <3>7. \A t \in Sockets : turn'[t] = turn[t] \/ turn'[t] = None BY <1>1, <3>1
    <3> HIDE DEF e
    <3> QED BY <1>2, <2>2, <3>1, <3>4, <3>5, <3>6, <3>7
  <2> QED BY <1>7, <2>4, <2>5, <2>6, <2>7, <2>8 DEF Receive
<1>8. CASE TurnStep(s)
  <2>1. ServerOnly /\ turn[s] # None
    BY <1>8 DEF TurnStep, ResponseStarts, NodeStarts, NodeEnds, ResponseCompletes, ResponseFails, FreeSession, At
  <2>2. turn[s] \in Turns /\ turn[s].id \in Messages /\ turn[s].id <= messageSequence
    BY <2>1, TurnFacts DEF NumbersAreUsed
  <2>3. /\ UNCHANGED <<up, activeResponseId, messageSequence>>
        /\ \A t \in Sockets : turn'[t] # None => turn[t] # None /\ turn'[t].id = turn[t].id
    <3>1. \A t \in Sockets : t # s => turn'[t] = turn[t]
      BY <1>1, <1>8 DEF TurnStep, ResponseStarts, NodeStarts, NodeEnds, ResponseCompletes, ResponseFails,
         FreeSession, EndTurn
    <3>2. turn'[s] # None => turn'[s].id = turn[s].id
      <4>1. CASE ResponseStarts(s) \/ NodeStarts(s) \/ \E result \in {"completed", "failed"} : NodeEnds(s, result)
        BY <1>1, <2>2, <4>1 DEF ResponseStarts, NodeStarts, NodeEnds, Turns
      <4>2. CASE ResponseCompletes(s) \/ ResponseFails(s)
        <5>1. PICK result : EndTurn(s, result) BY <4>2 DEF ResponseCompletes, ResponseFails
        <5>2. turn'[s] = [turn[s] EXCEPT !.stage = "ended", !.node = None] BY <1>1, <5>1 DEF EndTurn
        <5> QED BY <2>2, <5>2 DEF Turns
      <4>3. CASE FreeSession(s) BY <1>1, <4>3 DEF FreeSession
      <4> QED BY <1>8, <4>1, <4>2, <4>3 DEF TurnStep
    <3> QED BY <2>1, <3>1, <3>2 DEF ServerOnly
  <2>4. ASSUME NEW e \in ServerEvents, e.response = turn[s].id, Send(s, e) \/ UNCHANGED down, Agrees(e, outcome'),
               \/ UNCHANGED outcome
               \/ Generating(s) /\ \E result : outcome' = [outcome EXCEPT ![turn[s].id] = result]
        PROVE  NumbersAreUsed' /\ EndsAreTrue'
    <3>1. \A t \in Sockets : \A x \in Range(down'[t]) : x \in Range(down[t]) \/ x = e BY <2>4, SendFacts
    <3> QED BY <1>2, <2>2, <2>3, <2>4, <3>1
  <2>5. CASE ResponseStarts(s)
    <3> DEFINE e == ServerEvent("response.started", turn[s].id, turn[s].id)
    <3>1. e \in ServerEvents /\ e.response = turn[s].id /\ Agrees(e, outcome') BY <1>3, <1>4, <2>2, ServerEventFacts
    <3> QED BY <2>4, <2>5, <3>1 DEF ResponseStarts
  <2>6. ASSUME NEW type \in NodeEvents, Send(s, ServerEvent(type, None, turn[s].id)) \/ UNCHANGED down,
               UNCHANGED outcome
        PROVE  NumbersAreUsed' /\ EndsAreTrue'
    <3> DEFINE e == ServerEvent(type, None, turn[s].id)
    <3>1. e \in ServerEvents /\ e.response = turn[s].id /\ Agrees(e, outcome') BY <1>3, <1>4, <2>2, ServerEventFacts
    <3> QED BY <2>4, <2>6, <3>1
  <2>7. CASE \/ NodeStarts(s) \/ FreeSession(s) \/ \E result \in {"completed", "failed"} : NodeEnds(s, result)
    BY <2>6, <2>7 DEF NodeStarts, NodeEnds, FreeSession, NodeEvents
  <2>8. CASE ResponseCompletes(s)
    <3> DEFINE e == ServerEvent("response.completed", None, turn[s].id)
    <3>1. e \in ServerEvents /\ e.response = turn[s].id BY <1>4, <2>2, ServerEventFacts DEF TerminalEvents
    <3>2. Generating(s) /\ outcome' = [outcome EXCEPT ![turn[s].id] = "completed"]
      BY <2>8 DEF ResponseCompletes, EndTurn, At, Generating
    <3>3. Agrees(e, outcome') BY <1>1, <2>2, <3>2 DEF Agrees, ServerEvent
    <3> QED BY <2>4, <2>8, <3>1, <3>2, <3>3 DEF ResponseCompletes
  <2>9. CASE ResponseFails(s)
    <3> DEFINE e == ServerEvent("error", turn[s].id, turn[s].id)
    <3>1. e \in ServerEvents /\ e.response = turn[s].id BY <1>4, <2>2, ServerEventFacts
    <3>2. Generating(s) /\ outcome' = [outcome EXCEPT ![turn[s].id] = "failed"]
      BY <2>9 DEF ResponseFails, EndTurn, At, Generating
    <3>3. Agrees(e, outcome') BY <1>1, <2>2, <3>2 DEF Agrees, ServerEvent
    <3> QED BY <2>4, <2>9, <3>1, <3>2, <3>3 DEF ResponseFails
  <2> QED BY <1>8, <2>5, <2>7, <2>8, <2>9 DEF TurnStep
<1> QED BY <1>5, <1>6, <1>7, <1>8

-----------------------------------------------------------------------------
(* The workflow view.                                                      *)

\* What the console takes from its current socket.
LEMMA CurrentHears ==
  ASSUME Typing, Conversation, NEW s \in Sockets, MessageArrives(s), socket = s
  PROVE  /\ HandleEvent(Head(down[s])) /\ Converses(s)
         /\ IsLate(Head(down[s])) => Head(down[s]).response # activeResponseId
<1>1. Converses(s) /\ HandleEvent(Head(down[s])) BY DEF Conversation, MessageArrives
<1>2. down[s] \in Seq(ServerEvents) /\ down[s] # <<>> BY ArrivalFacts
<1>3. CASE phase = "pending"
  <2>1. activeResponseId = None BY <1>3 DEF Typing, RequestOK
  <2> QED BY <1>1, <2>1 DEF IsLate
<1>4. CASE phase # "pending"
  <2>1. TellsAfter(down[s], activeResponseId) BY <1>1, <1>4 DEF Converses, Hears
  <2> QED BY <1>1, <1>2, <2>1, TailAfter
<1> QED BY <1>3, <1>4

LEMMA ConsoleKeepsView ==
  ASSUME Typing, Typing', EndsAreTrue, Conversation, View
  PROVE  /\ \A readable \in BOOLEAN : SubmitMessage(readable) => View'
         /\ SubmitStop \/ NewSession \/ ClearDisplay \/ ReconnectTimerFires => View'
         /\ \A s \in Sockets : SocketCloses(s) \/ MessageArrives(s) => View'
<1> USE ConstantFacts
<1> USE DEF View, WorkflowIsTrue, handlers, connecting, request, past, wires
<1>1. /\ workflow \in Views /\ activeResponseId \in Messages \union {None}
      /\ activeResponseId # None <=> phase \in {"streaming", "cancelling"}
  BY DEF Typing, RequestOK
<1>2. ASSUME UNCHANGED <<workflow, activeResponseId, outcome>> PROVE View' BY <1>2
<1>3. ASSUME NEW readable \in BOOLEAN, SubmitMessage(readable) PROVE View'
  BY <1>2, <1>3 DEF SubmitMessage
<1>4. CASE SubmitStop BY <1>2, <1>4 DEF SubmitStop
<1>5. CASE NewSession BY <1>5 DEF NewSession, ResetRequestState, NoWorkflow
<1>6. CASE ClearDisplay BY <1>1, <1>6 DEF ClearDisplay, NoWorkflow
<1>7. CASE ReconnectTimerFires BY <1>2, <1>7 DEF ReconnectTimerFires
\* A response that is shown live ends as it did, or with the connection.
<1>8. ASSUME activeResponseId # None, NEW terminal \in {"interrupted", outcome[activeResponseId]},
             terminal \in {"completed", "failed", "cancelled", "interrupted"},
             workflow' = Finished(activeResponseId, terminal), activeResponseId' = None, UNCHANGED outcome
      PROVE  View'
  <2>1. /\ workflow.response = activeResponseId /\ workflow'.response = workflow.response
        /\ workflow'.terminal = terminal /\ workflow'.node # "running"
    BY <1>1, <1>8 DEF Finished, Views
  <2> QED BY <1>8, <2>1
<1>9. ASSUME NEW s \in Sockets, SocketCloses(s) PROVE View'
  <2>1. CASE socket = s /\ activeResponseId # None
    BY <1>8, <1>9, <2>1 DEF SocketCloses, HandleClose, ResetRequestState
  <2>2. CASE socket = s /\ activeResponseId = None
    BY <1>2, <1>9, <2>2 DEF SocketCloses, HandleClose, ResetRequestState
  <2>3. CASE socket # s BY <1>2, <1>9, <2>3 DEF SocketCloses, HandleClose
  <2> QED BY <2>1, <2>2, <2>3
<1>10. ASSUME NEW s \in Sockets, MessageArrives(s) PROVE View'
  <2>1. CASE socket # s BY <1>2, <1>10, <2>1 DEF MessageArrives
  <2>2. CASE socket = s
    <3> DEFINE e == Head(down[s])
    <3>1. /\ HandleEvent(e) /\ e \in ServerEvents /\ Agrees(e, outcome)
          /\ IsLate(e) => e.response # activeResponseId
      BY <1>10, <2>2, CurrentHears, ArrivalFacts DEF EndsAreTrue
    <3>2. UNCHANGED outcome BY <1>10 DEF MessageArrives
    <3>3. /\ e.type = "response.started" => e.response # None
          /\ e.response \in Messages \union {None} /\ e.message \in Messages \union {None}
      BY <3>1, EventFacts DEF WellFormed
    <3> HIDE DEF e
    <3>4. CASE HandleReady(e) BY <1>2, <3>2, <3>4 DEF HandleReady
    <3>5. CASE HandleStarted(e) BY <1>2, <3>2, <3>3, <3>5 DEF HandleStarted, NoWorkflow
    <3>6. CASE HandleNode(e)
      <4>1. CASE e.response = activeResponseId
        <5>1. e.response # None BY <3>1, <3>6, EventFacts DEF HandleNode, WellFormed, NodeEvents
        <5>2. workflow' = [workflow EXCEPT !.node = e.type] BY <3>6, <4>1 DEF HandleNode
        <5>3. /\ workflow'.response = workflow.response /\ workflow'.terminal = workflow.terminal
          BY <1>1, <5>2 DEF Views
        <5>4. workflow.response = activeResponseId /\ activeResponseId' = activeResponseId
          BY <3>6, <4>1, <5>1 DEF HandleNode
        <5> QED BY <3>2, <4>1, <5>1, <5>3, <5>4
      <4>2. CASE e.response # activeResponseId BY <1>2, <3>2, <3>6, <4>2 DEF HandleNode
      <4> QED BY <4>1, <4>2
    <3>7. CASE HandleTerminal(e)
      <4>1. CASE e.response = activeResponseId
        <5>1. e.response # None BY <3>1, <3>7, EventFacts DEF HandleTerminal, WellFormed, TerminalEvents
        <5>2. e.type = "response.completed" => outcome[e.response] = "completed" BY <3>1 DEF Agrees
        <5>3. e.type = "response.cancelled" => outcome[e.response] = "cancelled" BY <3>1 DEF Agrees
        <5> QED BY <1>8, <3>2, <3>7, <4>1, <5>1, <5>2, <5>3 DEF HandleTerminal, ResetRequestState
      <4>2. CASE e.response # activeResponseId BY <1>2, <3>2, <3>7, <4>2 DEF HandleTerminal
      <4> QED BY <4>1, <4>2
    <3>8. CASE HandleError(e)
      <4>1. CASE e.response # None /\ e.response = activeResponseId
        <5>1. outcome[e.response] = "failed" BY <3>1, <3>8, <4>1 DEF HandleError, IsLate, Agrees
        <5> QED BY <1>8, <3>2, <3>8, <4>1, <5>1 DEF HandleError, ResetRequestState
      <4>2. CASE ~ (e.response # None /\ e.response = activeResponseId)
        <5>1. activeResponseId' = activeResponseId /\ workflow' = workflow
          BY <1>1, <3>8, <4>2 DEF HandleError, ResetRequestState
        <5> QED BY <1>2, <3>2, <5>1
      <4> QED BY <4>1, <4>2
    <3> QED BY <3>1, <3>4, <3>5, <3>6, <3>7, <3>8 DEF HandleEvent
  <2> QED BY <2>1, <2>2
<1> QED BY <1>3, <1>4, <1>5, <1>6, <1>7, <1>9, <1>10

\* How a response ended does not change once the view shows it.
LEMMA ServerKeepsView ==
  ASSUME Typing, TurnsAreOpen, View, NEW s \in Sockets,
         AcceptSocket(s) \/ RefuseSocket(s) \/ LinkBreaks(s) \/ Receive(s) \/ TurnStep(s)
  PROVE  View'
<1> USE DEF View, WorkflowIsTrue, handlers, connecting, request, past, wires
<1>1. outcome \in [Messages -> NodeStates] BY DEF Typing, PastOK
<1>2. ASSUME UNCHANGED <<workflow, activeResponseId, outcome>> PROVE View' BY <1>2
<1>3. ASSUME UNCHANGED <<workflow, activeResponseId>>, Generating(s), NEW result,
             outcome' = [outcome EXCEPT ![turn[s].id] = result]
      PROVE  View'
  <2>1. outcome[turn[s].id] = None BY <1>3 DEF TurnsAreOpen
  <2>2. \A m \in Messages : outcome[m] = outcome'[m] \/ outcome[m] = None BY <1>1, <1>3, <2>1
  <2>3. workflow.response \in Messages \union {None} BY DEF Typing, Views
  <2> QED BY <1>3, <2>2, <2>3
<1>4. CASE AcceptSocket(s) \/ RefuseSocket(s) \/ LinkBreaks(s)
  BY <1>2, <1>4 DEF AcceptSocket, RefuseSocket, LinkBreaks
<1>5. CASE Receive(s)
  <2>1. CASE CancelTurn(s) BY <1>3, <2>1 DEF CancelTurn, Generates, Generating, Answered
  <2>2. CASE ~ CancelTurn(s)
    BY <1>2, <1>5, <2>2 DEF Receive, RejectUnreadable, RejectBusy, StartTurn, CancelNotFound, HandlerEnds, Answered
  <2> QED BY <2>1, <2>2
<1>6. CASE TurnStep(s)
  <2>1. CASE ResponseCompletes(s) \/ ResponseFails(s)
    BY <1>3, <2>1 DEF ResponseCompletes, ResponseFails, EndTurn, At, Generating, ServerOnly
  <2>2. CASE ~ (ResponseCompletes(s) \/ ResponseFails(s))
    BY <1>2, <1>6, <2>2 DEF TurnStep, ResponseStarts, NodeStarts, NodeEnds, FreeSession, ServerOnly
  <2> QED BY <2>1, <2>2
<1> QED BY <1>4, <1>5, <1>6

-----------------------------------------------------------------------------
(* The conversation.                                                       *)

\* A socket that a step does not touch.
LEMMA ConversesStays ==
  ASSUME NEW s \in Sockets, Converses(s), UNCHANGED <<request, workflow, odd>>,
         up'[s] = up[s], down'[s] = down[s], turn'[s] = turn[s]
  PROVE  Converses(s)'
  BY DEF Converses, Hears, CreationIsCurrent, StopIsNotPending, TurnIsCurrent, CurrentIsUnderWay, OddIsIgnored,
     NodesAreShown, Generating, Current, request

\* A console that is idle, and its free handler.
IdleWith(s) ==
  /\ phase = "idle" /\ Silent(down[s]) /\ ~ Generating(s)
  /\ \A e \in Range(up[s]) : e.type # "message.create"

\* What is under way to the console is about messages, in order.
LEMMA TalkFacts ==
  ASSUME NEW d \in Seq(ServerEvents)
  PROVE  /\ Silent(d) => ~ HasStart(d) /\ ~ HasEnd(d) /\ ~ Completes(d) /\ ~ EndsNode(d) /\ NodesEnd(d)
         /\ Completes(d) => HasEnd(d)
         /\ \A e \in Range(d) : e \in ServerEvents
<1>1. \A i \in 1..Len(d) : d[i] \in Range(d) BY RangeIsElements
<1>2. Range(d) \subseteq ServerEvents BY RangeIsElements
<1>3. Silent(d) => NodesEnd(d) BY <1>1 DEF Silent, NodesEnd, Talk, NodeEvents
<1> QED BY <1>2, <1>3 DEF Silent, HasStart, HasEnd, Completes, EndsNode, Talk, IsStart, IsEnd, EndsANode,
       NodeEvents, TerminalEvents

LEMMA IdleFacts ==
  ASSUME Typing, NEW s \in Sockets
  PROVE  /\ IdleWith(s) => Converses(s)
         /\ Converses(s) /\ phase = "idle" => IdleWith(s)
<1> USE ConstantFacts
<1>1. /\ down[s] \in Seq(ServerEvents) /\ odd \subseteq Messages
      /\ phase = "idle" => pendingMessageId = None /\ activeResponseId = None
  BY DEF Typing, WiresOK, RequestOK, PastOK
<1>2. \A e \in Range(up[s]) : e.id # None BY UpFacts
<1>3. TellsAfter(down[s], None) <=> Silent(down[s]) BY <1>1, IdleIsSilent
<1>4. Silent(down[s]) => ~ Completes(down[s]) BY <1>1, TalkFacts
<1>5. ASSUME IdleWith(s) PROVE Converses(s)
  <2>1. phase = "idle" /\ pendingMessageId = None /\ activeResponseId = None /\ Current = None
    BY <1>1, <1>5 DEF IdleWith, Current
  <2>2. Hears(s) BY <1>3, <1>5, <2>1 DEF Hears, IdleWith
  <2>3. CreationIsCurrent(s) /\ StopIsNotPending(s) BY <1>2, <1>5, <2>1 DEF CreationIsCurrent, StopIsNotPending, IdleWith
  <2>4. TurnIsCurrent(s) /\ CurrentIsUnderWay(s) BY <1>5, <2>1 DEF TurnIsCurrent, CurrentIsUnderWay, IdleWith
  <2>5. OddIsIgnored(s) BY <1>1, <2>1 DEF OddIsIgnored
  <2>6. NodesAreShown(s) BY <1>4, <1>5 DEF NodesAreShown, IdleWith
  <2> QED BY <2>2, <2>3, <2>4, <2>5, <2>6 DEF Converses
<1>6. ASSUME Converses(s), phase = "idle" PROVE IdleWith(s)
  <2>1. Silent(down[s]) BY <1>1, <1>3, <1>6 DEF Converses, Hears
  <2>2. \A e \in Range(up[s]) : e.type # "message.create" BY <1>6 DEF Converses, CreationIsCurrent
  <2>3. ~ Generating(s)
    <3>1. Current = None BY <1>1, <1>6 DEF Current
    <3>2. Generating(s) => turn[s].id # None BY TurnFacts DEF Generating
    <3> QED BY <1>6, <3>1, <3>2 DEF Converses, TurnIsCurrent
  <2> QED BY <1>6, <2>1, <2>2, <2>3 DEF IdleWith
<1> QED BY <1>5, <1>6

\* The user sends a message: it is the one that is under way.
LEMMA SubmitKeepsConverses ==
  ASSUME Typing, Typing', NumbersAreUsed, NEW readable \in BOOLEAN, SubmitMessage(readable),
         NEW s \in Sockets, socket = s, link[s] = "open", Converses(s)
  PROVE  Converses(s)'
<1> USE ConstantFacts
<1> DEFINE m == messageSequence'
           e == ClientEvent("message.create", m)
           d == down[s]
<1>1. /\ m \in Messages /\ m \in Nat /\ messageSequence \in Nat /\ m > messageSequence
      /\ Transmit(e) /\ UNCHANGED <<turn, down, activeResponseId, workflow>>
      /\ phase = "idle" /\ phase' = "pending" /\ pendingMessageId' = m /\ activeResponseId = None
      /\ pendingMessageId = None
  BY DEF SubmitMessage, CanSend, Messages, Typing, ConnectingOK, PastOK, RequestOK, handlers, connecting
<1>2. e \in ClientEvents /\ e.id = m /\ e.type = "message.create" BY <1>1 DEF ClientEvents, ClientEvent
<1>3. up[s] \in Seq(ClientEvents) /\ d \in Seq(ServerEvents) BY <1>1 DEF Typing, WiresOK
<1>4. up'[s] = Append(up[s], e) BY <1>1, <1>2, TransmitFacts
<1>5. Range(up'[s]) = Range(up[s]) \union {e} BY <1>2, <1>3, <1>4, AppendFacts
<1>6. IdleWith(s) BY <1>1, IdleFacts
<1>7. down'[s] = d /\ turn'[s] = turn[s] BY <1>1
<1> HIDE DEF m, e, d
<1>8. Silent(d) /\ ~ Generating(s) BY <1>6 DEF IdleWith, d
<1>9. ~ Completes(d) /\ ~ HasEnd(d) BY <1>3, <1>8, TalkFacts
<1>10. TellsBefore(d, m)
  <2>1. \A i \in 1..Len(d) : d[i] \in Range(d) BY <1>3, RangeIsElements
  <2>2. Ordered(d) BY <1>8, <2>1 DEF Silent, Ordered
  <2>3. \A x \in Range(d) : IsLate(x) => x.response # m
    <3>1. \A x \in Range(d) : x.response # None => x.response <= messageSequence
      BY <1>1 DEF NumbersAreUsed, d
    <3> QED BY <1>1, <3>1 DEF IsLate
  <2> QED BY <1>8, <2>2, <2>3 DEF TellsBefore, TellsOf, Silent
<1>11. \A x \in Range(up[s]) : x.type # "message.create" /\ x.id # m
  <2>1. \A x \in Range(up[s]) : x.id <= messageSequence /\ x.id \in Messages
    BY <1>1, UpFacts DEF NumbersAreUsed
  <2> QED BY <1>1, <1>6, <2>1 DEF IdleWith
<1>12. Hears(s)' BY <1>1, <1>7, <1>10 DEF Hears
<1>13. ~ Generating(s)' BY <1>7, <1>8 DEF Generating
<1>14. CreationIsCurrent(s)' BY <1>1, <1>2, <1>5, <1>7, <1>8, <1>11, <1>13 DEF CreationIsCurrent
<1>15. StopIsNotPending(s)' BY <1>1, <1>2, <1>5, <1>7, <1>11 DEF StopIsNotPending
<1>16. CurrentIsUnderWay(s)' BY <1>2, <1>5, <1>7 DEF CurrentIsUnderWay
<1>17. OddIsIgnored(s)'
  <2>1. odd' \subseteq Messages BY DEF Typing, PastOK
  <2> QED BY <1>1, <1>7, <1>8, <1>13, <2>1 DEF OddIsIgnored
<1>18. TurnIsCurrent(s)' /\ NodesAreShown(s)' BY <1>7, <1>9, <1>13 DEF TurnIsCurrent, NodesAreShown
<1> QED BY <1>12, <1>14, <1>15, <1>16, <1>17, <1>18 DEF Converses

\* The user stops the response that is streamed.
LEMMA StopKeepsConverses ==
  ASSUME Typing, Typing', SubmitStop, NEW s \in Sockets, socket = s, link[s] = "open", Converses(s)
  PROVE  Converses(s)'
<1> USE ConstantFacts
<1> DEFINE e == ClientEvent("response.cancel", activeResponseId)
<1>1. /\ Transmit(e) /\ activeResponseId \in Messages
      /\ UNCHANGED <<turn, down, activeResponseId, pendingMessageId, workflow, odd>>
      /\ phase = "streaming" /\ phase' = "cancelling" /\ pendingMessageId = None
  BY DEF SubmitStop, CanSend, Typing, ConnectingOK, RequestOK, handlers, connecting, past
<1>2. e \in ClientEvents /\ e.id \in Messages /\ e.type = "response.cancel" BY <1>1 DEF ClientEvents, ClientEvent
<1>3. up[s] \in Seq(ClientEvents) BY <1>1 DEF Typing, WiresOK
<1>4. up'[s] = Append(up[s], e) BY <1>1, <1>2, TransmitFacts
<1>5. Range(up'[s]) = Range(up[s]) \union {e} BY <1>2, <1>3, <1>4, AppendFacts
<1>6. down'[s] = down[s] /\ turn'[s] = turn[s] BY <1>1
<1> HIDE DEF e
<1>7. Generating(s)' <=> Generating(s) BY <1>6 DEF Generating
<1>8. Hears(s)' BY <1>1, <1>6 DEF Converses, Hears
<1>9. CreationIsCurrent(s)' /\ StopIsNotPending(s)'
  BY <1>1, <1>2, <1>5, <1>6 DEF Converses, CreationIsCurrent, StopIsNotPending
<1>10. TurnIsCurrent(s)' /\ CurrentIsUnderWay(s)'
  BY <1>1, <1>5, <1>6, <1>7 DEF Converses, TurnIsCurrent, CurrentIsUnderWay, Current
<1>11. OddIsIgnored(s)' /\ NodesAreShown(s)'
  BY <1>1, <1>6, <1>7 DEF Converses, OddIsIgnored, NodesAreShown
<1> QED BY <1>8, <1>9, <1>10, <1>11 DEF Converses

\* The console takes an event of its current socket.
LEMMA ArrivalKeepsConverses ==
  ASSUME Typing, Typing', NEW s \in Sockets, MessageArrives(s), socket = s, Converses(s),
         IsLate(Head(down[s])) => Head(down[s]).response # activeResponseId,
         HandleEvent(Head(down[s]))
  PROVE  Converses(s)'
<1> USE ConstantFacts
<1> DEFINE d == down[s]
           e == Head(d)
<1>1. /\ d \in Seq(ServerEvents) /\ d # <<>> /\ down'[s] = Tail(d) /\ e \in ServerEvents
      /\ Tail(d) \in Seq(ServerEvents)
  BY ArrivalFacts, TailFacts
<1>2. UNCHANGED <<up, turn, odd>> BY DEF MessageArrives, handlers, past
<1>3. /\ e.type \in EventTypes /\ WellFormed(e) /\ (Talk(e) => Subject(e) \in Messages) BY <1>1, EventFacts
<1>4. /\ pendingMessageId \in Messages \union {None} /\ (pendingMessageId # None <=> phase = "pending")
      /\ activeResponseId \in Messages \union {None}
      /\ activeResponseId # None <=> phase \in {"streaming", "cancelling"}
      /\ phase \in {"idle", "pending", "streaming", "cancelling"} /\ odd \subseteq Messages
  BY DEF Typing, RequestOK, PastOK
<1>5. Generating(s)' <=> Generating(s) BY <1>2 DEF Generating
<1>6. HandleEvent(e) /\ (IsLate(e) => e.response # activeResponseId) OBVIOUS
<1>7. /\ Silent(d) <=> Silent(Tail(d)) /\ ~ Talk(e)
      /\ HasStart(d) <=> HasStart(Tail(d)) \/ IsStart(e)
      /\ HasEnd(d) <=> HasEnd(Tail(d)) \/ IsEnd(e)
      /\ Completes(d) <=> Completes(Tail(d)) \/ e.type = "response.completed"
      /\ EndsNode(d) <=> EndsNode(Tail(d)) \/ EndsANode(e)
      /\ NodesEnd(d) => NodesEnd(Tail(d)) /\ (e.type = "running" => EndsNode(Tail(d)))
  BY <1>1, TailSays, TailNodesEnd
<1>8. /\ phase = "pending" =>
           /\ ~ Talk(e) => TellsBefore(Tail(d), pendingMessageId)
           /\ Talk(e) => Subject(e) = pendingMessageId /\ (IsStart(e) \/ IsRefusal(e))
           /\ IsStart(e) => TellsAfter(Tail(d), pendingMessageId)
           /\ IsRefusal(e) => Silent(Tail(d))
      /\ phase # "pending" =>
           /\ Talk(e) => Subject(e) = activeResponseId
           /\ ~ IsStart(e) /\ ~ IsRefusal(e)
           /\ ~ IsEnd(e) => TellsAfter(Tail(d), activeResponseId)
           /\ IsEnd(e) => Silent(Tail(d))
  <2>1. CASE phase = "pending"
    <3>1. TellsBefore(d, pendingMessageId) /\ pendingMessageId \in Messages
      BY <1>4, <2>1 DEF Converses, Hears
    <3> QED BY <1>1, <2>1, <3>1, TailBefore
  <2>2. CASE phase # "pending"
    <3>1. TellsAfter(d, activeResponseId) BY <2>2 DEF Converses, Hears
    <3> QED BY <1>1, <2>2, <3>1, TailAfter
  <2> QED BY <2>1, <2>2
<1>9. Converses(s) OBVIOUS
<1> HIDE DEF d, e
<1>10. d = down[s] BY DEF d
\* An event that says nothing.
<1>11. ASSUME ~ Talk(e), UNCHANGED <<request, workflow>> PROVE Converses(s)'
  <2> USE <1>1, <1>2, <1>5, <1>7, <1>9, <1>10, <1>11 DEF Converses, request
  <2>1. ~ IsStart(e) /\ ~ IsEnd(e) /\ ~ EndsANode(e) /\ e.type # "response.completed"
    BY DEF Talk, IsEnd, EndsANode, NodeEvents, TerminalEvents
  <2>2. Hears(s)' BY <1>8, <2>1 DEF Hears
  <2>3. CreationIsCurrent(s)' /\ StopIsNotPending(s)' BY DEF CreationIsCurrent, StopIsNotPending
  <2>4. TurnIsCurrent(s)' BY <2>1 DEF TurnIsCurrent, Current
  <2>5. CurrentIsUnderWay(s)' BY <2>1 DEF CurrentIsUnderWay, Current
  <2>6. OddIsIgnored(s)' BY DEF OddIsIgnored
  <2>7. NodesAreShown(s)' BY <2>1 DEF NodesAreShown
  <2> QED BY <2>2, <2>3, <2>4, <2>5, <2>6, <2>7
\* The end of what the console waits for.
<1>12. ASSUME IsEnd(e), ResetRequestState PROVE Converses(s)'
  <2>1. Silent(Tail(d))
    BY <1>8, <1>12 DEF Talk, IsStart, IsEnd, TerminalEvents
  <2>2. ~ Silent(d) /\ HasEnd(d) BY <1>7, <1>12 DEF Talk
  <2>3. ~ Generating(s) BY <1>9, <1>10, <2>2 DEF Converses, TurnIsCurrent
  <2>4. \A x \in Range(up[s]) : x.type # "message.create" BY <1>9, <1>10, <2>2 DEF Converses, CreationIsCurrent
  <2>5. IdleWith(s)' BY <1>1, <1>2, <1>5, <1>12, <2>1, <2>3, <2>4 DEF IdleWith, ResetRequestState
  <2>6. (IdleWith(s) => Converses(s))' BY IdleFacts, PTL
  <2> QED BY <2>5, <2>6
<1>13. CASE HandleReady(e)
  <2>1. ~ Talk(e) BY <1>13 DEF HandleReady, Talk, IsStart, IsEnd, NodeEvents, TerminalEvents
  <2> QED BY <1>11, <1>13, <2>1 DEF HandleReady
<1>14. CASE HandleStarted(e)
  <2>1. IsStart(e) /\ Talk(e) /\ e.message = e.response /\ e.response # None /\ ~ IsEnd(e) /\ ~ EndsANode(e)
        /\ e.type # "response.completed"
    BY <1>3, <1>14 DEF HandleStarted, Talk, IsStart, IsEnd, WellFormed, TerminalEvents, EndsANode
  <2>2. phase = "pending" /\ e.message = pendingMessageId /\ TellsAfter(Tail(d), pendingMessageId)
    BY <1>8, <2>1 DEF Subject
  <2>3. /\ phase' = "streaming" /\ pendingMessageId' = None /\ activeResponseId' = pendingMessageId
        /\ workflow' = [NoWorkflow EXCEPT !.response = e.response]
    BY <1>14, <2>1, <2>2 DEF HandleStarted
  <2>4. ~ Silent(d) /\ workflow'.node = None BY <1>7, <2>1, <2>3 DEF NoWorkflow
  <2>5. \A x \in Range(up[s]) : x.type # "message.create" BY <1>9, <1>10, <2>4 DEF Converses, CreationIsCurrent
  <2> USE <1>1, <1>2, <1>5, <1>7, <1>9, <1>10, <2>1, <2>2, <2>3, <2>4, <2>5 DEF Converses
  <2>6. Hears(s)' BY DEF Hears
  <2>7. CreationIsCurrent(s)' BY DEF CreationIsCurrent
  <2>8. StopIsNotPending(s)' BY UpFacts DEF StopIsNotPending
  <2>9. TurnIsCurrent(s)' BY DEF TurnIsCurrent, Current
  <2>10. CurrentIsUnderWay(s)' BY DEF CurrentIsUnderWay, Current
  <2>11. OddIsIgnored(s)' BY <1>4 DEF OddIsIgnored
  <2>12. NodesAreShown(s)' BY DEF NodesAreShown
  <2> QED BY <2>6, <2>7, <2>8, <2>9, <2>10, <2>11, <2>12
<1>15. CASE HandleNode(e)
  <2>1. /\ Talk(e) /\ ~ IsStart(e) /\ ~ IsRefusal(e) /\ ~ IsEnd(e) /\ e.type # "response.completed"
        /\ Subject(e) = e.response /\ e.response # None
    BY <1>3, <1>15 DEF HandleNode, Talk, IsStart, IsRefusal, IsEnd, NodeEvents, TerminalEvents, Subject, WellFormed
  <2>2. phase # "pending" /\ e.response = activeResponseId /\ TellsAfter(Tail(d), activeResponseId)
    BY <1>8, <2>1
  <2>3. UNCHANGED request /\ workflow' = [workflow EXCEPT !.node = e.type] BY <1>15, <2>2 DEF HandleNode
  <2>4. workflow'.node = e.type BY <2>3 DEF Typing, Views
  <2> USE <1>1, <1>2, <1>5, <1>7, <1>9, <1>10, <2>1, <2>2, <2>3, <2>4 DEF Converses, request
  <2>5. Hears(s)' BY DEF Hears
  <2>6. CreationIsCurrent(s)' /\ StopIsNotPending(s)' BY DEF CreationIsCurrent, StopIsNotPending
  <2>7. TurnIsCurrent(s)' BY DEF TurnIsCurrent, Current
  <2>8. CurrentIsUnderWay(s)' BY DEF CurrentIsUnderWay, Current
  <2>9. OddIsIgnored(s)' BY DEF OddIsIgnored
  <2>10. NodesAreShown(s)' BY DEF NodesAreShown
  <2> QED BY <2>5, <2>6, <2>7, <2>8, <2>9, <2>10
<1>16. CASE HandleTerminal(e)
  <2>1. /\ IsEnd(e) /\ Talk(e) /\ ~ IsStart(e) /\ ~ IsRefusal(e) /\ Subject(e) = e.response /\ e.response # None
    BY <1>3, <1>16 DEF HandleTerminal, Talk, IsStart, IsRefusal, IsEnd, TerminalEvents, Subject, WellFormed
  <2>2. e.response = activeResponseId BY <1>8, <2>1
  <2> QED BY <1>12, <1>16, <2>1, <2>2 DEF HandleTerminal
<1>17. CASE HandleError(e)
  <2>1. CASE IsEnd(e)
    <3>1. Talk(e) /\ e.type = "error" /\ e.message # None BY <1>17, <2>1 DEF Talk, HandleError, IsEnd, TerminalEvents
    <3>2. \/ phase = "pending" /\ e.message = pendingMessageId
          \/ e.response # None /\ e.response = activeResponseId
      BY <1>3, <1>8, <3>1 DEF IsStart, IsRefusal, Subject, WellFormed
    <3>3. ResetRequestState BY <1>17, <3>2 DEF HandleError
    <3> QED BY <1>12, <2>1, <3>3
  <2>2. CASE ~ IsEnd(e)
    <3>1. ~ Talk(e) /\ e.type = "error" /\ e.message = None
      BY <1>17, <2>2 DEF HandleError, Talk, IsStart, IsEnd, NodeEvents
    <3>2. e.response # None => IsLate(e) BY <3>1 DEF IsLate
    <3>3. UNCHANGED <<request, workflow>> BY <1>4, <1>6, <1>17, <3>1, <3>2 DEF HandleError
    <3> QED BY <1>11, <3>1, <3>3
  <2> QED BY <2>1, <2>2
<1> QED BY <1>6, <1>13, <1>14, <1>15, <1>16, <1>17 DEF HandleEvent

\* The handler takes an event of its console.
LEMMA ReceiveKeepsConverses ==
  ASSUME Typing, Open, NEW s \in Sockets, Receive(s), link[s] = "open", Converses(s)
  PROVE  Converses(s)'
<1> USE ConstantFacts
<1> DEFINE d == down[s]
           h == Head(up[s])
<1>1. PICK type : Received(s, type) /\ Answered(s)
  BY DEF Receive, RejectUnreadable, RejectBusy, StartTurn, CancelTurn, CancelNotFound, HandlerEnds, Readable
<1>2. /\ h.id \in Messages /\ h.type = type /\ Range(up[s]) = {h} \union Range(up'[s])
      /\ up[s] \in Seq(ClientEvents) /\ up[s] # <<>> /\ up'[s] = Tail(up[s])
  BY <1>1, AnsweredFacts, UpFacts
<1>3. UNCHANGED <<connecting, request, workflow, odd>> BY <1>1 DEF Answered
<1>4. /\ pendingMessageId \in Messages \union {None} /\ (pendingMessageId # None <=> phase = "pending")
      /\ activeResponseId \in Messages \union {None} /\ odd \subseteq Messages
      /\ turn \in [Sockets -> Turns \union {None}] /\ d \in Seq(ServerEvents)
  BY DEF Typing, WiresOK, HandlersOK, RequestOK, PastOK
<1>5. Converses(s) OBVIOUS
\* A message that is taken was the only one under way.
<1>6. ASSUME type = "message.create"
      PROVE  /\ phase = "pending" /\ h.id = pendingMessageId /\ Silent(d) /\ ~ Generating(s)
             /\ \A x \in Range(up'[s]) : x.type # "message.create"
  <2>1. phase = "pending" /\ h.id = pendingMessageId /\ Silent(d) /\ ~ Generating(s)
    BY <1>2, <1>5, <1>6 DEF Converses, CreationIsCurrent
  <2>2. ASSUME NEW x \in Range(up'[s]), x.type = "message.create" PROVE FALSE
    <3>1. x.id = h.id BY <1>2, <1>5, <2>1, <2>2 DEF Converses, CreationIsCurrent
    <3>2. PICK i \in 1..Len(up[s]) : i > 1 /\ up[s][i] = x BY <1>2, <2>2, TailPlaces
    <3>3. 1 \in 1..Len(up[s]) /\ h = up[s][1] BY <1>2, TailFacts
    <3> QED BY <1>2, <1>6, <2>2, <3>1, <3>2, <3>3 DEF Open, OneCreation, Creates
  <2> QED BY <2>1, <2>2
\* What is sent, if anything is, is heard.
<1>7. ASSUME NEW x \in ServerEvents, Send(s, x)
      PROVE  /\ down'[s] = Append(d, x)
             /\ Silent(down'[s]) <=> Silent(d) /\ ~ Talk(x)
             /\ HasStart(down'[s]) <=> HasStart(d) \/ IsStart(x)
             /\ HasEnd(down'[s]) <=> HasEnd(d) \/ IsEnd(x)
             /\ Completes(down'[s]) <=> Completes(d) \/ x.type = "response.completed"
             /\ EndsNode(down'[s]) <=> EndsNode(d) \/ EndsANode(x)
             /\ NodesEnd(d) /\ x.type # "running" => NodesEnd(down'[s])
  <2>1. down'[s] = Append(d, x) BY <1>7, SendFacts
  <2> QED BY <1>4, <1>7, <2>1, AppendSays, AppendNodesEnd
<1>8. Silent(d) => ~ HasStart(d) /\ ~ HasEnd(d) /\ ~ Completes(d) /\ ~ EndsNode(d) /\ NodesEnd(d)
  BY <1>4, TalkFacts
<1> HIDE DEF d, h
<1>9. d = down[s] /\ h = Head(up[s]) BY DEF d, h
<1>10. StopIsNotPending(s)' BY <1>2, <1>3, <1>5 DEF Converses, StopIsNotPending, request
<1>11. CASE RejectUnreadable(s)
  <2> DEFINE x == ServerEvent("error", None, None)
  <2>1. type = "message.create" /\ h.id \in odd /\ Send(s, x) /\ UNCHANGED turn
    BY <1>2, <1>9, <1>11 DEF RejectUnreadable, Received
  <2>2. x \in ServerEvents /\ x.type = "error" /\ x.message = None /\ x.response = None
    BY <1>2, ServerEventFacts DEF ServerEvent
  <2> HIDE DEF x
  <2>3. ~ Talk(x) /\ ~ IsLate(x) /\ ~ IsStart(x) /\ ~ IsEnd(x)
    BY <2>2 DEF Talk, IsLate, IsStart, IsEnd, NodeEvents, TerminalEvents
  <2>4. ~ Generating(s)' BY <1>6, <2>1 DEF Generating
  <2>5. Hears(s)'
    <3>1. TellsBefore(d, pendingMessageId) BY <1>5, <1>6, <1>9, <2>1 DEF Converses, Hears
    <3>2. TellsBefore(Append(d, x), pendingMessageId) BY <1>4, <2>2, <2>3, <3>1, AppendBefore DEF InOrder
    <3> QED BY <1>3, <1>6, <1>7, <2>1, <2>2, <3>2 DEF Hears, request
  <2>6. CreationIsCurrent(s)' BY <1>6, <2>1 DEF CreationIsCurrent
  <2>7. CurrentIsUnderWay(s)' BY <1>3, <1>6, <2>1 DEF CurrentIsUnderWay, Current, request
  <2>8. OddIsIgnored(s)'
    BY <1>3, <1>5, <1>6, <1>7, <2>1, <2>2, <2>3, <2>4 DEF Converses, OddIsIgnored, request
  <2>9. TurnIsCurrent(s)' /\ NodesAreShown(s)'
    BY <1>6, <1>7, <1>8, <2>1, <2>2, <2>4 DEF TurnIsCurrent, NodesAreShown
  <2> QED BY <1>10, <2>5, <2>6, <2>7, <2>8, <2>9 DEF Converses
<1>12. CASE RejectBusy(s)
  <2> DEFINE x == ServerEvent("error", h.id, None)
  <2>1. type = "message.create" /\ h.id \notin odd /\ Send(s, x) /\ UNCHANGED turn
    BY <1>2, <1>9, <1>12 DEF RejectBusy, Readable, Received
  <2>2. x \in ServerEvents /\ x.type = "error" /\ x.message = h.id /\ x.response = None
    BY <1>2, ServerEventFacts DEF ServerEvent
  <2> HIDE DEF x
  <2>3. IsRefusal(x) /\ IsEnd(x) /\ Talk(x) /\ ~ IsLate(x) /\ Subject(x) = h.id
    BY <1>2, <2>2 DEF IsRefusal, IsEnd, Talk, IsLate, Subject
  <2>4. ~ Generating(s)' BY <1>6, <2>1 DEF Generating
  <2>5. Hears(s)'
    <3>1. TellsBefore(d, pendingMessageId) BY <1>5, <1>6, <1>9, <2>1 DEF Converses, Hears
    <3>2. TellsBefore(Append(d, x), pendingMessageId)
      BY <1>4, <1>6, <2>1, <2>2, <2>3, <3>1, AppendBefore DEF InOrder
    <3> QED BY <1>3, <1>6, <1>7, <2>1, <2>2, <3>2 DEF Hears, request
  <2>6. CreationIsCurrent(s)' BY <1>6, <2>1 DEF CreationIsCurrent
  <2>7. CurrentIsUnderWay(s)' BY <1>7, <2>1, <2>2, <2>3 DEF CurrentIsUnderWay
  <2>8. OddIsIgnored(s)' BY <1>3, <1>5, <1>6, <2>1 DEF Converses, OddIsIgnored, request
  <2>9. TurnIsCurrent(s)' /\ NodesAreShown(s)'
    BY <1>6, <1>7, <1>8, <2>1, <2>2, <2>4 DEF TurnIsCurrent, NodesAreShown
  <2> QED BY <1>10, <2>5, <2>6, <2>7, <2>8, <2>9 DEF Converses
<1>13. CASE StartTurn(s)
  <2>1. /\ type = "message.create" /\ h.id \notin odd /\ UNCHANGED down
        /\ turn' = [turn EXCEPT ![s] = [id |-> h.id, stage |-> "begun", node |-> None]]
    BY <1>2, <1>9, <1>13 DEF StartTurn, Readable, Received
  <2>2. turn'[s] = [id |-> h.id, stage |-> "begun", node |-> None] BY <1>4, <2>1
  <2>3. turn'[s].id = h.id /\ turn'[s].stage = "begun" /\ turn'[s].node = None BY <2>2
  <2>4. turn'[s] # None
    <3>1. turn'[s] \in Turns BY <1>2, <2>2 DEF Turns
    <3> QED BY <3>1
  <2>5. Generating(s)' BY <2>3, <2>4 DEF Generating
  <2>6. down'[s] = d BY <1>9, <2>1
  <2>7. Hears(s)' BY <1>3, <1>5, <1>9, <2>6 DEF Converses, Hears, request
  <2>8. CreationIsCurrent(s)' BY <1>6, <2>1 DEF CreationIsCurrent
  <2>9. CurrentIsUnderWay(s)' BY <2>5 DEF CurrentIsUnderWay
  <2>10. OddIsIgnored(s)' BY <1>3, <1>5, <1>6, <2>1 DEF Converses, OddIsIgnored, request
  <2>11. TurnIsCurrent(s)' BY <1>3, <1>6, <1>8, <2>1, <2>3, <2>6 DEF TurnIsCurrent, Current, request
  <2>12. NodesAreShown(s)' BY <1>3, <1>6, <1>8, <2>1, <2>6 DEF NodesAreShown, request
  <2> QED BY <1>10, <2>7, <2>8, <2>9, <2>10, <2>11, <2>12 DEF Converses
\* A Stop is of a response that started.
<1>14. ASSUME type = "response.cancel" PROVE h.id # pendingMessageId
  BY <1>2, <1>5, <1>14 DEF Converses, StopIsNotPending
<1>15. CASE CancelTurn(s)
  <2> DEFINE m == turn[s].id
             x == ServerEvent("response.cancelled", None, m)
  <2>1. /\ type = "response.cancel" /\ Generating(s) /\ h.id = m /\ Send(s, x)
        /\ turn' = [turn EXCEPT ![s] = None]
    BY <1>2, <1>9, <1>15 DEF CancelTurn, Generates, Generating, Received
  <2>2. m = Current /\ ~ HasEnd(d) BY <1>5, <1>9, <2>1 DEF Converses, TurnIsCurrent
  <2>3. phase # "pending" /\ activeResponseId = m BY <1>14, <2>1, <2>2 DEF Current
  <2>4. x \in ServerEvents /\ x.type = "response.cancelled" /\ x.message = None /\ x.response = m
    BY <1>2, <2>1, ServerEventFacts DEF ServerEvent, TerminalEvents
  <2>5. ~ Completes(d) BY <1>4, <2>2, TalkFacts
  <2> HIDE DEF x, m
  <2>6. IsEnd(x) /\ Talk(x) /\ ~ IsStart(x) /\ ~ IsRefusal(x) /\ ~ IsLate(x) /\ Subject(x) = m
    BY <1>2, <2>1, <2>4 DEF IsEnd, Talk, IsStart, IsRefusal, IsLate, Subject, TerminalEvents
  <2>7. ~ Generating(s)' BY <1>4, <2>1 DEF Generating
  <2>8. Hears(s)'
    <3>1. TellsAfter(d, activeResponseId) BY <1>5, <1>9, <2>3 DEF Converses, Hears
    <3>2. TellsAfter(Append(d, x), activeResponseId) BY <1>4, <2>2, <2>3, <2>4, <2>6, <3>1, AppendAfter
    <3> QED BY <1>3, <1>7, <2>1, <2>3, <2>4, <3>2 DEF Hears, request
  <2>9. CreationIsCurrent(s)' BY <1>2, <1>5, <2>3 DEF Converses, CreationIsCurrent
  <2>10. CurrentIsUnderWay(s)' BY <1>7, <2>1, <2>4, <2>6 DEF CurrentIsUnderWay
  <2>11. OddIsIgnored(s)' BY <1>3, <1>4, <1>5, <2>3 DEF Converses, OddIsIgnored, request
  <2>12. TurnIsCurrent(s)' /\ NodesAreShown(s)'
    BY <1>7, <2>1, <2>4, <2>5, <2>7 DEF TurnIsCurrent, NodesAreShown
  <2> QED BY <1>10, <2>8, <2>9, <2>10, <2>11, <2>12 DEF Converses
<1>16. CASE CancelNotFound(s)
  <2> DEFINE x == ServerEvent("error", None, h.id)
  <2>1. type = "response.cancel" /\ ~ Generates(s, h.id) /\ Send(s, x) /\ UNCHANGED turn
    BY <1>2, <1>9, <1>16 DEF CancelNotFound, Received
  <2>2. x \in ServerEvents /\ x.type = "error" /\ x.message = None /\ x.response = h.id
    BY <1>2, ServerEventFacts DEF ServerEvent
  <2> HIDE DEF x
  <2>3. ~ Talk(x) /\ ~ IsStart(x) /\ ~ IsEnd(x) /\ ~ IsRefusal(x) /\ ~ EndsANode(x)
    BY <2>2 DEF Talk, IsStart, IsEnd, IsRefusal, EndsANode, NodeEvents, TerminalEvents
  <2>4. Generating(s)' <=> Generating(s) BY <2>1 DEF Generating
  <2>5. Range(up'[s]) \subseteq Range(up[s])
        /\ \A y \in Range(up[s]) : y.type = "message.create" => y \in Range(up'[s])
    BY <1>2, <2>1
  <2>6. Hears(s)'
    <3>1. CASE phase = "pending"
      <4>1. TellsBefore(d, pendingMessageId) BY <1>5, <1>9, <3>1 DEF Converses, Hears
      <4>2. TellsBefore(Append(d, x), pendingMessageId)
        BY <1>4, <1>14, <2>1, <2>2, <2>3, <4>1, AppendBefore DEF InOrder
      <4> QED BY <1>3, <1>7, <2>1, <2>2, <3>1, <4>2 DEF Hears, request
    <3>2. CASE phase # "pending"
      <4>1. TellsAfter(d, activeResponseId) BY <1>5, <1>9, <3>2 DEF Converses, Hears
      <4>2. ASSUME h.id = activeResponseId PROVE HasEnd(d)
        <5>1. Current = activeResponseId /\ activeResponseId \notin odd /\ activeResponseId # None
          BY <1>2, <1>5, <3>2, <4>2 DEF Current, Converses, OddIsIgnored
        <5>2. \A y \in Range(up[s]) : y.type # "message.create" BY <1>5, <3>2 DEF Converses, CreationIsCurrent
        <5>3. ~ Generating(s) BY <1>5, <2>1, <4>2, <5>1 DEF Converses, TurnIsCurrent, Generates, Generating
        <5> QED BY <1>5, <1>9, <5>1, <5>2, <5>3 DEF Converses, CurrentIsUnderWay
      <4>3. TellsAfter(Append(d, x), activeResponseId) BY <1>4, <2>2, <2>3, <4>1, <4>2, AppendAfter
      <4> QED BY <1>3, <1>7, <2>1, <2>2, <3>2, <4>3 DEF Hears, request
    <3> QED BY <3>1, <3>2
  <2>7. /\ Silent(down'[s]) <=> Silent(d)
        /\ HasStart(down'[s]) <=> HasStart(d)
        /\ HasEnd(down'[s]) <=> HasEnd(d)
        /\ Completes(down'[s]) <=> Completes(d)
        /\ EndsNode(down'[s]) <=> EndsNode(d)
        /\ NodesEnd(d) => NodesEnd(down'[s])
    BY <1>7, <2>1, <2>2, <2>3
  <2> USE <1>3, <1>5, <1>9, <2>1, <2>4, <2>5, <2>7 DEF Converses, request
  <2>8. CreationIsCurrent(s)' BY DEF CreationIsCurrent
  <2>9. CurrentIsUnderWay(s)' BY DEF CurrentIsUnderWay, Current
  <2>10. OddIsIgnored(s)' BY DEF OddIsIgnored
  <2>11. TurnIsCurrent(s)' BY DEF TurnIsCurrent, Current
  <2>12. NodesAreShown(s)' BY DEF NodesAreShown
  <2> QED BY <1>10, <2>6, <2>8, <2>9, <2>10, <2>11, <2>12
<1>17. ~ HandlerEnds(s) BY DEF HandlerEnds
<1> QED BY <1>11, <1>12, <1>13, <1>15, <1>16, <1>17 DEF Receive

\* The handler's turn goes on: what it says of its message is heard after the start and
\* before the end.
LEMMA TurnKeepsConverses ==
  ASSUME Typing, NEW s \in Sockets, TurnStep(s), link[s] = "open", Converses(s)
  PROVE  Converses(s)'
<1> USE ConstantFacts
<1> DEFINE d == down[s]
           m == turn[s].id
<1>1. ServerOnly /\ turn[s] # None
  BY DEF TurnStep, ResponseStarts, NodeStarts, NodeEnds, ResponseCompletes, ResponseFails, FreeSession, At
<1>2. turn[s] \in Turns /\ m \in Messages BY <1>1, TurnFacts
<1>3. UNCHANGED <<up, request, workflow, odd>> BY <1>1 DEF ServerOnly
<1>4. /\ odd \subseteq Messages /\ (pendingMessageId # None <=> phase = "pending")
      /\ turn \in [Sockets -> Turns \union {None}] /\ d \in Seq(ServerEvents)
  BY DEF Typing, WiresOK, HandlersOK, RequestOK, PastOK
<1>5. Converses(s) OBVIOUS
<1>6. ASSUME NEW x \in ServerEvents, Send(s, x)
      PROVE  /\ down'[s] = Append(d, x)
             /\ Silent(down'[s]) <=> Silent(d) /\ ~ Talk(x)
             /\ HasStart(down'[s]) <=> HasStart(d) \/ IsStart(x)
             /\ HasEnd(down'[s]) <=> HasEnd(d) \/ IsEnd(x)
             /\ Completes(down'[s]) <=> Completes(d) \/ x.type = "response.completed"
             /\ EndsNode(down'[s]) <=> EndsNode(d) \/ EndsANode(x)
             /\ EndsANode(x) \/ (NodesEnd(d) /\ x.type # "running") => NodesEnd(down'[s])
  <2>1. down'[s] = Append(d, x) BY <1>6, SendFacts
  <2> QED BY <1>4, <1>6, <2>1, AppendSays, AppendNodesEnd
<1>7. /\ Silent(d) => ~ HasStart(d) /\ ~ HasEnd(d) /\ ~ Completes(d) /\ ~ EndsNode(d) /\ NodesEnd(d)
      /\ Completes(d) => HasEnd(d)
  BY <1>4, TalkFacts
<1>8. Generating(s) => m = Current /\ ~ HasEnd(d) BY <1>5 DEF Converses, TurnIsCurrent
<1>9. Generating(s) =>
        /\ \A y \in Range(up[s]) : y.type # "message.create"
        /\ Current \notin odd
  BY <1>5 DEF Converses, CreationIsCurrent, OddIsIgnored, Current
<1>10. StopIsNotPending(s)' BY <1>3, <1>5 DEF Converses, StopIsNotPending, request
<1> HIDE DEF d, m
<1>11. d = down[s] /\ m = turn[s].id BY DEF d, m
<1>12. CASE ResponseStarts(s)
  <2> DEFINE x == ServerEvent("response.started", m, m)
  <2>1. Generating(s) /\ Send(s, x) /\ turn[s].stage = "begun" /\ turn' = [turn EXCEPT ![s].stage = "streaming"]
    BY <1>11, <1>12 DEF ResponseStarts, At, Generating
  <2>2. phase = "pending" /\ Silent(d) /\ turn[s].node = None
    BY <1>5, <1>11, <2>1 DEF Converses, TurnIsCurrent
  <2>3. x \in ServerEvents /\ x.type = "response.started" /\ x.message = m /\ x.response = m
    BY <1>2, ServerEventFacts DEF ServerEvent
  <2> HIDE DEF x
  <2>4. Talk(x) /\ IsStart(x) /\ ~ IsEnd(x) /\ ~ IsLate(x) /\ Subject(x) = m
    BY <1>2, <2>3 DEF Talk, IsStart, IsEnd, IsLate, Subject, TerminalEvents
  <2>5. /\ turn'[s].id = m /\ turn'[s].stage = "streaming" /\ turn'[s].node = None
        /\ Generating(s)'
    BY <1>2, <1>4, <1>11, <2>1, <2>2 DEF Generating, Turns
  <2>6. m = pendingMessageId BY <1>8, <2>1, <2>2 DEF Current
  <2>7. Hears(s)'
    <3>1. TellsBefore(d, m) BY <1>5, <1>11, <2>2, <2>6 DEF Converses, Hears
    <3>2. TellsBefore(Append(d, x), m) BY <1>4, <2>2, <2>3, <2>4, <3>1, AppendBefore DEF InOrder
    <3> QED BY <1>3, <1>6, <2>1, <2>2, <2>3, <2>6, <3>2 DEF Hears, request
  <2>8. TurnIsCurrent(s)'
    BY <1>3, <1>6, <1>7, <1>8, <2>1, <2>2, <2>3, <2>4, <2>5 DEF TurnIsCurrent, Current, request
  <2>9. CurrentIsUnderWay(s)' BY <2>5 DEF CurrentIsUnderWay
  <2>10. NodesAreShown(s)' BY <1>3, <1>6, <1>7, <2>1, <2>2, <2>3 DEF NodesAreShown, request
  <2>11. OddIsIgnored(s)' /\ CreationIsCurrent(s)'
    BY <1>3, <1>4, <1>9, <2>1, <2>6, <1>5 DEF Converses, OddIsIgnored, CreationIsCurrent, Current, request
  <2> QED BY <1>10, <2>7, <2>8, <2>9, <2>10, <2>11 DEF Converses
\* A turn that streams was heard to start.
<1>13. ASSUME At(s, "streaming"), NEW x \in ServerEvents, Send(s, x), x.response = m,
              x.type \in NodeEvents \union TerminalEvents \/ (x.type = "error" /\ x.message = m)
       PROVE  /\ Hears(s)' /\ Generating(s) /\ Talk(x) /\ ~ IsStart(x) /\ ~ HasEnd(d) /\ ~ Completes(d)
              /\ phase = "pending" => HasStart(d)
  <2>1. Generating(s) /\ turn[s].stage = "streaming" BY <1>13 DEF At, Generating
  <2>2. Talk(x) /\ ~ IsStart(x) /\ ~ IsRefusal(x) /\ ~ IsLate(x) /\ Subject(x) = m
    BY <1>2, <1>13, EventFacts DEF Talk, IsStart, IsRefusal, IsLate, IsEnd, Subject, WellFormed, NodeEvents,
       TerminalEvents
  <2>3. phase = "pending" => HasStart(d) BY <1>5, <1>11, <2>1 DEF Converses, TurnIsCurrent
  <2>4. m = Current /\ ~ HasEnd(d) BY <1>8, <2>1
  <2>5. Hears(s)'
    <3>1. CASE phase = "pending"
      <4>1. TellsBefore(d, m) BY <1>5, <1>11, <2>4, <3>1 DEF Converses, Hears, Current
      <4>2. TellsBefore(Append(d, x), m) BY <1>4, <2>2, <2>3, <2>4, <3>1, <4>1, AppendBefore DEF InOrder
      <4> QED BY <1>3, <1>6, <1>13, <2>4, <3>1, <4>2 DEF Hears, Current, request
    <3>2. CASE phase # "pending"
      <4>1. TellsAfter(d, m) BY <1>5, <1>11, <2>4, <3>2 DEF Converses, Hears, Current
      <4>2. TellsAfter(Append(d, x), m) BY <1>4, <2>2, <2>4, <4>1, AppendAfter
      <4> QED BY <1>3, <1>6, <1>13, <2>4, <3>2, <4>2 DEF Hears, Current, request
    <3> QED BY <3>1, <3>2
  <2> QED BY <1>7, <2>1, <2>2, <2>3, <2>4, <2>5
\* It goes on, or it ends.
<1>14. ASSUME At(s, "streaming"), NEW x \in ServerEvents, Send(s, x), ~ IsEnd(x), x.type \in NodeEvents,
              x.response = m,
              NEW n \in {"running", "over"}, turn' = [turn EXCEPT ![s].node = n]
       PROVE  /\ Hears(s)' /\ CreationIsCurrent(s)' /\ TurnIsCurrent(s)' /\ CurrentIsUnderWay(s)' /\ OddIsIgnored(s)'
              /\ Generating(s)' /\ ~ Completes(down'[s]) /\ turn'[s].node = n
  <2>1. /\ Hears(s)' /\ Generating(s) /\ Talk(x) /\ ~ IsStart(x) /\ ~ HasEnd(d) /\ ~ Completes(d)
        /\ phase = "pending" => HasStart(d)
    BY <1>13, <1>14
  <2>2. /\ turn'[s].id = m /\ turn'[s].stage = "streaming" /\ turn'[s].node = n
    BY <1>2, <1>4, <1>11, <1>14 DEF At, Turns
  <2>3. Generating(s)'
    <3>1. turn'[s] = [turn[s] EXCEPT !.node = n] BY <1>4, <1>14
    <3>2. turn'[s] \in Turns BY <1>2, <3>1 DEF Turns
    <3> QED BY <2>2, <3>2 DEF Generating
  <2>4. TurnIsCurrent(s)' BY <1>3, <1>6, <1>8, <1>14, <2>1, <2>2 DEF TurnIsCurrent, Current, request
  <2>5. CurrentIsUnderWay(s)' BY <2>3 DEF CurrentIsUnderWay
  <2>6. OddIsIgnored(s)' /\ CreationIsCurrent(s)'
    BY <1>3, <1>4, <1>9, <2>1, <1>5 DEF Converses, OddIsIgnored, CreationIsCurrent, Current, request
  <2>7. ~ Completes(down'[s]) BY <1>6, <1>14, <2>1 DEF NodeEvents
  <2> QED BY <2>1, <2>2, <2>3, <2>4, <2>5, <2>6, <2>7
<1>15. ASSUME At(s, "streaming"), NEW x \in ServerEvents, Send(s, x), IsEnd(x), x.response = m,
              x.type \in TerminalEvents \/ (x.type = "error" /\ x.message = m), NEW result, EndTurn(s, result)
       PROVE  /\ Hears(s)' /\ CreationIsCurrent(s)' /\ TurnIsCurrent(s)' /\ CurrentIsUnderWay(s)' /\ OddIsIgnored(s)'
              /\ ~ Generating(s)'
  <2>1. /\ Hears(s)' /\ Generating(s) BY <1>13, <1>15
  <2>2. ~ Generating(s)'
    <3>1. turn'[s] = [turn[s] EXCEPT !.stage = "ended", !.node = None] BY <1>4, <1>15 DEF EndTurn
    <3> QED BY <1>2, <3>1 DEF Generating, Turns
  <2>3. TurnIsCurrent(s)' BY <2>2 DEF TurnIsCurrent
  <2>4. CurrentIsUnderWay(s)' BY <1>6, <1>15 DEF CurrentIsUnderWay
  <2>5. OddIsIgnored(s)' /\ CreationIsCurrent(s)'
    BY <1>3, <1>4, <1>9, <2>1, <1>5 DEF Converses, OddIsIgnored, CreationIsCurrent, Current, request
  <2> QED BY <2>1, <2>2, <2>3, <2>4, <2>5
<1>16. CASE NodeStarts(s)
  <2> DEFINE x == ServerEvent("running", None, m)
  <2>1. /\ At(s, "streaming") /\ Send(s, x) /\ turn' = [turn EXCEPT ![s].node = "running"]
    BY <1>11, <1>16 DEF NodeStarts
  <2>2. x \in ServerEvents /\ x.type = "running" /\ x.response = m
    BY <1>2, ServerEventFacts DEF ServerEvent, NodeEvents
  <2> HIDE DEF x
  <2>3. ~ IsEnd(x) BY <2>2 DEF IsEnd, TerminalEvents
  <2>4. /\ Hears(s)' /\ CreationIsCurrent(s)' /\ TurnIsCurrent(s)' /\ CurrentIsUnderWay(s)' /\ OddIsIgnored(s)'
        /\ ~ Completes(down'[s]) /\ turn'[s].node = "running"
    BY <1>14, <2>1, <2>2, <2>3 DEF NodeEvents
  <2>5. NodesAreShown(s)' BY <2>4 DEF NodesAreShown
  <2> QED BY <1>10, <2>4, <2>5 DEF Converses
<1>17. ASSUME NEW result \in {"completed", "failed"}, NodeEnds(s, result) PROVE Converses(s)'
  <2> DEFINE x == ServerEvent(result, None, m)
  <2>1. /\ At(s, "streaming") /\ Send(s, x) /\ turn' = [turn EXCEPT ![s].node = "over"]
    BY <1>11, <1>17 DEF NodeEnds
  <2>2. x \in ServerEvents /\ x.type = result /\ x.response = m
    BY <1>2, ServerEventFacts DEF ServerEvent, NodeEvents
  <2> HIDE DEF x
  <2>3. ~ IsEnd(x) /\ EndsANode(x) BY <2>2 DEF IsEnd, EndsANode, TerminalEvents
  <2>4. /\ Hears(s)' /\ CreationIsCurrent(s)' /\ TurnIsCurrent(s)' /\ CurrentIsUnderWay(s)' /\ OddIsIgnored(s)'
    BY <1>14, <2>1, <2>2, <2>3 DEF NodeEvents
  <2>5. NodesAreShown(s)' BY <1>6, <2>1, <2>2, <2>3 DEF NodesAreShown
  <2> QED BY <1>10, <2>4, <2>5 DEF Converses
<1>18. CASE ResponseCompletes(s)
  <2> DEFINE x == ServerEvent("response.completed", None, m)
  <2>1. At(s, "streaming") /\ Send(s, x) /\ turn[s].node # "running" /\ EndTurn(s, "completed")
    BY <1>11, <1>18 DEF ResponseCompletes
  <2>2. x \in ServerEvents /\ x.type = "response.completed" /\ x.response = m
    BY <1>2, ServerEventFacts DEF ServerEvent, TerminalEvents
  <2> HIDE DEF x
  <2>3. IsEnd(x) BY <2>2 DEF IsEnd, TerminalEvents
  <2>4. /\ Hears(s)' /\ CreationIsCurrent(s)' /\ TurnIsCurrent(s)' /\ CurrentIsUnderWay(s)' /\ OddIsIgnored(s)'
    BY <1>15, <2>1, <2>2, <2>3 DEF TerminalEvents
  <2>5. NodesEnd(d) /\ (phase # "pending" /\ workflow.node = "running" => EndsNode(d))
    BY <1>5, <1>11, <2>1 DEF Converses, NodesAreShown, At, Generating
  <2>6. NodesAreShown(s)' BY <1>3, <1>6, <2>1, <2>2, <2>5 DEF NodesAreShown, request
  <2> QED BY <1>10, <2>4, <2>6 DEF Converses
<1>19. CASE ResponseFails(s)
  <2> DEFINE x == ServerEvent("error", m, m)
  <2>1. At(s, "streaming") /\ Send(s, x) /\ EndTurn(s, "failed") BY <1>11, <1>19 DEF ResponseFails
  <2>2. x \in ServerEvents /\ x.type = "error" /\ x.message = m /\ x.response = m
    BY <1>2, ServerEventFacts DEF ServerEvent
  <2> HIDE DEF x
  <2>3. IsEnd(x) BY <1>2, <2>2 DEF IsEnd
  <2>4. /\ Hears(s)' /\ CreationIsCurrent(s)' /\ TurnIsCurrent(s)' /\ CurrentIsUnderWay(s)' /\ OddIsIgnored(s)'
        /\ ~ Generating(s)'
    BY <1>15, <2>1, <2>2, <2>3
  <2>5. ~ Completes(d) BY <1>13, <2>1, <2>2
  <2>6. NodesAreShown(s)' BY <1>6, <2>1, <2>2, <2>4, <2>5 DEF NodesAreShown
  <2> QED BY <1>10, <2>4, <2>6 DEF Converses
<1>20. CASE FreeSession(s)
  <2>1. /\ ~ Generating(s) /\ turn' = [turn EXCEPT ![s] = None] /\ UNCHANGED down
    BY <1>20 DEF FreeSession, At, Generating
  <2>2. ~ Generating(s)' BY <1>4, <2>1 DEF Generating
  <2> USE <1>3, <1>5, <2>1, <2>2 DEF Converses, request
  <2>3. Hears(s)' BY DEF Hears
  <2>4. CreationIsCurrent(s)' BY DEF CreationIsCurrent
  <2>5. TurnIsCurrent(s)' /\ NodesAreShown(s)' BY DEF TurnIsCurrent, NodesAreShown
  <2>6. CurrentIsUnderWay(s)' BY DEF CurrentIsUnderWay, Current
  <2>7. OddIsIgnored(s)' BY DEF OddIsIgnored
  <2> QED BY <1>10, <2>3, <2>4, <2>5, <2>6, <2>7
<1> QED BY <1>12, <1>16, <1>17, <1>18, <1>19, <1>20 DEF TurnStep

\* What is under way between the console and the handler of its current socket stays
\* true to what both are doing.
LEMMA ConsoleKeepsConversation ==
  ASSUME Typing, Typing', Connections, NumbersAreUsed, Conversation
  PROVE  /\ \A readable \in BOOLEAN : SubmitMessage(readable) => Conversation'
         /\ SubmitStop \/ NewSession \/ ClearDisplay \/ ReconnectTimerFires => Conversation'
         /\ \A s \in Sockets : SocketCloses(s) \/ MessageArrives(s) => Conversation'
<1> USE ConstantFacts
<1> USE DEF wires, handlers, connecting, past
<1>1. ASSUME NEW readable \in BOOLEAN, SubmitMessage(readable) PROVE Conversation'
  <2> SUFFICES ASSUME NEW s \in Sockets, socket' = s, link'[s] = "open" PROVE Converses(s)' BY DEF Conversation
  <2>1. socket = s /\ link[s] = "open" BY <1>1 DEF SubmitMessage
  <2> QED BY <1>1, <2>1, SubmitKeepsConverses DEF Conversation
<1>2. CASE SubmitStop
  <2> SUFFICES ASSUME NEW s \in Sockets, socket' = s, link'[s] = "open" PROVE Converses(s)' BY DEF Conversation
  <2>1. socket = s /\ link[s] = "open" BY <1>2 DEF SubmitStop
  <2> QED BY <1>2, <2>1, StopKeepsConverses DEF Conversation
<1>3. ASSUME NEW links, NEW attempts, Connect(links, attempts) PROVE Conversation'
  <2>1. socket' = opened' /\ link' = [links EXCEPT ![opened'] = "connecting"] BY <1>3 DEF Connect
  <2>2. opened' \in Sockets /\ link' \in [Sockets -> LinkStates] BY DEF Typing, ConnectingOK, WiresOK
  <2>3. link'[opened'] = "connecting" \/ opened' \notin DOMAIN links BY <2>1
  <2>4. DOMAIN links = DOMAIN link' BY <2>1
  <2>5. link'[socket'] = "connecting" BY <2>1, <2>2, <2>3, <2>4
  <2> QED BY <2>5 DEF Conversation
<1>4. CASE NewSession BY <1>3, <1>4 DEF NewSession
<1>5. CASE ClearDisplay
  <2> SUFFICES ASSUME NEW s \in Sockets, socket' = s, link'[s] = "open" PROVE Converses(s)' BY DEF Conversation
  <2>1. socket = s /\ link[s] = "open" /\ phase = "idle" /\ UNCHANGED <<up, down, turn, request>>
    BY <1>5 DEF ClearDisplay
  <2>2. IdleWith(s) BY <2>1, IdleFacts DEF Conversation
  <2>3. IdleWith(s)' BY <2>1, <2>2 DEF IdleWith, Generating, request
  <2>4. (IdleWith(s) => Converses(s))' BY IdleFacts, PTL
  <2> QED BY <2>3, <2>4
<1>6. CASE ReconnectTimerFires BY <1>3, <1>6 DEF ReconnectTimerFires
<1>7. ASSUME NEW t \in Sockets, SocketCloses(t) PROVE Conversation'
  <2> SUFFICES ASSUME NEW s \in Sockets, socket' = s, link'[s] = "open" PROVE Converses(s)' BY DEF Conversation
  <2>1. socket # t BY <1>7 DEF SocketCloses, HandleClose
  <2>2. socket = s /\ UNCHANGED <<up, down, turn, request, workflow, odd>>
    BY <1>7, <2>1 DEF SocketCloses, HandleClose
  <2>3. link[s] = "open" BY <1>7, <2>1, <2>2 DEF SocketCloses, Typing, WiresOK
  <2> QED BY <2>2, <2>3, ConversesStays DEF Conversation
<1>8. ASSUME NEW t \in Sockets, MessageArrives(t) PROVE Conversation'
  <2> SUFFICES ASSUME NEW s \in Sockets, socket' = s, link'[s] = "open" PROVE Converses(s)' BY DEF Conversation
  <2>1. UNCHANGED <<link, up, turn, odd>> /\ link[s] = "open" BY <1>8 DEF MessageArrives
  <2>2. socket = s
    BY <1>8 DEF MessageArrives, HandleEvent, HandleReady, HandleStarted, HandleNode, HandleTerminal, HandleError
  <2>3. Converses(s) BY <2>1, <2>2 DEF Conversation
  <2>4. CASE s = t
    <3>1. /\ HandleEvent(Head(down[s]))
          /\ IsLate(Head(down[s])) => Head(down[s]).response # activeResponseId
      BY <1>8, <2>2, <2>4, CurrentHears
    <3> QED BY <1>8, <2>2, <2>3, <2>4, <3>1, ArrivalKeepsConverses
  <2>5. CASE s # t
    <3>1. down'[s] = down[s] BY <1>8, <2>5, ArrivalFacts
    <3>2. UNCHANGED <<request, workflow>> BY <1>8, <2>2, <2>5 DEF MessageArrives
    <3> QED BY <2>1, <2>3, <3>1, <3>2, ConversesStays
  <2> QED BY <2>4, <2>5
<1> QED BY <1>1, <1>2, <1>4, <1>5, <1>6, <1>7, <1>8

LEMMA ServerKeepsConversation ==
  ASSUME Typing, Typing', Connections, Open, Conversation, NEW t \in Sockets,
         AcceptSocket(t) \/ RefuseSocket(t) \/ LinkBreaks(t) \/ Receive(t) \/ TurnStep(t)
  PROVE  Conversation'
<1> SUFFICES ASSUME NEW s \in Sockets, socket' = s, link'[s] = "open" PROVE Converses(s)' BY DEF Conversation
<1> USE ConstantFacts
<1>1. UNCHANGED <<socket, request, workflow, odd>>
  <2>1. CASE AcceptSocket(t) \/ RefuseSocket(t) \/ LinkBreaks(t)
    BY <2>1 DEF AcceptSocket, RefuseSocket, LinkBreaks, connecting, past
  <2>2. CASE Receive(t)
    BY <2>2 DEF Receive, RejectUnreadable, RejectBusy, StartTurn, CancelTurn, CancelNotFound, HandlerEnds,
       Answered, connecting, past
  <2>3. CASE TurnStep(t)
    BY <2>3 DEF TurnStep, ResponseStarts, NodeStarts, NodeEnds, ResponseCompletes, ResponseFails, FreeSession,
       ServerOnly, connecting
  <2> QED BY <2>1, <2>2, <2>3
<1>2. /\ link \in [Sockets -> LinkStates] /\ up \in [Sockets -> Seq(ClientEvents)]
      /\ down \in [Sockets -> Seq(ServerEvents)] /\ turn \in [Sockets -> Turns \union {None}]
  BY DEF Typing, WiresOK, HandlersOK
\* Another socket is touched.
<1>3. CASE s # t
  <2>1. link[s] = "open" /\ up'[s] = up[s] /\ down'[s] = down[s] /\ turn'[s] = turn[s]
    <3>1. CASE AcceptSocket(t) \/ RefuseSocket(t) \/ LinkBreaks(t)
      BY <1>2, <1>3, <3>1 DEF AcceptSocket, RefuseSocket, LinkBreaks, handlers
    <3>2. CASE HandlerEnds(t) BY <1>2, <1>3, <3>2 DEF HandlerEnds, wires
    <3>3. CASE Receive(t) /\ ~ HandlerEnds(t)
      <4>1. PICK type : Received(t, type) /\ Answered(t)
        BY <3>3 DEF Receive, RejectUnreadable, RejectBusy, StartTurn, CancelTurn, CancelNotFound, Readable
      <4>2. up'[s] = up[s] /\ link' = link BY <1>3, <4>1, AnsweredFacts DEF Answered
      <4>3. turn'[s] = turn[s] /\ down'[s] = down[s]
        BY <1>2, <1>3, <3>3 DEF Receive, RejectUnreadable, RejectBusy, StartTurn, CancelTurn, CancelNotFound, Send
      <4> QED BY <4>2, <4>3
    <3>4. CASE TurnStep(t)
      <4>1. ServerOnly
        BY <3>4 DEF TurnStep, ResponseStarts, NodeStarts, NodeEnds, ResponseCompletes, ResponseFails, FreeSession
      <4>2. turn'[s] = turn[s]
        BY <1>2, <1>3, <3>4 DEF TurnStep, ResponseStarts, NodeStarts, NodeEnds, ResponseCompletes, ResponseFails,
           FreeSession, EndTurn
      <4>3. down'[s] = down[s]
        BY <1>2, <1>3, <3>4 DEF TurnStep, ResponseStarts, NodeStarts, NodeEnds, ResponseCompletes, ResponseFails,
           FreeSession, Send
      <4> QED BY <4>1, <4>2, <4>3 DEF ServerOnly
    <3> QED BY <3>1, <3>2, <3>3, <3>4
  <2> QED BY <1>1, <2>1, ConversesStays DEF Conversation
<1>4. CASE s = t
  <2>1. CASE AcceptSocket(t)
    <3> DEFINE e == ServerEvent("conversation.ready", None, None)
    <3>1. /\ phase' = "idle" /\ up'[s] = <<>> /\ turn'[s] = None
          /\ down'[s] = <<e>>
      BY <1>1, <1>2, <1>4, <2>1 DEF AcceptSocket, Connections, IdleUnlessConnected, FreshSockets, request
    <3>2. Range(<<e>>) = {e} BY DEF Range
    <3>3. ~ Talk(e) BY DEF ServerEvent, Talk, IsStart, IsEnd, NodeEvents, TerminalEvents
    <3> HIDE DEF e
    <3>4. IdleWith(s)' BY <3>1, <3>2, <3>3, EmptyFacts DEF IdleWith, Silent, Generating
    <3>5. (IdleWith(s) => Converses(s))' BY IdleFacts, PTL
    <3> QED BY <3>4, <3>5
  <2>2. CASE RefuseSocket(t) \/ LinkBreaks(t) BY <1>2, <1>4, <2>2 DEF RefuseSocket, LinkBreaks
  <2>3. CASE Receive(t)
    <3>1. link[s] = "open"
      BY <1>4, <2>3 DEF Receive, RejectUnreadable, RejectBusy, StartTurn, CancelTurn, CancelNotFound,
         HandlerEnds, Answered, wires
    <3> QED BY <1>1, <1>4, <2>3, <3>1, ReceiveKeepsConverses DEF Conversation
  <2>4. CASE TurnStep(t)
    <3>1. link[s] = "open"
      BY <1>4, <2>4 DEF TurnStep, ResponseStarts, NodeStarts, NodeEnds, ResponseCompletes, ResponseFails,
         FreeSession, ServerOnly
    <3> QED BY <1>1, <1>4, <2>4, <3>1, TurnKeepsConverses DEF Conversation
  <2> QED BY <1>4, <2>1, <2>2, <2>3, <2>4
<1> QED BY <1>3, <1>4

-----------------------------------------------------------------------------
(* The theorems.                                                           *)

LEMMA InvInitially == Init => Inv
<1> SUFFICES ASSUME Init PROVE Inv OBVIOUS
<1> USE ConstantFacts
<1> USE DEF Init
<1>1. <<>> \in Seq(ClientEvents) /\ <<>> \in Seq(ServerEvents) /\ Range(<<>>) = {} BY EmptyFacts
<1>2. Typing
  <2>1. workflow \in Views BY DEF NoWorkflow, Views, NodeStates
  <2>2. outcome \in [Messages -> NodeStates] /\ messageSequence \in 0..MaxMessages BY DEF NodeStates
  <2>3. WiresOK BY <1>1 DEF WiresOK, LinkStates
  <2>4. HandlersOK BY DEF HandlersOK
  <2>5. ConnectingOK
    <3>1. 0 \in 0..MaxReconnectAttempts OBVIOUS
    <3>2. opened \in Sockets /\ socket \in {opened, None} OBVIOUS
    <3>3. connection \in {"connecting", "ready", "offline"} OBVIOUS
    <3> QED BY <3>1, <3>2, <3>3 DEF ConnectingOK
  <2>6. RequestOK BY DEF RequestOK
  <2> QED BY <2>1, <2>2, <2>3, <2>4, <2>5, <2>6 DEF Typing, PastOK
<1>3. Connections
  BY DEF Connections, LostSocketIsRetried, NoTimerWhileConnected, IdleUnlessConnected, FreshSockets, Sockets
<1>4. \A s \in Sockets : ~ Generating(s) /\ up[s] = <<>> /\ down[s] = <<>> /\ Len(up[s]) = 0
  BY EmptyFacts DEF Generating
<1>5. Open BY <1>4 DEF Open, OneCreation, CreationsAreOpen, TurnsAreOpen
<1>6. NumbersAreUsed /\ EndsAreTrue BY <1>1 DEF NumbersAreUsed, EndsAreTrue
<1>7. Conversation BY DEF Conversation
<1>8. View BY DEF View, WorkflowIsTrue, NoWorkflow
<1> QED BY <1>2, <1>3, <1>5, <1>6, <1>7, <1>8 DEF Inv

LEMMA InvStays == Inv /\ [Next]_vars => Inv'
<1> SUFFICES ASSUME Inv, [Next]_vars PROVE Inv' OBVIOUS
<1> USE DEF Inv
<1>1. ASSUME Typing' /\ Connections' /\ Open' /\ NumbersAreUsed' /\ EndsAreTrue' /\ Conversation' /\ View'
      PROVE  Inv'
  BY <1>1
<1>2. CASE UNCHANGED vars
  <2>1. UNCHANGED <<link, up, down, turn, served, socket, opened, connection, reconnectAttempts, timer,
                    intentionalClose, phase, pendingMessageId, activeResponseId, messageSequence, workflow,
                    odd, outcome>>
    BY <1>2 DEF vars, wires, handlers, connecting, request, past
  <2>2. Typing' BY <2>1 DEF Typing, WiresOK, HandlersOK, ConnectingOK, RequestOK, PastOK
  <2>3. Connections'
    BY <2>1 DEF Connections, LostSocketIsRetried, NoTimerWhileConnected, IdleUnlessConnected, FreshSockets
  <2>4. Open' BY <2>1 DEF Open, OneCreation, CreationsAreOpen, TurnsAreOpen, Generating, Creates
  <2>5. NumbersAreUsed' /\ EndsAreTrue' BY <2>1 DEF NumbersAreUsed, EndsAreTrue
  <2>6. Conversation' BY <2>1, ConversesStays DEF Conversation, request
  <2>7. View' BY <2>1 DEF View, WorkflowIsTrue
  <2> QED BY <1>1, <2>2, <2>3, <2>4, <2>5, <2>6, <2>7
<1>3. ASSUME NEW readable \in BOOLEAN, SubmitMessage(readable) PROVE Inv'
  <2>1. Typing' BY <1>3, ConsoleKeepsTypes
  <2>2. Connections' BY <1>3, ConsoleKeepsConnections
  <2>3. Open' BY <1>3, SubmitKeepsOpen
  <2>4. NumbersAreUsed' /\ EndsAreTrue' BY <1>3, ConsoleKeepsNumbers
  <2>5. Conversation' BY <1>3, <2>1, ConsoleKeepsConversation
  <2>6. View' BY <1>3, <2>1, ConsoleKeepsView
  <2> QED BY <1>1, <2>1, <2>2, <2>3, <2>4, <2>5, <2>6
<1>4. CASE SubmitStop \/ NewSession \/ ClearDisplay \/ ReconnectTimerFires
  <2>1. Typing' BY <1>4, ConsoleKeepsTypes
  <2>2. Connections' BY <1>4, ConsoleKeepsConnections
  <2>3. Open' BY <1>4, <2>1, ConsoleKeepsOpen
  <2>4. NumbersAreUsed' /\ EndsAreTrue' BY <1>4, ConsoleKeepsNumbers
  <2>5. Conversation' BY <1>4, <2>1, ConsoleKeepsConversation
  <2>6. View' BY <1>4, <2>1, ConsoleKeepsView
  <2> QED BY <1>1, <2>1, <2>2, <2>3, <2>4, <2>5, <2>6
<1>5. ASSUME NEW s \in Sockets, SocketCloses(s) \/ MessageArrives(s) PROVE Inv'
  <2>1. Typing' BY <1>5, ConsoleKeepsTypes
  <2>2. Connections' BY <1>5, ConsoleKeepsConnections
  <2>3. Open' BY <1>5, <2>1, ConsoleKeepsOpen
  <2>4. NumbersAreUsed' /\ EndsAreTrue' BY <1>5, ConsoleKeepsNumbers
  <2>5. Conversation' BY <1>5, <2>1, ConsoleKeepsConversation
  <2>6. View' BY <1>5, <2>1, ConsoleKeepsView
  <2> QED BY <1>1, <2>1, <2>2, <2>3, <2>4, <2>5, <2>6
<1>6. ASSUME NEW s \in Sockets,
             AcceptSocket(s) \/ RefuseSocket(s) \/ LinkBreaks(s) \/ Receive(s) \/ TurnStep(s)
      PROVE  Inv'
  <2>1. Typing' BY <1>6, ServerKeepsTypes
  <2>2. Connections' BY <1>6, ServerKeepsConnections
  <2>3. Open' BY <1>6, <2>1, ServerKeepsOpen
  <2>4. TurnsAreOpen BY DEF Open
  <2>5. NumbersAreUsed' /\ EndsAreTrue' BY <1>6, <2>4, ServerKeepsNumbers
  <2>6. Conversation' BY <1>6, <2>1, ServerKeepsConversation
  <2>7. View' BY <1>6, <2>4, ServerKeepsView
  <2> QED BY <1>1, <2>1, <2>2, <2>3, <2>5, <2>6, <2>7
<1> QED BY <1>2, <1>3, <1>4, <1>5, <1>6 DEF Next, Rests

\* The inductive invariant: what is under way both ways is about the message the console
\* waits for, each number is with one handler, and the view shows the active response.
THEOREM ConsoleInvariant == Spec => []Inv
  BY InvInitially, InvStays, PTL DEF Spec

\* Types, of the console (web/app.js), the connection and its handler.
THEOREM TypeCorrect == Spec => []TypeOK
<1>1. Inv => TypeOK BY TypingIsTypeOK DEF Inv
<1> QED BY <1>1, ConsoleInvariant, PTL

\* app.js: a lost connection is tried again until MaxReconnectAttempts failed in a row.
THEOREM LostSocketsAreRetried == Spec => []LostSocketIsRetried
<1>1. Inv => LostSocketIsRetried BY DEF Inv, Connections
<1> QED BY <1>1, ConsoleInvariant, PTL

\* workflow.js: the view is live while its response is, and then says how the server
\* ended it, or that the connection was lost.
THEOREM ViewIsTrue == Spec => []WorkflowIsTrue
<1>1. Inv => WorkflowIsTrue BY DEF Inv, View
<1> QED BY <1>1, ConsoleInvariant, PTL

\* app.js and websocket.py: the console waits for exactly the message whose answer is
\* under way, whatever answers race a Stop, a New session or a reconnection.
THEOREM WaitsForWhatIsUnderWay == Spec => []AwaitsWhatIsUnderWay
<1>1. ASSUME Inv, socket # None, link[socket] = "open", pendingMessageId \notin odd
      PROVE  Awaited(socket) = {m \in Messages : m = pendingMessageId \/ m = activeResponseId}
  <2> USE ConstantFacts
  <2> DEFINE s == socket
             waiting == {m \in Messages : m = pendingMessageId \/ m = activeResponseId}
  <2>1. s \in Sockets /\ Typing /\ Converses(s) BY <1>1 DEF Inv, Typing, ConnectingOK, Conversation
  <2>2. /\ pendingMessageId \in Messages \union {None} /\ (pendingMessageId # None <=> phase = "pending")
        /\ activeResponseId \in Messages \union {None}
        /\ activeResponseId # None <=> phase \in {"streaming", "cancelling"}
        /\ down[s] \in Seq(ServerEvents) /\ up[s] \in Seq(ClientEvents)
    BY <2>1 DEF Typing, WiresOK, RequestOK
  <2>3. \A m \in Messages : m \in waiting <=> m = Current BY <2>2 DEF Current
  <2>4. ASSUME NEW e \in Range(down[s]), IsEnd(e)
        PROVE  /\ e.type \in TerminalEvents => e.response = Current
               /\ e.type = "error" => e.message = Current
    <3>1. e \in ServerEvents BY <2>2, RangeIsElements
    <3>2. WellFormed(e) BY <3>1, EventFacts
    <3>3. Talk(e) BY <2>4 DEF Talk
    <3>4. TellsOf(down[s], Current) BY <2>1 DEF Converses, Hears, TellsBefore, TellsAfter, Current
    <3>5. Subject(e) = Current BY <3>3, <3>4 DEF TellsOf
    <3> QED BY <2>4, <3>2, <3>5 DEF Subject, WellFormed, IsEnd, TerminalEvents
  <2>5. ASSUME NEW m \in Messages, m \in Awaited(s) PROVE m \in waiting
    <3>1. CASE ClientEvent("message.create", m) \in Range(up[s])
      <4>1. m = pendingMessageId BY <2>1, <3>1 DEF Converses, CreationIsCurrent, ClientEvent
      <4> QED BY <4>1
    <3>2. CASE Generates(s, m) /\ turn[s].stage # "ended"
      BY <2>1, <2>3, <3>2 DEF Generates, Generating, Converses, TurnIsCurrent
    <3>3. ASSUME NEW e \in Range(down[s]), e.type = "error", e.message = m PROVE m \in waiting
      BY <2>3, <2>4, <3>3 DEF IsEnd
    <3>4. ASSUME NEW e \in Range(down[s]), e.type \in {"response.completed", "response.cancelled"}, e.response = m
          PROVE  m \in waiting
      BY <2>3, <2>4, <3>4 DEF IsEnd, TerminalEvents
    <3> QED BY <2>5, <3>1, <3>2, <3>3, <3>4 DEF Awaited
  <2>6. ASSUME NEW m \in Messages, m \in waiting PROVE m \in Awaited(s)
    <3>1. m = Current /\ Current # None BY <2>3, <2>6
    <3>2. Current \notin odd BY <1>1, <2>1 DEF Current, Converses, OddIsIgnored
    <3>3. CASE \E e \in Range(up[s]) : e.type = "message.create"
      <4>1. PICK e \in Range(up[s]) : e.type = "message.create" BY <3>3
      <4>2. e.id = m BY <2>1, <3>1, <4>1 DEF Converses, CreationIsCurrent, Current
      <4>3. e \in ClientEvents BY <2>2, RangeIsElements
      <4>4. e = ClientEvent("message.create", m) BY <4>1, <4>2, <4>3 DEF ClientEvents, ClientEvent
      <4> QED BY <4>1, <4>4 DEF Awaited
    <3>4. CASE Generating(s)
      BY <2>1, <3>1, <3>4 DEF Awaited, Generates, Generating, Converses, TurnIsCurrent
    <3>5. CASE HasEnd(down[s])
      <4>1. PICK e \in Range(down[s]) : IsEnd(e) BY <3>5 DEF HasEnd
      <4> QED BY <2>4, <3>1, <4>1 DEF Awaited, IsEnd, TerminalEvents
    <3> QED BY <2>1, <3>1, <3>2, <3>3, <3>4, <3>5 DEF Converses, CurrentIsUnderWay
  <2> QED BY <2>5, <2>6 DEF Awaited
<1>2. Inv => AwaitsWhatIsUnderWay BY <1>1 DEF AwaitsWhatIsUnderWay
<1> QED BY <1>2, ConsoleInvariant, PTL

\* workflow.js and the WorkflowEventTranslator: a response is shown as completed only
\* when each of its nodes was ended by an event of its own.
THEOREM NodesEndFirst == Spec => NodesEndBeforeCompletion
<1>1. ASSUME Inv, [Next]_vars, workflow'.terminal = "completed", workflow.terminal # "completed"
      PROVE  workflow.node # "running"
  <2> USE ConstantFacts
  <2> USE DEF wires, handlers, connecting, request, past
  <2>1. workflow \in Views BY <1>1 DEF Inv, Typing
  <2>2. ASSUME NEW r PROVE Finished(r, "interrupted").terminal \in {"interrupted", workflow.terminal}
    BY <2>1 DEF Finished, Views
  <2>3. PICK s \in Sockets : MessageArrives(s)
    <3>1. ~ UNCHANGED workflow BY <1>1
    <3>2. NoWorkflow.terminal # "completed" BY DEF NoWorkflow
    <3>3. \A s \in Sockets : ~ SocketCloses(s)
      BY <1>1, <2>2, <3>1 DEF SocketCloses, HandleClose
    <3>4. ~ (SubmitStop \/ NewSession \/ ClearDisplay \/ ReconnectTimerFires \/ Rests)
      BY <1>1, <3>1, <3>2 DEF SubmitStop, NewSession, ClearDisplay, ReconnectTimerFires, Rests, vars
    <3>5. \A readable \in BOOLEAN : ~ SubmitMessage(readable) BY <3>1 DEF SubmitMessage
    <3>6. \A s \in Sockets : ~ (AcceptSocket(s) \/ RefuseSocket(s) \/ LinkBreaks(s))
      BY <3>1 DEF AcceptSocket, RefuseSocket, LinkBreaks
    <3>7. \A s \in Sockets : ~ Receive(s)
      BY <3>1 DEF Receive, RejectUnreadable, RejectBusy, StartTurn, CancelTurn, CancelNotFound, HandlerEnds, Answered
    <3>8. \A s \in Sockets : ~ TurnStep(s)
      BY <3>1 DEF TurnStep, ResponseStarts, NodeStarts, NodeEnds, ResponseCompletes, ResponseFails, FreeSession,
         ServerOnly
    <3> QED BY <1>1, <3>1, <3>3, <3>4, <3>5, <3>6, <3>7, <3>8 DEF Next, vars
  <2> DEFINE d == down[s]
             e == Head(d)
  <2>4. socket = s BY <1>1, <2>3 DEF MessageArrives
  <2>5. HandleEvent(e) /\ Converses(s) BY <1>1, <2>3, <2>4, CurrentHears DEF Inv
  <2>6. d \in Seq(ServerEvents) /\ d # <<>> /\ e \in ServerEvents BY <1>1, <2>3, ArrivalFacts DEF Inv
  <2> HIDE DEF e
  <2>7. e.type = "response.completed" /\ e.response = activeResponseId
    <3>1. ASSUME NEW r PROVE Finished(r, "failed").terminal \in {"failed", workflow.terminal}
                             /\ Finished(r, "cancelled").terminal \in {"cancelled", workflow.terminal}
      BY <2>1 DEF Finished, Views
    <3>2. ~ HandleError(e) BY <1>1, <3>1 DEF HandleError
    <3>3. ~ HandleNode(e) BY <1>1, <2>1 DEF HandleNode, Views
    <3>4. ~ HandleReady(e) /\ ~ HandleStarted(e) BY <1>1 DEF HandleReady, HandleStarted, NoWorkflow
    <3>5. HandleTerminal(e) BY <2>5, <3>2, <3>3, <3>4 DEF HandleEvent
    <3> QED BY <1>1, <3>1, <3>5 DEF HandleTerminal
  <2>8. e.response # None BY <2>6, <2>7, EventFacts DEF WellFormed, TerminalEvents
  <2>9. phase # "pending" BY <1>1, <2>7, <2>8 DEF Inv, Typing, RequestOK
  <2>10. IsEnd(e) /\ ~ EndsANode(e) BY <2>7 DEF IsEnd, TerminalEvents, EndsANode
  <2>11. Completes(d) BY <2>6, <2>7, TailSays DEF e
  <2>12. workflow.node = "running" => EndsNode(d) BY <2>5, <2>9, <2>11 DEF Converses, NodesAreShown
  <2>13. Silent(Tail(d))
    <3>1. TellsAfter(d, activeResponseId) BY <2>5, <2>9 DEF Converses, Hears
    <3> QED BY <2>6, <2>10, <3>1, TailAfter DEF e
  <2>14. Tail(d) \in Seq(ServerEvents) BY <2>6, TailFacts
  <2>15. ~ EndsNode(Tail(d)) BY <2>13, <2>14, TalkFacts
  <2> QED BY <2>6, <2>10, <2>12, <2>15, TailSays DEF e
<1>2. Inv /\ [Next]_vars =>
        [workflow'.terminal = "completed" /\ workflow.terminal # "completed" => workflow.node # "running"]_vars
  BY <1>1
<1> QED BY <1>2, ConsoleInvariant, PTL DEF Spec, NodesEndBeforeCompletion

=====
