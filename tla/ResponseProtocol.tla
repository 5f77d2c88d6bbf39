--------------------------- MODULE ResponseProtocol ---------------------------
(***************************************************************************)
(* What a conversation session promises to the client of its connection,   *)
(* without tasks, cancellations or awaits: one turn at a time, and in each *)
(* turn one event offered to the connection at a time, in the order        *)
(*     started  delta*  (completed | error | cancelled)                    *)
(* where a turn may stop early, and a cancelled turn may never have        *)
(* started.  Once the session has hung up it offers nothing any more.      *)
(***************************************************************************)
EXTENDS Naturals, Sequences

CONSTANTS Responses, None

VARIABLES
  turn,    \* the response being produced, or None
  past,    \* the responses whose turn has begun
  hungUp,  \* the session is closed
  offer,   \* the event offered to the connection and not yet taken, or None
  said     \* the events of each response the connection has taken

protocolVars == <<turn, past, hungUp, offer, said>>

Final == {"completed", "error", "cancelled"}

Ended(s) == s # <<>> /\ s[Len(s)] \in Final

\* Event k may follow the events s of its response.
MayFollow(s, k) ==
  /\ ~Ended(s)
  /\ k = "started" => s = <<>>
  /\ k \in {"delta", "completed", "error"} => s # <<>>

Init ==
  /\ turn = None
  /\ past = {}
  /\ hungUp = FALSE
  /\ offer = None
  /\ said = [r \in Responses |-> <<>>]

Begin(r) ==
  /\ turn = None
  /\ ~hungUp
  /\ r \notin past
  /\ turn' = r
  /\ past' = past \union {r}
  /\ UNCHANGED <<hungUp, offer, said>>

Offer(k) ==
  /\ turn # None
  /\ ~hungUp
  /\ offer = None
  /\ MayFollow(said[turn], k)
  /\ offer' = k
  /\ UNCHANGED <<turn, past, hungUp, said>>

Take ==
  /\ offer # None
  /\ said' = [said EXCEPT ![turn] = Append(@, offer)]
  /\ offer' = None
  /\ UNCHANGED <<turn, past, hungUp>>

\* The connection fails to take the offer, or the offer is withdrawn.
Withdraw ==
  /\ offer # None
  /\ offer' = None
  /\ UNCHANGED <<turn, past, hungUp, said>>

\* The turn is over; what it still offered is withdrawn.
Finish ==
  /\ turn # None
  /\ turn' = None
  /\ offer' = None
  /\ UNCHANGED <<past, hungUp, said>>

HangUp ==
  /\ hungUp' = TRUE
  /\ UNCHANGED <<turn, past, offer, said>>

Next ==
  \/ \E r \in Responses : Begin(r)
  \/ \E k \in {"started", "delta"} \union Final : Offer(k)
  \/ Take \/ Withdraw \/ Finish \/ HangUp

Spec == Init /\ [][Next]_protocolVars
=============================================================================
