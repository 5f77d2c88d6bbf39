----------------------- MODULE ClientRepositoryProofs -----------------------
(***************************************************************************)
(* ClientRepository for any clients, keys and requests: every client keeps *)
(* one key, and a key that is not current, or whose client was disabled    *)
(* before, admits nobody.                                                  *)
(*                                                                         *)
(* What a request has read stays true while it holds the row's lock: the   *)
(* key that authenticate() checked is not revoked, and the keys rotate()   *)
(* selected are the client's current ones.                                 *)
(***************************************************************************)
EXTENDS ClientRepository, TLAPS

Locked == {"readKeys", "lockKeys", "commit"}
Makes(r) == Is(r, "create") \/ Is(r, "rotate")

\* What a request asked for, and the step it is at.
AskInv(r) ==
  /\ ask[r] \in Asks
  /\ at[r] \in {"lockKey", "readClient"} => Is(r, "authenticate")
  /\ at[r] \in {"readKeys", "lockKeys"} => Is(r, "rotate")
  /\ Makes(r) => ask[r].key \in Keys /\ keys[ask[r].key] = None

\* What holds of the client's row while it is locked.
ClientInv(r) ==
  at[r] \in Locked =>
    /\ clientLock[ask[r].client] = r
    /\ Is(r, "create") <=> clients[ask[r].client] = None

\* What authenticate() knows of its key.
KeyInv(r) ==
  Is(r, "authenticate") =>
    /\ ask[r].key \in Keys /\ keys[ask[r].key] \in KeyRows
    /\ keys[ask[r].key].client = ask[r].client
    /\ at[r] # "lockKey" => keyLock[ask[r].key] = r /\ ~ keys[ask[r].key].revoked

\* What rotate() knows of the keys it will revoke.
FoundInv(r) ==
  Is(r, "rotate") =>
    /\ at[r] \in {"lockKeys", "commit"} => found[r] = Current(ask[r].client)
    /\ at[r] = "commit" => \A k \in found[r] : keyLock[k] = r

RequestInv == \A r \in Requests : at[r] \in InFlight => AskInv(r) /\ ClientInv(r) /\ KeyInv(r) /\ FoundInv(r)

\* No two requests make the same key.
NewKeysDiffer ==
  \A q, r \in Requests :
    q # r /\ at[q] \in InFlight /\ at[r] \in InFlight /\ Makes(q) /\ Makes(r) => ask[q].key # ask[r].key

\* A key belongs to a client that exists.
OwnersExist == \A k \in Keys : keys[k] # None => clients[keys[k].client] # None

ShutOutInv ==
  \A r \in shutOut :
    /\ at[r] \in {"lockKey", "readClient"} \union Outcomes
    /\ at[r] # "admitted"
    /\ at[r] \in InFlight => clients[ask[r].client] = FALSE

IInv == TypeOK /\ RequestInv /\ NewKeysDiffer /\ OwnersExist /\ OneKeyPerClient /\ ShutOutInv

-----------------------------------------------------------------------------
\* The tables as earlier days left them, with no request under way.
LEMMA InitIInv == Init => IInv
  <1> SUFFICES ASSUME Init PROVE IInv
    OBVIOUS
  <1> USE ConstantsAssumption
  <1>1. TypeOK
    <2>1. keys \in [Keys -> KeyRows \union {None}]
      <3>1. ASSUME NEW k \in Keys, \E c \in Clients : FirstKey[c] = k
            PROVE  (CHOOSE c \in Clients : FirstKey[c] = k) \in Clients
        BY <3>1
      <3> QED
        BY <3>1 DEF Init, KeyRows
    <2> QED
      BY <2>1 DEF Init, TypeOK
  <1>2. \A r \in Requests : at[r] \notin InFlight
    BY DEF Init, InFlight
  <1>3. \A c \in Clients, k \in Keys : k \in Current(c) <=> FirstKey[c] = k
    <2> SUFFICES ASSUME NEW c \in Clients, NEW k \in Keys PROVE k \in Current(c) <=> FirstKey[c] = k
      OBVIOUS
    <2>1. CASE \E d \in Clients : FirstKey[d] = k
      <3> DEFINE d == CHOOSE d \in Clients : FirstKey[d] = k
      <3>1. d \in Clients /\ FirstKey[d] = k
        BY <2>1
      <3>2. keys[k] = [client |-> d, revoked |-> FALSE, dated |-> FALSE]
        BY <2>1 DEF Init
      <3>3. FirstKey[c] = k <=> c = d
        BY <3>1
      <3> HIDE DEF d
      <3>4. keys[k] \in KeyRows
        BY <3>1, <3>2 DEF KeyRows
      <3>5. keys[k] # None
        BY <3>4
      <3> QED
        BY <3>2, <3>3, <3>5 DEF Current
    <2>2. CASE ~ \E d \in Clients : FirstKey[d] = k
      BY <2>2 DEF Init, Current
    <2> QED
      BY <2>1, <2>2
  <1>4. OneKeyPerClient
    <2> SUFFICES ASSUME NEW c \in Clients
                 PROVE  IF clients[c] = None THEN Current(c) = {} ELSE \E k \in Keys : Current(c) = {k}
      BY DEF OneKeyPerClient
    <2>1. Current(c) \subseteq Keys
      BY DEF Current
    <2>2. clients[c] = None <=> FirstKey[c] = None
      BY DEF Init
    <2>3. CASE FirstKey[c] = None
      BY <1>3, <2>1, <2>2, <2>3
    <2>4. CASE FirstKey[c] # None
      <3>1. FirstKey[c] \in Keys /\ Current(c) = {FirstKey[c]}
        BY <1>3, <2>1, <2>4
      <3> QED
        BY <3>1, <2>2, <2>4
    <2> QED
      BY <2>3, <2>4
  <1>5. OwnersExist
    <2> SUFFICES ASSUME NEW k \in Keys, keys[k] # None PROVE clients[keys[k].client] # None
      BY DEF OwnersExist
    <2>1. \E c \in Clients : FirstKey[c] = k
      BY DEF Init
    <2> DEFINE d == CHOOSE c \in Clients : FirstKey[c] = k
    <2>2. d \in Clients /\ FirstKey[d] = k
      BY <2>1
    <2>3. keys[k].client = d
      BY <2>1 DEF Init
    <2> HIDE DEF d
    <2> QED
      BY <2>2, <2>3 DEF Init
  <1> QED
    BY <1>1, <1>2, <1>4, <1>5 DEF Init, IInv, RequestInv, NewKeysDiffer, ShutOutInv

-----------------------------------------------------------------------------
(* Steps that do not touch the tables                                      *)

\* A request keeps what it knows while others change nothing but what they hold
\* themselves.
LEMMA OthersKeep ==
  ASSUME NEW q \in Requests, at[q] \in InFlight,
         AskInv(q), ClientInv(q), KeyInv(q), FoundInv(q),
         UNCHANGED tables, at'[q] = at[q], ask'[q] = ask[q], found'[q] = found[q],
         \A c \in Clients : clientLock[c] = q => clientLock'[c] = q,
         \A k \in Keys : keyLock[k] = q => keyLock'[k] = q
  PROVE  AskInv(q)' /\ ClientInv(q)' /\ KeyInv(q)' /\ FoundInv(q)'
  <1>1. \A c \in Clients : Current(c)' = Current(c)
    BY DEF tables, Current
  <1>2. ask[q].client \in Clients
    BY DEF AskInv, Asks
  <1>3. AskInv(q)'
    BY DEF AskInv, Makes, Is, tables
  <1>4. ClientInv(q)'
    BY <1>2 DEF ClientInv, Is, tables
  <1>5. KeyInv(q)'
    BY DEF KeyInv, Is, tables
  <1>6. FoundInv(q)'
    <2> SUFFICES ASSUME Is(q, "rotate")
                 PROVE  /\ at[q] \in {"lockKeys", "commit"} => found[q] = Current(ask[q].client)'
                        /\ at[q] = "commit" => \A k \in found[q] : keyLock'[k] = q
      BY DEF FoundInv, Is
    <2>1. at[q] = "commit" => found[q] \subseteq Keys
      BY DEF FoundInv, Current
    <2> QED
      BY <1>1, <1>2, <2>1 DEF FoundInv
  <1> QED
    BY <1>3, <1>4, <1>5, <1>6

\* One request moves, the tables do not: it is enough to look at this request.
LEMMA OneMoves ==
  ASSUME IInv, NEW r \in Requests, UNCHANGED <<tables, shutOut>>, TypeOK',
         \A q \in Requests \ {r} : at'[q] = at[q] /\ ask'[q] = ask[q] /\ found'[q] = found[q],
         \A c \in Clients : clientLock[c] # None /\ clientLock[c] # r => clientLock'[c] = clientLock[c],
         \A k \in Keys : keyLock[k] # None /\ keyLock[k] # r => keyLock'[k] = keyLock[k],
         at'[r] \in InFlight => AskInv(r)' /\ ClientInv(r)' /\ KeyInv(r)' /\ FoundInv(r)',
         at'[r] \in InFlight => at[r] \in InFlight /\ ask'[r] = ask[r],
         r \in shutOut => /\ at'[r] \in {"lockKey", "readClient"} \union Outcomes
                          /\ at'[r] # "admitted"
  PROVE  IInv'
  <1> USE ConstantsAssumption
  <1>1. RequestInv'
    <2> SUFFICES ASSUME NEW q \in Requests, at'[q] \in InFlight
                 PROVE  AskInv(q)' /\ ClientInv(q)' /\ KeyInv(q)' /\ FoundInv(q)'
      BY DEF RequestInv
    <2>1. CASE q = r
      BY <2>1
    <2>2. CASE q # r
      <3>1. q # None
        OBVIOUS
      <3>2. at[q] \in InFlight /\ AskInv(q) /\ ClientInv(q) /\ KeyInv(q) /\ FoundInv(q)
        BY <2>2 DEF IInv, RequestInv
      <3>3. /\ \A c \in Clients : clientLock[c] = q => clientLock'[c] = q
            /\ \A k \in Keys : keyLock[k] = q => keyLock'[k] = q
        BY <2>2, <3>1
      <3>4. at'[q] = at[q] /\ ask'[q] = ask[q] /\ found'[q] = found[q]
        BY <2>2
      <3> QED
        BY <3>2, <3>3, <3>4, OthersKeep
    <2> QED
      BY <2>1, <2>2
  <1>2. NewKeysDiffer'
    <2>1. \A q \in Requests : at'[q] \in InFlight => at[q] \in InFlight /\ ask'[q] = ask[q]
      OBVIOUS
    <2> QED
      BY <2>1 DEF IInv, NewKeysDiffer, Makes, Is
  <1>3. OwnersExist' /\ OneKeyPerClient'
    BY DEF IInv, OwnersExist, OneKeyPerClient, Current, tables
  <1>4. ShutOutInv'
    <2> SUFFICES ASSUME NEW q \in shutOut
                 PROVE  /\ at'[q] \in {"lockKey", "readClient"} \union Outcomes
                        /\ at'[q] # "admitted"
                        /\ at'[q] \in InFlight => clients'[ask'[q].client] = FALSE
      BY DEF ShutOutInv
    <2>1. q \in Requests
      BY DEF IInv, TypeOK
    <2> QED
      BY <2>1 DEF IInv, ShutOutInv, tables
  <1> QED
    BY <1>1, <1>2, <1>3, <1>4 DEF IInv

\* The end of a request that changes nothing.
LEMMA EndStep ==
  ASSUME IInv, NEW r \in Requests, NEW outcome \in Outcomes \ {"admitted"},
         End(r, outcome), UNCHANGED <<tables, shutOut>>
  PROVE  IInv'
  <1> USE ConstantsAssumption
  <1>1. TypeOK'
    BY DEF IInv, TypeOK, End, tables
  <1>2. at'[r] = outcome /\ outcome \notin InFlight
    BY DEF IInv, TypeOK, End, InFlight, Outcomes
  <1>3. \A q \in Requests \ {r} : at'[q] = at[q] /\ ask'[q] = ask[q] /\ found'[q] = found[q]
    BY DEF IInv, TypeOK, End
  <1>4. /\ \A c \in Clients : clientLock[c] # None /\ clientLock[c] # r => clientLock'[c] = clientLock[c]
        /\ \A k \in Keys : keyLock[k] # None /\ keyLock[k] # r => keyLock'[k] = keyLock[k]
    BY DEF IInv, TypeOK, End
  <1> QED
    BY <1>1, <1>2, <1>3, <1>4, OneMoves

\* A key in no row ends its request and touches nothing else.
LEMMA RefuseUnknownKeyStep ==
  ASSUME IInv, NEW r \in Requests, RefuseUnknownKey(r) PROVE IInv'
  <1> USE ConstantsAssumption
  <1>1. TypeOK'
    BY DEF IInv, TypeOK, RefuseUnknownKey, tables, locks, Outcomes
  <1>2. at'[r] = "refused"
    BY DEF IInv, TypeOK, RefuseUnknownKey
  <1>3. \A q \in Requests \ {r} : at'[q] = at[q] /\ ask'[q] = ask[q] /\ found'[q] = found[q]
    BY DEF IInv, TypeOK, RefuseUnknownKey
  <1> QED
    BY <1>1, <1>2, <1>3, OneMoves DEF RefuseUnknownKey, locks, InFlight, Outcomes

\* Of the key's row the request learns that it is not revoked; with the lock, it stays so.
LEMMA LockKeyStep ==
  ASSUME IInv, NEW r \in Requests, LockKey(r) PROVE IInv'
  <1> USE ConstantsAssumption
  <1> DEFINE k == ask[r].key
  <1>1. CASE End(r, "refused") \/ End(r, "raised")
    BY <1>1, EndStep DEF LockKey, Outcomes
  <1>2. CASE ~ (End(r, "refused") \/ End(r, "raised"))
    <2>1. at[r] = "lockKey" /\ at[r] \in InFlight
      BY DEF LockKey, InFlight
    <2>2. AskInv(r) /\ KeyInv(r) /\ Is(r, "authenticate")
      BY <2>1 DEF IInv, RequestInv, AskInv
    <2>3. k \in Keys /\ keyLock[k] = None /\ ~ keys[k].revoked
      BY <1>2, <2>2 DEF LockKey, KeyInv
    <2>4. /\ at' = [at EXCEPT ![r] = "readClient"]
          /\ keyLock' = [keyLock EXCEPT ![k] = r]
          /\ UNCHANGED <<clientLock, ask, found, tables, shutOut>>
      BY <1>2 DEF LockKey
    <2>5. TypeOK'
      BY <2>3, <2>4 DEF IInv, TypeOK, InFlight, tables
    <2>6. at'[r] = "readClient" /\ keyLock'[k] = r
      BY <2>3, <2>4 DEF IInv, TypeOK
    <2>7. AskInv(r)'
      BY <2>2, <2>4, <2>6 DEF AskInv, Makes, Is, tables
    <2>8. KeyInv(r)'
      BY <2>2, <2>3, <2>4, <2>6 DEF KeyInv, Is, tables
    <2>9. ClientInv(r)' /\ FoundInv(r)'
      BY <2>2, <2>4, <2>6 DEF ClientInv, FoundInv, Is, Locked
    <2>10. \A q \in Requests \ {r} : at'[q] = at[q] /\ ask'[q] = ask[q] /\ found'[q] = found[q]
      BY <2>4 DEF IInv, TypeOK
    <2>11. \A j \in Keys : keyLock[j] # None /\ keyLock[j] # r => keyLock'[j] = keyLock[j]
      BY <2>3, <2>4 DEF IInv, TypeOK
    <2> QED
      BY <2>1, <2>4, <2>5, <2>6, <2>7, <2>8, <2>9, <2>10, <2>11, OneMoves
  <1> QED
    BY <1>1, <1>2

\* A request that goes on has read the client as enabled, so it is not shut out.
LEMMA ReadClientStep ==
  ASSUME IInv, NEW r \in Requests, ReadClient(r) PROVE IInv'
  <1> USE ConstantsAssumption
  <1>1. CASE End(r, "refused")
    BY <1>1, EndStep DEF ReadClient, Outcomes
  <1>2. CASE ~ End(r, "refused")
    <2>1. at[r] = "readClient" /\ at[r] \in InFlight
      BY DEF ReadClient, InFlight
    <2>2. AskInv(r) /\ KeyInv(r) /\ Is(r, "authenticate")
      BY <2>1 DEF IInv, RequestInv, AskInv
    <2>3. /\ at' = [at EXCEPT ![r] = "lockClient"]
          /\ clients[ask[r].client] = TRUE
          /\ UNCHANGED <<locks, ask, found, tables, shutOut>>
      BY <1>2 DEF ReadClient
    <2>4. TypeOK'
      BY <2>3 DEF IInv, TypeOK, InFlight, tables, locks
    <2>5. at'[r] = "lockClient"
      BY <2>3 DEF IInv, TypeOK
    <2>6. AskInv(r)'
      BY <2>2, <2>3, <2>5 DEF AskInv, Makes, Is, tables
    <2>7. KeyInv(r)'
      BY <2>1, <2>2, <2>3, <2>5 DEF KeyInv, Is, tables, locks
    <2>8. ClientInv(r)' /\ FoundInv(r)'
      BY <2>2, <2>3, <2>5 DEF ClientInv, FoundInv, Is, Locked
    <2>9. \A q \in Requests \ {r} : at'[q] = at[q] /\ ask'[q] = ask[q] /\ found'[q] = found[q]
      BY <2>3 DEF IInv, TypeOK
    <2>10. r \notin shutOut
      BY <2>1, <2>3 DEF IInv, ShutOutInv
    <2> QED
      BY <2>1, <2>3, <2>4, <2>5, <2>6, <2>7, <2>8, <2>9, <2>10, OneMoves DEF locks
  <1> QED
    BY <1>1, <1>2

\* The client's row is held by one request, which knows whether it exists.
LEMMA LockClientStep ==
  ASSUME IInv, NEW r \in Requests, LockClient(r) PROVE IInv'
  <1> USE ConstantsAssumption
  <1> DEFINE c == ask[r].client
  <1>1. at[r] = "lockClient" /\ at[r] \in InFlight /\ clientLock[c] = None
    BY DEF LockClient, InFlight
  <1>2. AskInv(r) /\ KeyInv(r) /\ c \in Clients /\ ask[r] # None
    BY <1>1 DEF IInv, RequestInv, AskInv, Asks
  <1>3. CASE End(r, "conflict") \/ End(r, "absent")
    BY <1>3, EndStep DEF LockClient, Outcomes
  <1>4. CASE ~ (End(r, "conflict") \/ End(r, "absent"))
    <2>1. /\ Is(r, "create") # (clients[c] # None)
          /\ at' = [at EXCEPT ![r] = IF Is(r, "rotate") THEN "readKeys" ELSE "commit"]
          /\ clientLock' = [clientLock EXCEPT ![c] = r]
          /\ UNCHANGED <<keyLock, ask, found, tables, shutOut>>
      BY <1>4 DEF LockClient, Continue
    <2>2. Is(r, "create") <=> clients[c] = None
      BY <2>1 DEF Is
    <2>3. TypeOK'
      BY <1>2, <2>1 DEF IInv, TypeOK, InFlight, tables
    <2>4. at'[r] = (IF Is(r, "rotate") THEN "readKeys" ELSE "commit") /\ clientLock'[c] = r
      BY <1>2, <2>1 DEF IInv, TypeOK
    <2>5. AskInv(r)'
      BY <1>2, <2>1, <2>4 DEF AskInv, Makes, Is, tables
    <2>6. ClientInv(r)'
      BY <2>1, <2>2, <2>4 DEF ClientInv, Is, tables
    <2>7. KeyInv(r)'
      BY <1>1, <1>2, <2>1, <2>4 DEF KeyInv, Is, tables
    <2>8. FoundInv(r)'
      BY <2>1, <2>4 DEF FoundInv, Is
    <2>9. \A q \in Requests \ {r} : at'[q] = at[q] /\ ask'[q] = ask[q] /\ found'[q] = found[q]
      BY <2>1 DEF IInv, TypeOK
    <2>10. \A d \in Clients : clientLock[d] # None /\ clientLock[d] # r => clientLock'[d] = clientLock[d]
      BY <1>1, <1>2, <2>1 DEF IInv, TypeOK
    <2>11. r \notin shutOut
      BY <1>1 DEF IInv, ShutOutInv, Outcomes
    <2> QED
      BY <1>1, <2>1, <2>3, <2>4, <2>5, <2>6, <2>7, <2>8, <2>9, <2>10, <2>11, OneMoves
  <1> QED
    BY <1>3, <1>4

\* rotate() holds the client's row, so nobody else adds or revokes a key of that client.
LEMMA ReadKeysStep ==
  ASSUME IInv, NEW r \in Requests, ReadKeys(r) PROVE IInv'
  <1> USE ConstantsAssumption
  <1>1. at[r] = "readKeys" /\ at[r] \in InFlight
    BY DEF ReadKeys, InFlight
  <1>2. AskInv(r) /\ ClientInv(r) /\ Is(r, "rotate") /\ ask[r].client \in Clients
    BY <1>1 DEF IInv, RequestInv, AskInv, Asks
  <1>3. /\ at' = [at EXCEPT ![r] = "lockKeys"]
        /\ found' = [found EXCEPT ![r] = Current(ask[r].client)]
        /\ UNCHANGED <<tables, locks, ask, shutOut>>
    BY DEF ReadKeys
  <1>4. Current(ask[r].client) \in SUBSET Keys
    BY DEF Current
  <1>5. TypeOK'
    BY <1>3, <1>4 DEF IInv, TypeOK, InFlight, tables, locks
  <1>6. at'[r] = "lockKeys" /\ found'[r] = Current(ask[r].client)
    BY <1>3 DEF IInv, TypeOK
  <1>7. AskInv(r)'
    BY <1>2, <1>3, <1>6 DEF AskInv, Makes, Is, tables
  <1>8. ClientInv(r)' /\ KeyInv(r)'
    BY <1>1, <1>2, <1>3, <1>6 DEF ClientInv, KeyInv, Is, Locked, tables, locks
  <1>9. FoundInv(r)'
    BY <1>3, <1>6 DEF FoundInv, Current, tables
  <1>10. \A q \in Requests \ {r} : at'[q] = at[q] /\ ask'[q] = ask[q] /\ found'[q] = found[q]
    BY <1>3 DEF IInv, TypeOK
  <1>11. r \notin shutOut
    BY <1>1 DEF IInv, ShutOutInv, Outcomes
  <1> QED
    BY <1>1, <1>3, <1>5, <1>7, <1>8, <1>9, <1>10, <1>11, OneMoves DEF locks

\* The keys rotate() found are still the client's current ones when it has locked them.
LEMMA LockKeysStep ==
  ASSUME IInv, NEW r \in Requests, LockKeys(r) PROVE IInv'
  <1> USE ConstantsAssumption
  <1>1. at[r] = "lockKeys" /\ at[r] \in InFlight
    BY DEF LockKeys, InFlight
  <1>2. AskInv(r) /\ ClientInv(r) /\ FoundInv(r) /\ Is(r, "rotate") /\ ask[r].client \in Clients
    BY <1>1 DEF IInv, RequestInv, AskInv, Asks
  <1>3. /\ at' = [at EXCEPT ![r] = "commit"]
        /\ \A k \in found[r] : keyLock[k] = None
        /\ keyLock' = [k \in Keys |-> IF k \in found[r] THEN r ELSE keyLock[k]]
        /\ UNCHANGED <<tables, clientLock, ask, found, shutOut>>
    BY DEF LockKeys
  <1>4. found[r] = Current(ask[r].client) /\ found[r] \subseteq Keys
    BY <1>1, <1>2 DEF FoundInv, Current
  <1>5. TypeOK'
    BY <1>3 DEF IInv, TypeOK, InFlight, tables
  <1>6. at'[r] = "commit" /\ \A k \in found[r] : keyLock'[k] = r
    BY <1>3, <1>4 DEF IInv, TypeOK
  <1>7. AskInv(r)'
    BY <1>2, <1>3, <1>6 DEF AskInv, Makes, Is, tables
  <1>8. ClientInv(r)' /\ KeyInv(r)'
    BY <1>1, <1>2, <1>3, <1>6 DEF ClientInv, KeyInv, Is, Locked, tables
  <1>9. FoundInv(r)'
    BY <1>3, <1>4, <1>6 DEF FoundInv, Current, tables
  <1>10. \A q \in Requests \ {r} : at'[q] = at[q] /\ ask'[q] = ask[q] /\ found'[q] = found[q]
    BY <1>3 DEF IInv, TypeOK
  <1>11. \A k \in Keys : keyLock[k] # None /\ keyLock[k] # r => keyLock'[k] = keyLock[k]
    BY <1>3
  <1>12. r \notin shutOut
    BY <1>1 DEF IInv, ShutOutInv, Outcomes
  <1> QED
    BY <1>1, <1>3, <1>5, <1>7, <1>8, <1>9, <1>10, <1>11, <1>12, OneMoves

-----------------------------------------------------------------------------
(* The beginning of a request                                              *)

\* What Begin is given by each kind of request.
Fits(r, step, kind, c, k) ==
  /\ step = "lockKey" <=> kind = "authenticate"
  /\ kind \in {"create", "rotate"} => k \in Fresh
  /\ kind = "authenticate" => k \in Keys /\ keys[k] # None /\ keys[k].client = c
  /\ shutOut' = shutOut \/ (shutOut' = shutOut \union {r} /\ kind = "authenticate" /\ clients[c] = FALSE)

\* A request that begins holds no lock; a key it generates is nobody's.
LEMMA BeginStep ==
  ASSUME IInv, NEW r \in Requests, NEW step \in {"lockKey", "lockClient"},
         NEW kind \in {"authenticate", "enable", "create", "rotate"},
         NEW c \in Clients, NEW k \in Keys \union {None}, NEW flag \in BOOLEAN,
         Begin(r, step, kind, c, k, flag), Fits(r, step, kind, c, k)
  PROVE  IInv'
  <1> USE ConstantsAssumption DEF Fits
  <1> DEFINE body == [kind |-> kind, client |-> c, key |-> k, flag |-> flag]
  <1>1. body \in Asks /\ body # None
    BY DEF Asks
  <1>2. /\ at[r] = "unsent" /\ at[r] \notin InFlight
        /\ at' = [at EXCEPT ![r] = step] /\ ask' = [ask EXCEPT ![r] = body]
        /\ UNCHANGED <<tables, locks, found>>
    BY DEF Begin, InFlight
  <1> HIDE DEF body
  <1>3. at'[r] = step /\ ask'[r] = body /\ step \in InFlight
    BY <1>2 DEF IInv, TypeOK, InFlight
  <1>4. \A q \in Requests \ {r} : at'[q] = at[q] /\ ask'[q] = ask[q] /\ found'[q] = found[q]
    BY <1>2 DEF IInv, TypeOK
  <1>5. body.kind = kind /\ body.client = c /\ body.key = k
    BY DEF body
  <1>6. TypeOK'
    BY <1>1, <1>2, <1>3 DEF IInv, TypeOK, tables, locks, InFlight
  <1>7. kind \in {"create", "rotate"} => k \in Keys /\ keys[k] = None
    BY DEF Fresh
  <1>8. RequestInv'
    <2> SUFFICES ASSUME NEW q \in Requests, at'[q] \in InFlight
                 PROVE  AskInv(q)' /\ ClientInv(q)' /\ KeyInv(q)' /\ FoundInv(q)'
      BY DEF RequestInv
    <2>1. CASE q = r
      <3>1. AskInv(r)'
        BY <1>1, <1>2, <1>3, <1>5, <1>7 DEF AskInv, Makes, Is, tables
      <3>2. KeyInv(r)'
        <4>1. kind = "authenticate" => keys[k] \in KeyRows
          BY DEF IInv, TypeOK
        <4> QED
          BY <1>1, <1>2, <1>3, <1>5, <4>1 DEF KeyInv, Is, tables
      <3>3. ClientInv(r)' /\ FoundInv(r)'
        BY <1>3 DEF ClientInv, FoundInv, Locked
      <3> QED
        BY <2>1, <3>1, <3>2, <3>3
    <2>2. CASE q # r
      <3>1. at'[q] = at[q] /\ ask'[q] = ask[q] /\ found'[q] = found[q]
        BY <1>4, <2>2
      <3>2. at[q] \in InFlight /\ AskInv(q) /\ ClientInv(q) /\ KeyInv(q) /\ FoundInv(q)
        BY <3>1 DEF IInv, RequestInv
      <3> QED
        BY <1>2, <3>1, <3>2, OthersKeep DEF locks
    <2> QED
      BY <2>1, <2>2
  <1>9. NewKeysDiffer'
    <2>1. \A q \in Requests \ {r} : kind \in {"create", "rotate"} /\ at'[q] \in InFlight => ask'[q].key # k
      BY <1>4 DEF Fresh
    <2>2. Makes(r)' <=> kind \in {"create", "rotate"}
      BY <1>1, <1>3, <1>5 DEF Makes, Is
    <2>3. \A q \in Requests \ {r} : Makes(q)' <=> Makes(q)
      BY <1>4 DEF Makes, Is
    <2>4. ask'[r].key = k
      BY <1>3, <1>5
    <2> SUFFICES ASSUME NEW p \in Requests, NEW q \in Requests, p # q,
                        at'[p] \in InFlight, at'[q] \in InFlight, Makes(p)', Makes(q)'
                 PROVE  ask'[p].key # ask'[q].key
      BY DEF NewKeysDiffer
    <2>5. CASE p = r
      BY <2>1, <2>2, <2>4, <2>5
    <2>6. CASE q = r
      BY <2>1, <2>2, <2>4, <2>6
    <2>7. CASE p # r /\ q # r
      BY <1>4, <2>3, <2>7 DEF IInv, NewKeysDiffer
    <2> QED
      BY <2>5, <2>6, <2>7
  <1>10. OwnersExist' /\ OneKeyPerClient'
    BY <1>2 DEF IInv, OwnersExist, OneKeyPerClient, Current, tables
  <1>11. ShutOutInv'
    <2> SUFFICES ASSUME NEW q \in shutOut'
                 PROVE  /\ at'[q] \in {"lockKey", "readClient"} \union Outcomes
                        /\ at'[q] # "admitted"
                        /\ at'[q] \in InFlight => clients'[ask'[q].client] = FALSE
      BY DEF ShutOutInv
    <2>1. q \in Requests
      BY DEF IInv, TypeOK
    <2>2. CASE q = r
      <3>1. r \notin shutOut
        BY <1>2 DEF IInv, ShutOutInv, Outcomes
      <3> QED
        BY <1>2, <1>3, <1>5, <2>2, <3>1 DEF tables
    <2>3. CASE q # r
      BY <1>2, <1>4, <2>1, <2>3 DEF IInv, ShutOutInv, tables
    <2> QED
      BY <2>2, <2>3
  <1> QED
    BY <1>6, <1>8, <1>9, <1>10, <1>11 DEF IInv

-----------------------------------------------------------------------------
(* The commit                                                              *)

\* What a commit does to the keys of each client.
LEMMA CurrentAfterCommit ==
  ASSUME IInv, NEW r \in Requests, at[r] = "commit", Apply(r), NEW c \in Clients
  PROVE  Current(c)' = IF c = ask[r].client /\ Makes(r) THEN {ask[r].key} ELSE Current(c)
  <1> USE ConstantsAssumption
  <1>1. AskInv(r) /\ ClientInv(r) /\ FoundInv(r) /\ KeyInv(r) /\ ask[r].client \in Clients /\ ask[r] \in Asks
    BY DEF IInv, RequestInv, AskInv, Asks, InFlight
  <1>2. keys' = [k \in Keys |->
          IF Is(r, "rotate") /\ k \in found[r] THEN [keys[k] EXCEPT !.revoked = TRUE]
          ELSE IF Makes(r) /\ k = ask[r].key THEN NewRow(r)
          ELSE keys[k]]
    BY DEF Apply, Makes
  <1>3. NewRow(r) \in KeyRows /\ NewRow(r).client = ask[r].client /\ ~ NewRow(r).revoked
    BY <1>1 DEF NewRow, KeyRows, Asks
  <1>4. Is(r, "rotate") => found[r] = Current(ask[r].client)
    BY <1>1 DEF FoundInv
  <1>5. CASE ~ Makes(r)
    BY <1>2, <1>5 DEF Current, Makes
  <1>6. CASE Makes(r)
    <2>1. ask[r].key \in Keys /\ keys[ask[r].key] = None
      BY <1>1, <1>6 DEF AskInv
    <2>2. ASSUME NEW k \in Keys, Is(r, "rotate"), k \in found[r]
          PROVE  keys'[k] \in KeyRows /\ keys'[k].revoked /\ k \in Current(ask[r].client)
      <3>1. keys[k] \in KeyRows
        BY <1>4, <2>2 DEF Current, IInv, TypeOK
      <3> QED
        BY <1>2, <1>4, <2>2, <3>1 DEF KeyRows
    <2>3. ask[r].key \notin found[r] \/ ~ Is(r, "rotate")
      BY <1>4, <2>1 DEF Current
    <2>4. keys'[ask[r].key] = NewRow(r)
      BY <1>2, <1>6, <2>1, <2>3
    <2>5. \A k \in Keys : k # ask[r].key /\ ~ (Is(r, "rotate") /\ k \in found[r]) => keys'[k] = keys[k]
      BY <1>2
    <2>6. CASE c = ask[r].client
      <3>1. Is(r, "create") => Current(c) = {}
        BY <1>1, <2>6 DEF ClientInv, Locked, IInv, OneKeyPerClient
      <3>2. ASSUME NEW k \in Keys, k # ask[r].key PROVE k \notin Current(c)'
        <4>1. CASE Is(r, "rotate") /\ k \in found[r]
          BY <2>2, <4>1 DEF Current
        <4>2. CASE Is(r, "rotate") /\ k \notin found[r]
          BY <1>4, <2>5, <2>6, <3>2, <4>2 DEF Current
        <4>3. CASE Is(r, "create")
          <5>1. ~ Is(r, "rotate")
            BY <4>3 DEF Is
          <5> QED
            BY <2>5, <3>1, <3>2, <4>3, <5>1 DEF Current
        <4> QED
          BY <1>6, <4>1, <4>2, <4>3 DEF Makes
      <3>3. ask[r].key \in Current(c)'
        BY <1>3, <2>1, <2>4, <2>6 DEF Current
      <3>4. Current(c)' \subseteq Keys
        BY DEF Current
      <3> QED
        BY <1>6, <2>6, <3>2, <3>3, <3>4
    <2>7. CASE c # ask[r].client
      <3>1. ASSUME NEW k \in Keys PROVE k \in Current(c)' <=> k \in Current(c)
        <4>1. CASE Is(r, "rotate") /\ k \in found[r]
          <5>1. k \notin Current(c)'
            BY <2>2, <4>1 DEF Current
          <5>2. k \notin Current(c)
            BY <2>2, <2>7, <4>1 DEF Current
          <5> QED
            BY <5>1, <5>2
        <4>2. CASE k = ask[r].key
          <5>1. k \notin Current(c)' /\ k \notin Current(c)
            BY <1>3, <2>1, <2>4, <2>7, <4>2 DEF Current
          <5> QED
            BY <5>1
        <4>3. CASE k # ask[r].key /\ ~ (Is(r, "rotate") /\ k \in found[r])
          BY <2>5, <4>3 DEF Current
        <4> QED
          BY <4>1, <4>2, <4>3
      <3>2. Current(c)' \subseteq Keys /\ Current(c) \subseteq Keys
        BY DEF Current
      <3> QED
        BY <2>7, <3>1, <3>2
    <2> QED
      BY <2>6, <2>7
  <1> QED
    BY <1>5, <1>6

\* What a transaction writes keeps one key per client, whether or not its reply arrives.
LEMMA CommitStep ==
  ASSUME IInv, NEW r \in Requests, at[r] = "commit", Apply(r),
         NEW outcome \in Outcomes, End(r, outcome)
  PROVE  IInv'
  <1> USE ConstantsAssumption
  <1> DEFINE b == ask[r].client
  <1>1. AskInv(r) /\ ClientInv(r) /\ FoundInv(r) /\ KeyInv(r) /\ b \in Clients /\ ask[r] \in Asks /\ ask[r] # None
    BY DEF IInv, RequestInv, AskInv, Asks, InFlight
  <1>2. clientLock[b] = r
    BY <1>1 DEF ClientInv, Locked
  <1>3. at'[r] = outcome /\ outcome \notin InFlight
    BY DEF IInv, TypeOK, End, InFlight, Outcomes
  <1>4. \A q \in Requests \ {r} : at'[q] = at[q] /\ ask'[q] = ask[q] /\ found'[q] = found[q]
    BY DEF IInv, TypeOK, End
  <1>5. /\ \A c \in Clients : clientLock[c] # None /\ clientLock[c] # r => clientLock'[c] = clientLock[c]
        /\ \A k \in Keys : keyLock[k] # None /\ keyLock[k] # r => keyLock'[k] = keyLock[k]
    BY DEF IInv, TypeOK, End
  <1>6. keys' = [k \in Keys |->
          IF Is(r, "rotate") /\ k \in found[r] THEN [keys[k] EXCEPT !.revoked = TRUE]
          ELSE IF Makes(r) /\ k = ask[r].key THEN NewRow(r)
          ELSE keys[k]]
    BY DEF Apply, Makes
  <1>7. NewRow(r) \in KeyRows /\ NewRow(r).client = b
    BY <1>1 DEF NewRow, KeyRows, Asks
  <1>8. \A k \in Keys : Is(r, "rotate") /\ k \in found[r] => keys[k] \in KeyRows /\ keyLock[k] = r
    BY <1>1 DEF FoundInv, Current, IInv, TypeOK
  <1>9. keys' \in [Keys -> KeyRows \union {None}]
    <2>1. ASSUME NEW k \in Keys, Is(r, "rotate"), k \in found[r]
          PROVE  [keys[k] EXCEPT !.revoked = TRUE] \in KeyRows
      BY <1>8, <2>1 DEF KeyRows
    <2>2. \A k \in Keys : keys[k] \in KeyRows \union {None}
      BY DEF IInv, TypeOK
    <2> QED
      BY <1>6, <1>7, <2>1, <2>2
  <1>10. clients' \in [Clients -> BOOLEAN \union {None}]
    BY <1>1 DEF IInv, TypeOK, Apply, Asks
  <1>11. TypeOK'
    <2>1. shutOut' \in SUBSET Requests
      BY DEF IInv, TypeOK, Apply
    <2>2. /\ at' \in [Requests -> {"unsent"} \union InFlight \union Outcomes]
          /\ ask' \in [Requests -> Asks \union {None}] /\ found' \in [Requests -> SUBSET Keys]
      BY DEF IInv, TypeOK, End
    <2>3. clientLock' \in [Clients -> Requests \union {None}] /\ keyLock' \in [Keys -> Requests \union {None}]
      BY DEF IInv, TypeOK, End
    <2> QED
      BY <1>9, <1>10, <2>1, <2>2, <2>3 DEF TypeOK
  <1>12. \A c \in Clients : c # b => clients'[c] = clients[c]
    BY <1>1 DEF Apply, IInv, TypeOK
  <1>13. clients'[b] # None /\ (~ Is(r, "create") => clients[b] # None)
    <2>1. ~ Is(r, "create") => clients[b] # None
      BY <1>1 DEF ClientInv, Locked
    <2>2. CASE Is(r, "create")
      BY <1>1, <2>2 DEF Apply, IInv, TypeOK
    <2>3. CASE Is(r, "enable")
      <3>1. clients' = [clients EXCEPT ![b] = ask[r].flag] /\ ask[r].flag \in BOOLEAN
        BY <1>1, <2>3 DEF Apply, Is, Asks
      <3> QED
        BY <1>1, <2>1, <3>1 DEF IInv, TypeOK, Is
    <2>4. CASE ~ Is(r, "create") /\ ~ Is(r, "enable")
      BY <2>1, <2>4 DEF Apply
    <2> QED
      BY <2>1, <2>2, <2>3, <2>4
  <1>14. ASSUME NEW q \in Requests, q # r, at[q] \in InFlight
         PROVE  AskInv(q)' /\ ClientInv(q)' /\ KeyInv(q)' /\ FoundInv(q)'
    <2>1. AskInv(q) /\ ClientInv(q) /\ KeyInv(q) /\ FoundInv(q) /\ ask[q].client \in Clients
      BY <1>14 DEF IInv, RequestInv, AskInv, Asks
    <2>2. at'[q] = at[q] /\ ask'[q] = ask[q] /\ found'[q] = found[q] /\ q # None
      BY <1>4, <1>14
    <2>3. at[q] \in Locked => ask[q].client # b /\ clientLock'[ask[q].client] = q
      BY <1>2, <1>5, <1>14, <2>1, <2>2 DEF ClientInv
    <2>4. ASSUME Makes(q) PROVE keys'[ask[q].key] = None
      <3>1. ask[q].key \in Keys /\ keys[ask[q].key] = None
        BY <2>1, <2>4 DEF AskInv
      <3>2. ~ (Is(r, "rotate") /\ ask[q].key \in found[r])
        BY <1>8, <3>1
      <3>3. ~ (Makes(r) /\ ask[q].key = ask[r].key)
        BY <1>14, <2>4 DEF IInv, NewKeysDiffer, InFlight
      <3> QED
        BY <1>6, <3>1, <3>2, <3>3
    <2>5. AskInv(q)'
      BY <2>1, <2>2, <2>4 DEF AskInv, Makes, Is
    <2>6. ClientInv(q)'
      BY <1>12, <2>1, <2>2, <2>3 DEF ClientInv, Is
    <2>7. KeyInv(q)'
      <3> SUFFICES ASSUME Is(q, "authenticate")
                   PROVE  /\ ask[q].key \in Keys /\ keys'[ask[q].key] \in KeyRows
                          /\ keys'[ask[q].key].client = ask[q].client
                          /\ at[q] # "lockKey" =>
                               keyLock'[ask[q].key] = q /\ ~ keys'[ask[q].key].revoked
        BY <2>2 DEF KeyInv, Is
      <3> DEFINE k == ask[q].key
      <3>1. /\ k \in Keys /\ keys[k] \in KeyRows /\ keys[k].client = ask[q].client
            /\ at[q] # "lockKey" => keyLock[k] = q /\ ~ keys[k].revoked
        BY <2>1 DEF KeyInv
      <3>2. ~ (Makes(r) /\ k = ask[r].key)
        BY <1>1, <3>1 DEF AskInv
      <3>3. at[q] # "lockKey" => ~ (Is(r, "rotate") /\ k \in found[r])
        BY <1>8, <1>14, <3>1
      <3>4. CASE Is(r, "rotate") /\ k \in found[r]
        <4>1. keys'[k] = [keys[k] EXCEPT !.revoked = TRUE]
          BY <1>6, <3>1, <3>4
        <4> QED
          BY <3>1, <3>3, <3>4, <4>1 DEF KeyRows
      <3>5. CASE ~ (Is(r, "rotate") /\ k \in found[r])
        <4>1. keys'[k] = keys[k]
          BY <1>6, <3>1, <3>2, <3>5
        <4>2. at[q] # "lockKey" => keyLock'[k] = q
          BY <1>5, <1>14, <2>2, <3>1
        <4> QED
          BY <3>1, <4>1, <4>2
      <3> QED
        BY <3>4, <3>5
    <2>8. FoundInv(q)'
      <3> SUFFICES ASSUME Is(q, "rotate")
                   PROVE  /\ at[q] \in {"lockKeys", "commit"} => found[q] = Current(ask[q].client)'
                          /\ at[q] = "commit" => \A k \in found[q] : keyLock'[k] = q
        BY <2>2 DEF FoundInv, Is
      <3>1. at[q] \in {"lockKeys", "commit"} => Current(ask[q].client)' = Current(ask[q].client)
        <4>1. \A c \in Clients : c # b => Current(c)' = Current(c)
          BY CurrentAfterCommit
        <4> QED
          BY <2>1, <2>2, <2>3, <4>1 DEF Locked, Current
      <3>2. at[q] = "commit" => found[q] \subseteq Keys
        BY <2>1 DEF FoundInv, Current
      <3> QED
        BY <1>5, <1>14, <2>1, <2>2, <3>1, <3>2 DEF FoundInv
    <2> QED
      BY <2>5, <2>6, <2>7, <2>8
  <1>15. RequestInv'
    BY <1>3, <1>4, <1>14 DEF RequestInv
  <1>16. NewKeysDiffer'
    BY <1>3, <1>4 DEF IInv, NewKeysDiffer, Makes, Is
  <1>17. OwnersExist'
    <2> SUFFICES ASSUME NEW k \in Keys, keys'[k] # None PROVE clients'[keys'[k].client] # None
      BY DEF OwnersExist
    <2>1. CASE Is(r, "rotate") /\ k \in found[r]
      <3>1. keys'[k].client = keys[k].client /\ keys[k] # None /\ keys[k].client \in Clients
        BY <1>6, <1>8, <2>1 DEF KeyRows
      <3> QED
        BY <1>12, <1>13, <3>1 DEF IInv, OwnersExist
    <2>2. CASE ~ (Is(r, "rotate") /\ k \in found[r]) /\ Makes(r) /\ k = ask[r].key
      BY <1>6, <1>7, <1>13, <2>2
    <2>3. CASE ~ (Is(r, "rotate") /\ k \in found[r]) /\ ~ (Makes(r) /\ k = ask[r].key)
      <3>1. keys'[k] = keys[k] /\ keys[k] # None
        BY <1>6, <2>3
      <3>2. keys[k].client \in Clients
        BY <3>1 DEF IInv, TypeOK, KeyRows
      <3> QED
        BY <1>12, <1>13, <3>1, <3>2 DEF IInv, OwnersExist
    <2> QED
      BY <2>1, <2>2, <2>3
  <1>18. OneKeyPerClient'
    <2> SUFFICES ASSUME NEW c \in Clients
                 PROVE  IF clients'[c] = None THEN Current(c)' = {} ELSE \E k \in Keys : Current(c)' = {k}
      BY DEF OneKeyPerClient
    <2>1. Current(c)' = IF c = b /\ Makes(r) THEN {ask[r].key} ELSE Current(c)
      BY CurrentAfterCommit
    <2>2. IF clients[c] = None THEN Current(c) = {} ELSE \E k \in Keys : Current(c) = {k}
      BY DEF IInv, OneKeyPerClient
    <2>3. CASE c = b /\ Makes(r)
      BY <1>1, <1>13, <2>1, <2>3 DEF AskInv
    <2>4. CASE c = b /\ ~ Makes(r)
      BY <1>13, <2>1, <2>2, <2>4 DEF Makes
    <2>5. CASE c # b
      BY <1>12, <2>1, <2>2, <2>5
    <2> QED
      BY <2>3, <2>4, <2>5
  <1>19. ShutOutInv'
    <2> SUFFICES ASSUME NEW q \in shutOut'
                 PROVE  /\ at'[q] \in {"lockKey", "readClient"} \union Outcomes
                        /\ at'[q] # "admitted"
                        /\ at'[q] \in InFlight => clients'[ask'[q].client] = FALSE
      BY DEF ShutOutInv
    <2>1. q \in shutOut /\ q \in Requests
      BY DEF Apply, IInv, TypeOK
    <2>2. /\ at[q] \in {"lockKey", "readClient"} \union Outcomes /\ at[q] # "admitted"
          /\ at[q] \in InFlight => clients[ask[q].client] = FALSE
      BY <2>1 DEF IInv, ShutOutInv
    <2>3. q # r
      BY <2>2 DEF Outcomes
    <2>4. ASSUME at[q] \in InFlight PROVE clients'[ask[q].client] = FALSE
      <3>1. ask[q] \in Asks /\ ask[q].client \in Clients
        BY <2>1, <2>4 DEF IInv, RequestInv, AskInv, Asks
      <3>2. CASE ask[q].client # b
        BY <1>12, <2>2, <2>4, <3>1, <3>2
      <3>3. CASE ask[q].client = b
        <4>1. clients[b] = FALSE
          BY <2>2, <2>4, <3>3
        <4>2. ~ Is(r, "create")
          BY <1>1, <4>1 DEF ClientInv, Locked
        <4>3. CASE Is(r, "enable")
          <5>1. ~ ask[r].flag
            BY <3>3, <4>3 DEF Apply
          <5>2. clients' = [clients EXCEPT ![b] = ask[r].flag] /\ ask[r].flag \in BOOLEAN
            BY <1>1, <4>2, <4>3 DEF Apply, Asks
          <5> QED
            BY <1>1, <3>3, <5>1, <5>2 DEF IInv, TypeOK
        <4>4. CASE ~ Is(r, "enable")
          BY <3>3, <4>1, <4>2, <4>4 DEF Apply
        <4> QED
          BY <4>3, <4>4
      <3> QED
        BY <3>2, <3>3
    <2> QED
      BY <1>4, <2>1, <2>2, <2>3, <2>4
  <1> QED
    BY <1>11, <1>15, <1>16, <1>17, <1>18, <1>19 DEF IInv

-----------------------------------------------------------------------------
\* One step for each kind of action of Next.
LEMMA NextIInv ==
  ASSUME IInv, Next PROVE IInv'
  <1> USE ConstantsAssumption
  <1>1. ASSUME NEW r \in Requests, Statement(r) PROVE IInv'
    <2>1. CASE Commit(r)
      <3>1. at[r] = "commit" /\ Apply(r) /\ End(r, IF Is(r, "authenticate") THEN "admitted" ELSE "done")
        BY <2>1 DEF Commit
      <3>2. (IF Is(r, "authenticate") THEN "admitted" ELSE "done") \in Outcomes
        BY DEF Outcomes
      <3> QED
        BY <3>1, <3>2, CommitStep
    <2> QED
      BY <1>1, <2>1, LockKeyStep, ReadClientStep, LockClientStep, ReadKeysStep, LockKeysStep DEF Statement
  <1>2. ASSUME NEW r \in Requests, CommitReplyIsLost(r) PROVE IInv'
    BY <1>2, CommitStep DEF CommitReplyIsLost, Outcomes
  <1>3. ASSUME NEW r \in Requests, Fail(r) \/ BreakCircle(r) PROVE IInv'
    BY <1>3, EndStep DEF Fail, BreakCircle, Outcomes
  <1>4. ASSUME NEW r \in Requests, RefuseUnknownKey(r) PROVE IInv'
    BY <1>4, RefuseUnknownKeyStep
  <1>5. ASSUME NEW r \in Requests, NEW k \in Keys, NEW b \in BOOLEAN, BeginAuthenticate(r, k, b) PROVE IInv'
    <2>1. PICK c \in Clients : c = keys[k].client
      BY <1>5 DEF IInv, TypeOK, KeyRows, BeginAuthenticate
    <2>2. Begin(r, "lockKey", "authenticate", c, k, b) /\ keys[k] # None
      BY <1>5, <2>1 DEF BeginAuthenticate
    <2>3. Fits(r, "lockKey", "authenticate", c, k)
      BY <1>5, <2>1, <2>2 DEF BeginAuthenticate, Fits
    <2> QED
      BY <2>2, <2>3, BeginStep
  <1>6. ASSUME NEW r \in Requests, NEW c \in Clients, NEW b \in BOOLEAN,
               \/ BeginEnable(r, c, b)
               \/ \E k \in Keys : BeginCreate(r, c, k, b) \/ BeginRotate(r, c, k, b)
        PROVE  IInv'
    <2>1. CASE BeginEnable(r, c, b)
      BY <2>1, BeginStep DEF BeginEnable, Fits
    <2>2. CASE \E k \in Keys : BeginCreate(r, c, k, b)
      BY <2>2, BeginStep DEF BeginCreate, Fits
    <2>3. CASE \E k \in Keys : BeginRotate(r, c, k, b)
      BY <2>3, BeginStep DEF BeginRotate, Fits
    <2> QED
      BY <1>6, <2>1, <2>2, <2>3
  <1>7. CASE UNCHANGED vars
    BY <1>7 DEF vars, tables, locks, IInv, TypeOK, RequestInv, AskInv, ClientInv, KeyInv, FoundInv, Makes, Is,
                NewKeysDiffer, OwnersExist, OneKeyPerClient, Current, ShutOutInv
  <1> QED
    BY <1>1, <1>2, <1>3, <1>4, <1>5, <1>6, <1>7 DEF Next, AllRequestsMade

\* The invariant is inductive.
LEMMA StepIInv == IInv /\ [Next]_vars => IInv'
  <1> SUFFICES ASSUME IInv, [Next]_vars PROVE IInv'
    OBVIOUS
  <1>1. CASE Next
    BY <1>1, NextIInv
  <1>2. CASE UNCHANGED vars
    BY <1>2 DEF vars, tables, locks, IInv, TypeOK, RequestInv, AskInv, ClientInv, KeyInv, FoundInv, Makes, Is,
                NewKeysDiffer, OwnersExist, OneKeyPerClient, Current, ShutOutInv
  <1> QED
    BY <1>1, <1>2

\* Types, what requests know of the rows they locked, one key per client and the
\* shutting out of disabled clients hold together, whatever requests overlap.
THEOREM InductiveInvariant == Spec => []IInv
  BY InitIInv, StepIInv, PTL DEF Spec

\* The tables, locks and requests have their types in every reachable state.
THEOREM TypeCorrect == Spec => []TypeOK
  BY InductiveInvariant, PTL DEF IInv

\* However rotations, creations, failures and lost replies overlap, a client that
\* exists keeps exactly one key that is not revoked.
THEOREM ClientsKeepOneKey == Spec => []OneKeyPerClient
  BY InductiveInvariant, PTL DEF IInv

\* A robot whose client was disabled before it presented its key, and has not been
\* enabled since, is not admitted.
THEOREM DisabledAreRefused == Spec => []DisabledStaysOut
  <1>1. IInv => DisabledStaysOut
    BY DEF IInv, ShutOutInv, DisabledStaysOut
  <1> QED
    BY <1>1, InductiveInvariant, PTL

AdmitsTheCurrentKey ==
  \A r \in Requests : at'[r] = "admitted" /\ at[r] # "admitted" => ask[r].key \in Current(ask[r].client)

\* A key that authenticate() accepts is the client's current one at the moment the
\* transaction commits: no rotation comes between the check and the answer.
THEOREM AdmissionIsCurrent == Spec => AdmittedKeyIsCurrent
  <1>1. IInv /\ [Next]_vars => [AdmitsTheCurrentKey]_vars
    <2> SUFFICES ASSUME IInv, Next, NEW r \in Requests, at'[r] = "admitted", at[r] # "admitted"
                 PROVE  ask[r].key \in Current(ask[r].client)
      BY DEF AdmitsTheCurrentKey
    <2>1. at \in [Requests -> {"unsent"} \union InFlight \union Outcomes]
      BY DEF IInv, TypeOK
    <2>2. Commit(r)
      <3>1. ASSUME NEW q \in Requests, NEW outcome, End(q, outcome), outcome # "admitted" PROVE FALSE
        BY <2>1, <3>1 DEF End
      <3>2. ASSUME NEW q \in Requests, NEW step, at' = [at EXCEPT ![q] = step], step # "admitted" PROVE FALSE
        BY <2>1, <3>2
      <3>3. ~ UNCHANGED at
        OBVIOUS
      <3>4. ASSUME NEW q \in Requests, Commit(q) PROVE Commit(r)
        BY <2>1, <3>1, <3>4 DEF Commit, End
      <3>5. ASSUME NEW q \in Requests, LockKey(q) \/ ReadClient(q) PROVE FALSE
        BY <3>1, <3>2, <3>5 DEF LockKey, ReadClient
      <3>6. ASSUME NEW q \in Requests, LockClient(q) PROVE FALSE
        BY <3>1, <3>2, <3>6 DEF LockClient, Continue
      <3>7. ASSUME NEW q \in Requests, ReadKeys(q) \/ LockKeys(q) \/ RefuseUnknownKey(q) PROVE FALSE
        BY <3>2, <3>7 DEF ReadKeys, LockKeys, RefuseUnknownKey
      <3>8. ASSUME NEW q \in Requests, CommitReplyIsLost(q) \/ Fail(q) \/ BreakCircle(q) PROVE FALSE
        BY <3>1, <3>8 DEF CommitReplyIsLost, Fail, BreakCircle
      <3>9. ASSUME NEW q \in Requests, NEW k \in Keys, NEW b \in BOOLEAN, BeginAuthenticate(q, k, b) PROVE FALSE
        BY <3>2, <3>9 DEF BeginAuthenticate, Begin
      <3>10. ASSUME NEW q \in Requests, NEW c \in Clients, NEW b \in BOOLEAN,
                    \/ BeginEnable(q, c, b)
                    \/ \E k \in Keys : BeginCreate(q, c, k, b) \/ BeginRotate(q, c, k, b)
             PROVE  FALSE
        BY <3>2, <3>10 DEF BeginEnable, BeginCreate, BeginRotate, Begin
      <3> QED
        BY <3>3, <3>4, <3>5, <3>6, <3>7, <3>8, <3>9, <3>10 DEF Next, Statement, AllRequestsMade, vars
    <2>3. at[r] = "commit" /\ Is(r, "authenticate")
      BY <2>1, <2>2 DEF Commit, End
    <2>4. KeyInv(r)
      BY <2>3 DEF IInv, RequestInv, InFlight
    <2>5. keys[ask[r].key] # None
      BY <2>3, <2>4, ConstantsAssumption DEF KeyInv
    <2> QED
      BY <2>3, <2>4, <2>5 DEF KeyInv, Current
  <1> QED
    BY <1>1, InitIInv, StepIInv, PTL DEF Spec, AdmittedKeyIsCurrent, AdmitsTheCurrentKey

=============================================================================
