--------------------------- MODULE ClientRepository --------------------------
(***************************************************************************)
(* Robot clients and their access keys (admin/repository.py): robots are   *)
(* authenticated (api/websocket.py), administrators create clients, enable *)
(* and disable them and rotate their keys (api/admin.py).  Each request is *)
(* one transaction on MySQL; an action is one statement of it.             *)
(*                                                                         *)
(* The database (external) is InnoDB with REPEATABLE READ: SELECT ... FOR  *)
(* UPDATE, UPDATE and INSERT lock rows until the transaction ends, a plain *)
(* SELECT reads what is committed and waits for nobody, and of two         *)
(* transactions that wait for each other one is rolled back.               *)
(***************************************************************************)
EXTENDS Naturals

CONSTANTS
  Clients,   \* clients, by name
  Keys,      \* keys that may ever be generated
  Requests,  \* requests, each made once
  FirstKey,  \* the key each client begins with, if it exists already
  None       \* Python's None; no holder of a lock, no row

VARIABLES
  clients,     \* the clients table: enabled, of each client that exists
  keys,        \* the client_access_keys table
  clientLock,  \* the transaction that holds the lock of a client's row
  keyLock,     \* ... of a key's row
  at,          \* the statement each request is about to execute, or its outcome
  ask,         \* what it asks for
  found,       \* keys, the rows that rotate() selected
  shutOut      \* for the properties: requests whose client is disabled since before they began

tables == <<clients, keys>>
locks == <<clientLock, keyLock>>
vars == <<tables, locks, at, ask, found, shutOut>>

\* flag: whether the secret is the key's (authenticate), the value of enabled
\* (enable), whether the new key has a date of expiry (create, rotate).
Asks == [kind : {"authenticate", "enable", "create", "rotate"},
         client : Clients, key : Keys \union {None}, flag : BOOLEAN]
KeyRows == [client : Clients, revoked : BOOLEAN, dated : BOOLEAN]

ASSUME ConstantsAssumption ==
  /\ None \notin Requests /\ None \notin Keys /\ None \notin Asks
  /\ None \notin KeyRows /\ None \notin BOOLEAN
  /\ FirstKey \in [Clients -> Keys \union {None}]
  /\ \A c, d \in Clients : c # d /\ FirstKey[c] # None => FirstKey[c] # FirstKey[d]

InFlight == {"lockKey", "readClient", "lockClient", "readKeys", "lockKeys", "commit"}
Outcomes == {"admitted", "refused", "raised", "done", "absent", "conflict", "failed"}

-----------------------------------------------------------------------------
(* Rows and locks                                                          *)

Is(r, kind) == ask[r] # None /\ ask[r].kind = kind

\* The rows reveal_key(), rotate() and the list of clients select: not revoked.
Current(c) == {k \in Keys : keys[k] # None /\ keys[k].client = c /\ ~ keys[k].revoked}

\* create_key_material: a key nobody has, in the table or about to be inserted.
Fresh == {k \in Keys : keys[k] = None /\ \A q \in Requests : at[q] \in InFlight => ask[q].key # k}

\* Who holds what r is waiting for.
WaitsFor(r) ==
  {q \in Requests \ {r} :
     \/ at[r] = "lockKey" /\ keyLock[ask[r].key] = q
     \/ at[r] = "lockClient" /\ clientLock[ask[r].client] = q
     \/ at[r] = "lockKeys" /\ \E k \in found[r] : keyLock[k] = q}

\* Mutant: a request that is refused keeps its transaction open.
KeepOnRefusal(r, outcome) ==
  /\ at' = [at EXCEPT ![r] = outcome]
  /\ ask' = [ask EXCEPT ![r] = None] /\ found' = [found EXCEPT ![r] = {}]
  /\ IF outcome = "refused" THEN UNCHANGED locks
     ELSE /\ clientLock' = [c \in Clients |-> IF clientLock[c] = r THEN None ELSE clientLock[c]]
          /\ keyLock' = [k \in Keys |-> IF keyLock[k] = r THEN None ELSE keyLock[k]]

\* sessions.begin() is left: the locks go, whatever the outcome, and so do the
\* local variables.
End(r, outcome) ==
  /\ at' = [at EXCEPT ![r] = outcome]
  /\ ask' = [ask EXCEPT ![r] = None] /\ found' = [found EXCEPT ![r] = {}]
  /\ clientLock' = [c \in Clients |-> IF clientLock[c] = r THEN None ELSE clientLock[c]]
  /\ keyLock' = [k \in Keys |-> IF keyLock[k] = r THEN None ELSE keyLock[k]]

-----------------------------------------------------------------------------
\* The clients of earlier days are enabled and their keys have no date.
Init ==
  /\ clients = [c \in Clients |-> IF FirstKey[c] = None THEN None ELSE TRUE]
  /\ keys = [k \in Keys |->
       IF \E c \in Clients : FirstKey[c] = k
       THEN [client |-> CHOOSE c \in Clients : FirstKey[c] = k, revoked |-> FALSE, dated |-> FALSE]
       ELSE None]
  /\ clientLock = [c \in Clients |-> None] /\ keyLock = [k \in Keys |-> None]
  /\ at = [r \in Requests |-> "unsent"] /\ ask = [r \in Requests |-> None]
  /\ found = [r \in Requests |-> {}] /\ shutOut = {}

Begin(r, step, kind, c, k, flag) ==
  /\ at[r] = "unsent"
  /\ at' = [at EXCEPT ![r] = step]
  /\ ask' = [ask EXCEPT ![r] = [kind |-> kind, client |-> c, key |-> k, flag |-> flag]]
  /\ UNCHANGED <<tables, locks, found>>

-----------------------------------------------------------------------------
(* authenticate()                                                          *)

\* A robot presents a key, with its own secret or another.  The owner of a key
\* never changes.
BeginAuthenticate(r, k, genuine) ==
  /\ keys[k] # None
  /\ Begin(r, "lockKey", "authenticate", keys[k].client, k, genuine)
  /\ shutOut' = IF clients[keys[k].client] = FALSE THEN shutOut \union {r} ELSE shutOut

\* A text that is no key, or whose id is in no row.
RefuseUnknownKey(r) ==
  /\ at[r] = "unsent"
  /\ at' = [at EXCEPT ![r] = "refused"]
  /\ UNCHANGED <<tables, locks, ask, found, shutOut>>

\* Mutant: the key is read without FOR UPDATE.
ReadKeyUnlocked(r) ==
  /\ at[r] = "lockKey"
  /\ IF keys[ask[r].key].revoked THEN End(r, "refused")
     ELSE IF keys[ask[r].key].dated THEN End(r, "raised")
     ELSE at' = [at EXCEPT ![r] = "readClient"] /\ UNCHANGED <<locks, ask, found>>
  /\ UNCHANGED <<tables, shutOut>>

\* SELECT ... FOR UPDATE of the key's row.  expires_at is a DATETIME column, which
\* the driver returns without a time zone: comparing it with now raises TypeError.
LockKey(r) ==
  /\ at[r] = "lockKey" /\ keyLock[ask[r].key] = None
  /\ IF keys[ask[r].key].revoked THEN End(r, "refused")
     ELSE IF keys[ask[r].key].dated THEN End(r, "raised")
     ELSE /\ at' = [at EXCEPT ![r] = "readClient"]
          /\ keyLock' = [keyLock EXCEPT ![ask[r].key] = r]
          /\ UNCHANGED <<clientLock, ask, found>>
  /\ UNCHANGED <<tables, shutOut>>

\* Mutant: whether the client is enabled is not asked.
ReadClientKeyOnly(r) ==
  /\ at[r] = "readClient"
  /\ IF ask[r].flag
     THEN at' = [at EXCEPT ![r] = "lockClient"] /\ UNCHANGED <<locks, ask, found>>
     ELSE End(r, "refused")
  /\ UNCHANGED <<tables, shutOut>>

\* The client as committed at this moment, without a lock, and verify_key.
ReadClient(r) ==
  /\ at[r] = "readClient"
  /\ IF clients[ask[r].client] = TRUE /\ ask[r].flag
     THEN at' = [at EXCEPT ![r] = "lockClient"] /\ UNCHANGED <<locks, ask, found>>
     ELSE End(r, "refused")
  /\ UNCHANGED <<tables, shutOut>>

-----------------------------------------------------------------------------
(* create(), set_enabled(), rotate()                                       *)

BeginCreate(r, c, k, dated) ==
  /\ k \in Fresh
  /\ Begin(r, "lockClient", "create", c, k, dated)
  /\ UNCHANGED shutOut

BeginEnable(r, c, enabled) == Begin(r, "lockClient", "enable", c, None, enabled) /\ UNCHANGED shutOut

BeginRotate(r, c, k, dated) ==
  /\ k \in Fresh
  /\ Begin(r, "lockClient", "rotate", c, k, dated)
  /\ UNCHANGED shutOut

\* What the request finds in the client's row once nobody else holds it: create()
\* needs the name to be free, the others need the client.
Continue(r) ==
  LET exists == clients[ask[r].client] # None IN
  IF Is(r, "create") = exists
  THEN End(r, IF exists THEN "conflict" ELSE "absent")
  ELSE /\ at' = [at EXCEPT ![r] = IF Is(r, "rotate") THEN "readKeys" ELSE "commit"]
       /\ clientLock' = [clientLock EXCEPT ![ask[r].client] = r]
       /\ UNCHANGED <<keyLock, ask, found>>

\* Mutant: the row of the client is read without FOR UPDATE.
ReadClientRowUnlocked(r) ==
  /\ at[r] = "lockClient" /\ (Is(r, "rotate") \/ clientLock[ask[r].client] = None)
  /\ Continue(r)
  /\ UNCHANGED <<tables, shutOut>>

\* get(..., with_for_update=True), the INSERT of a name, which is unique, and the
\* UPDATE of last_authenticated_at by which authenticate() ends.
LockClient(r) ==
  /\ at[r] = "lockClient" /\ clientLock[ask[r].client] = None
  /\ Continue(r)
  /\ UNCHANGED <<tables, shutOut>>

ReadKeys(r) ==
  /\ at[r] = "readKeys"
  /\ found' = [found EXCEPT ![r] = Current(ask[r].client)]
  /\ at' = [at EXCEPT ![r] = "lockKeys"]
  /\ UNCHANGED <<tables, locks, ask, shutOut>>

\* Mutant: the locks of all other keys are forgotten.
LockKeysOnce(r) ==
  /\ at[r] = "lockKeys" /\ \A k \in found[r] : keyLock[k] = None
  /\ keyLock' = [k \in found[r] |-> r]
  /\ at' = [at EXCEPT ![r] = "commit"]
  /\ UNCHANGED <<tables, clientLock, ask, found, shutOut>>

\* UPDATE of revoked_at, of one row as OneKeyPerClient says.
LockKeys(r) ==
  /\ at[r] = "lockKeys" /\ \A k \in found[r] : keyLock[k] = None
  /\ keyLock' = [k \in Keys |-> IF k \in found[r] THEN r ELSE keyLock[k]]
  /\ at' = [at EXCEPT ![r] = "commit"]
  /\ UNCHANGED <<tables, clientLock, ask, found, shutOut>>

-----------------------------------------------------------------------------
(* The end of a transaction                                                *)

NewRow(r) == [client |-> ask[r].client, revoked |-> FALSE, dated |-> ask[r].flag]

\* What r has written becomes visible.
Apply(r) ==
  /\ clients' = IF Is(r, "create") THEN [clients EXCEPT ![ask[r].client] = TRUE]
                ELSE IF Is(r, "enable") THEN [clients EXCEPT ![ask[r].client] = ask[r].flag]
                ELSE clients
  /\ keys' = [k \in Keys |->
       IF Is(r, "rotate") /\ k \in found[r] THEN [keys[k] EXCEPT !.revoked = TRUE]
       ELSE IF (Is(r, "create") \/ Is(r, "rotate")) /\ k = ask[r].key THEN NewRow(r)
       ELSE keys[k]]
  /\ shutOut' = IF Is(r, "enable") /\ ask[r].flag
                THEN {q \in shutOut : ask[q] # None /\ ask[q].client # ask[r].client} ELSE shutOut

Commit(r) ==
  /\ at[r] = "commit"
  /\ Apply(r) /\ End(r, IF Is(r, "authenticate") THEN "admitted" ELSE "done")

\* The commit is applied, its reply is lost, and the request fails all the same.
CommitReplyIsLost(r) ==
  /\ at[r] = "commit"
  /\ Apply(r) /\ End(r, "failed")

\* The database or the process fails: nothing is committed.
Fail(r) ==
  /\ at[r] \in InFlight
  /\ End(r, "failed")
  /\ UNCHANGED <<tables, shutOut>>

\* The database finds two transactions waiting for each other and ends one.
BreakCircle(r) ==
  /\ \E q \in WaitsFor(r) : r \in WaitsFor(q)
  /\ End(r, "failed")
  /\ UNCHANGED <<tables, shutOut>>

AllRequestsMade == (\A r \in Requests : at[r] \in Outcomes) /\ UNCHANGED vars

Statement(r) == LockKey(r) \/ ReadClient(r) \/ LockClient(r) \/ ReadKeys(r) \/ LockKeys(r) \/ Commit(r)

Next ==
  \/ \E r \in Requests :
       \/ Statement(r) \/ CommitReplyIsLost(r) \/ Fail(r) \/ BreakCircle(r) \/ RefuseUnknownKey(r)
       \/ \E k \in Keys, b \in BOOLEAN : BeginAuthenticate(r, k, b)
       \/ \E c \in Clients, b \in BOOLEAN :
            \/ BeginEnable(r, c, b)
            \/ \E k \in Keys : BeginCreate(r, c, k, b) \/ BeginRotate(r, c, k, b)
  \/ AllRequestsMade

Spec == Init /\ [][Next]_vars

\* The database executes what it is sent and looks for circles; nobody must send
\* anything, and no failure is certain.
Fairness == \A r \in Requests : WF_vars(Statement(r)) /\ WF_vars(BreakCircle(r))
FairSpec == Spec /\ Fairness

-----------------------------------------------------------------------------
(* Properties                                                              *)

TypeOK ==
  /\ clients \in [Clients -> BOOLEAN \union {None}]
  /\ keys \in [Keys -> KeyRows \union {None}]
  /\ clientLock \in [Clients -> Requests \union {None}]
  /\ keyLock \in [Keys -> Requests \union {None}]
  /\ at \in [Requests -> {"unsent"} \union InFlight \union Outcomes]
  /\ ask \in [Requests -> Asks \union {None}]
  /\ found \in [Requests -> SUBSET Keys]
  /\ shutOut \in SUBSET Requests

\* A client that exists has one key that is not revoked, and a name that is free
\* has none: whatever rotations, creations, failures and lost replies overlap,
\* rotate() neither leaves two keys nor takes the last one away.
OneKeyPerClient ==
  \A c \in Clients :
    IF clients[c] = None THEN Current(c) = {}
    ELSE \E k \in Keys : Current(c) = {k}

\* A key is good until the moment authenticate() returns the client: no rotation is
\* committed between the check of revoked_at and the answer.
AdmittedKeyIsCurrent ==
  [][\A r \in Requests :
       at'[r] = "admitted" /\ at[r] # "admitted" => ask[r].key \in Current(ask[r].client)]_vars

\* A client that was disabled when its robot presented the key, and has not been
\* enabled since, is not admitted.  (Disabled while authenticate() runs, it may be:
\* enabled is read without a lock.)
DisabledStaysOut == \A r \in shutOut : at[r] # "admitted"

\* Every request that is made ends, although authenticate() locks the key before
\* the client and rotate() the client before the key.
RequestsEnd == \A r \in Requests : at[r] \in InFlight ~> at[r] \in Outcomes

\* A robot that presents a key is admitted or refused, whatever the key's date,
\* unless the database fails.  (It is not: see LockKey.)
DatedKeyIsDecided == \A r \in Requests : at[r] # "raised"
=============================================================================
