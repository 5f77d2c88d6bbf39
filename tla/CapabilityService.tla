-------------------------- MODULE CapabilityService -------------------------
(***************************************************************************)
(* The managed capabilities (capabilities/service.py): each has a card in  *)
(* the database (admin/capability_repository.py), its decoded state in the *)
(* memory of the process, and, when it is enabled and has what it needs, a *)
(* tool in the catalogue every turn of a conversation takes a snapshot of. *)
(* Administrators save cards through api/capabilities.py.                  *)
(*                                                                         *)
(* update() keeps the service's lock from validation to publication and    *)
(* awaits only the database, so that a save is three steps: Prepare, the   *)
(* commit or its failure, and Publish.  The process may be stopped between *)
(* any two of them and started again, with another encryption secret.      *)
(***************************************************************************)
EXTENDS Naturals, FiniteSets

CONSTANTS
  Capabilities,    \* the managed capabilities
  Keyed,           \* those that call a provider with an API key
  Configurations,  \* configurations that parse, of any capability
  Invalid,         \* a configuration that does not
  ApiKeys,
  NoKey,           \* Python's None for a key
  Blank,           \* a key of white space only
  Secrets,         \* encryption secrets a deployment may set
  Seeds,           \* the cards of the environment variables
  Requests,        \* PUT requests, each made once
  Commands,        \* the bodies they may carry
  Absent,          \* no card, no state, no holder of the lock
  MaxStarts        \* bound: how often the process is started

States == [enabled : BOOLEAN, configuration : Configurations, apiKey : ApiKeys \union {NoKey}]
Ciphers == [secret : Secrets, apiKey : ApiKeys]
Cards == [enabled : BOOLEAN, configuration : Configurations, cipher : Ciphers \union {NoKey}]

\* CapabilityUpdate: a new key and the order to clear the key exclude each other.
AllCommands ==
  {m \in [enabled : BOOLEAN, configuration : Configurations \union {Invalid},
          apiKey : ApiKeys \union {NoKey, Blank}, clear : BOOLEAN] :
     ~ (m.apiKey # NoKey /\ m.clear)}

ASSUME ConstantsAssumption ==
  /\ Keyed \subseteq Capabilities
  /\ Commands \subseteq AllCommands
  /\ Seeds \in [Capabilities -> States]
  /\ \A c \in Keyed : Seeds[c].enabled => Seeds[c].apiKey # NoKey
  /\ \A c \in Capabilities \ Keyed : Seeds[c].apiKey = NoKey
  /\ Blank \notin ApiKeys /\ NoKey \notin ApiKeys /\ Blank # NoKey
  /\ NoKey \notin Ciphers
  /\ Invalid \notin Configurations
  /\ Absent \notin Requests /\ Absent \notin States /\ Absent \notin Cards
  /\ MaxStarts \in Nat

VARIABLES
  process,   \* lifespan of the service's process
  secret,    \* self._secret
  db,        \* the capabilities table
  states,    \* self._states
  tools,     \* self._tools
  lock,      \* holder of self._update_lock
  request,   \* where each request is
  target,    \* its capability
  command,   \* its body
  prepared,  \* states, the local variable of update()
  doubted,   \* cards whose last commit was applied and reported as failed
  starts     \* times the process was started

service == <<process, secret, states, tools, starts>>
requests == <<lock, request, target, command, prepared>>
vars == <<db, doubted, service, requests>>

InFlight == {"waiting", "saving", "saved"}
Answered == {"answered", "refused", "failed", "lost"}
NoStates == [c \in Capabilities |-> Absent]

-----------------------------------------------------------------------------
(* Encoding, decoding and the tools                                        *)

\* encrypt_key, of a key that is there.
Encrypted(key) == IF key = NoKey THEN NoKey ELSE [secret |-> secret, apiKey |-> key]

\* decrypt_key as initialize() calls it: an InvalidToken leaves no key.
Decrypted(cipher) ==
  IF cipher # NoKey /\ cipher.secret = secret THEN cipher.apiKey ELSE NoKey

CardOf(state) ==
  [enabled |-> state.enabled, configuration |-> state.configuration, cipher |-> Encrypted(state.apiKey)]

StateOf(card) ==
  [enabled |-> card.enabled, configuration |-> card.configuration, apiKey |-> Decrypted(card.cipher)]

\* What _build_tools makes of one state: at most one tool, with its parameters.
ToolsOf(c, state) ==
  IF state.enabled /\ (c \in Keyed => state.apiKey # NoKey)
  THEN {[capability |-> c, configuration |-> state.configuration, apiKey |-> state.apiKey]}
  ELSE {}

BuildTools(all) == UNION {ToolsOf(c, all[c]) : c \in {d \in Capabilities : all[d] # Absent}}

-----------------------------------------------------------------------------
(* The process                                                             *)

Init ==
  /\ process = "down" /\ secret \in Secrets /\ starts = 0
  /\ db = NoStates /\ doubted = {}
  /\ states = NoStates /\ tools = {} /\ lock = Absent
  /\ request = [r \in Requests |-> "unsent"]
  /\ target \in [Requests -> {Absent}] /\ command \in [Requests -> {Absent}]
  /\ prepared = [r \in Requests |-> NoStates]

Start ==
  /\ process = "down" /\ starts < MaxStarts
  /\ process' = "starting" /\ starts' = starts + 1
  /\ secret' \in Secrets
  /\ UNCHANGED <<db, doubted, states, tools, requests>>

\* Mutant: the environment's cards replace what the administrators saved.
SeedEverything ==
  /\ process = "starting"
  /\ db' = [c \in Capabilities |-> CardOf(Seeds[c])]
  /\ process' = "seeded"
  /\ UNCHANGED <<doubted, secret, states, tools, starts, requests>>

\* initialize(): seed_missing, in one transaction.
SeedMissing ==
  /\ process = "starting"
  /\ db' = [c \in Capabilities |-> IF db[c] = Absent THEN CardOf(Seeds[c]) ELSE db[c]]
  /\ process' = "seeded"
  /\ UNCHANGED <<doubted, secret, states, tools, starts, requests>>

\* initialize(): list, decode, publish.
LoadStates ==
  /\ process = "seeded"
  /\ states' = [c \in Capabilities |-> StateOf(db[c])]
  /\ tools' = BuildTools(states')
  /\ process' = "ready"
  /\ doubted' = {}
  /\ UNCHANGED <<db, secret, starts, requests>>

\* The database raises during initialize(): the application stays unavailable.
StartFails ==
  /\ process \in {"starting", "seeded"}
  /\ process' = "unavailable"
  /\ UNCHANGED <<db, doubted, secret, states, tools, starts, requests>>

\* The process stops, wherever its requests are; their transactions are rolled back.
Stop ==
  /\ process # "down"
  /\ process' = "down"
  /\ states' = NoStates /\ tools' = {} /\ lock' = Absent
  /\ request' = [r \in Requests |-> IF request[r] \in InFlight THEN "lost" ELSE request[r]]
  /\ UNCHANGED <<db, doubted, secret, starts, target, command, prepared>>

-----------------------------------------------------------------------------
(* update()                                                                *)

Send(r) ==
  /\ process = "ready" /\ request[r] = "unsent"
  /\ request' = [request EXCEPT ![r] = "waiting"]
  /\ \E c \in Capabilities : target' = [target EXCEPT ![r] = c]
  /\ \E m \in Commands : command' = [command EXCEPT ![r] = m]
  /\ UNCHANGED <<db, doubted, service, lock, prepared>>

\* The key the candidate gets: none, the new one, or the one in memory.
CandidateKey(c, m) ==
  IF m.clear THEN NoKey ELSE IF m.apiKey # NoKey THEN m.apiKey ELSE states[c].apiKey

Candidate(c, m) ==
  [enabled |-> m.enabled, configuration |-> m.configuration, apiKey |-> CandidateKey(c, m)]

\* Mutant: the key is looked for before the order to clear it is carried out.
AcceptableBeforeClearing(c, m) ==
  /\ states[c] # Absent /\ m.configuration # Invalid /\ m.apiKey # Blank
  /\ c \notin Keyed => m.apiKey = NoKey /\ ~ m.clear
  /\ m.enabled /\ c \in Keyed => m.apiKey # NoKey \/ states[c].apiKey # NoKey

\* The checks of update(), all before its first await.
Acceptable(c, m) ==
  /\ states[c] # Absent
  /\ m.configuration # Invalid
  /\ m.apiKey # Blank
  /\ c \notin Keyed => m.apiKey = NoKey /\ ~ m.clear
  /\ m.enabled /\ c \in Keyed => CandidateKey(c, m) # NoKey

Refuse(r) ==
  /\ request[r] = "waiting" /\ lock = Absent
  /\ ~ Acceptable(target[r], command[r])
  /\ request' = [request EXCEPT ![r] = "refused"]
  /\ UNCHANGED <<db, doubted, service, lock, target, command, prepared>>

\* Mutant: the save does not wait for the lock.
PrepareAtOnce(r) ==
  /\ request[r] = "waiting"
  /\ Acceptable(target[r], command[r])
  /\ lock' = r
  /\ prepared' = [prepared EXCEPT ![r] =
                    [states EXCEPT ![target[r]] = Candidate(target[r], command[r])]]
  /\ request' = [request EXCEPT ![r] = "saving"]
  /\ UNCHANGED <<db, doubted, service, target, command>>

Prepare(r) ==
  /\ request[r] = "waiting" /\ lock = Absent
  /\ Acceptable(target[r], command[r])
  /\ lock' = r
  /\ prepared' = [prepared EXCEPT ![r] =
                    [states EXCEPT ![target[r]] = Candidate(target[r], command[r])]]
  /\ request' = [request EXCEPT ![r] = "saving"]
  /\ UNCHANGED <<db, doubted, service, target, command>>

\* Mutant: the key of a save is stored only when the save brings one.
SaveCardWithNewKeyOnly(r) ==
  db' = [db EXCEPT ![target[r]] = CardOf([prepared[r][target[r]] EXCEPT !.apiKey =
           IF command[r].apiKey \in ApiKeys THEN @ ELSE NoKey])]

SaveCard(r) == db' = [db EXCEPT ![target[r]] = CardOf(prepared[r][target[r]])]

Commit(r) ==
  /\ request[r] = "saving"
  /\ SaveCard(r)
  /\ request' = [request EXCEPT ![r] = "saved"]
  /\ UNCHANGED <<doubted, service, lock, target, command, prepared>>

\* Mutant: a failed save leaves the lock behind.
CommitFailsLocked(r) ==
  /\ request[r] = "saving"
  /\ request' = [request EXCEPT ![r] = "failed"]
  /\ UNCHANGED <<db, doubted, service, lock, target, command, prepared>>

\* The transaction raises: the exception leaves update() and releases the lock.
CommitFails(r) ==
  /\ request[r] = "saving"
  /\ request' = [request EXCEPT ![r] = "failed"]
  /\ lock' = Absent
  /\ UNCHANGED <<db, doubted, service, target, command, prepared>>

\* The database applies the commit and the connection breaks before it says so.
CommitReplyIsLost(r) ==
  /\ request[r] = "saving"
  /\ SaveCard(r)
  /\ doubted' = doubted \union {target[r]}
  /\ request' = [request EXCEPT ![r] = "failed"]
  /\ lock' = Absent
  /\ UNCHANGED <<service, target, command, prepared>>

\* Back from the database, up to the return: nothing is awaited any more.
Publish(r) ==
  /\ request[r] = "saved"
  /\ states' = prepared[r]
  /\ tools' = BuildTools(prepared[r])
  /\ doubted' = doubted \ {target[r]}
  /\ request' = [request EXCEPT ![r] = "answered"]
  /\ lock' = Absent
  /\ UNCHANGED <<db, process, secret, starts, target, command, prepared>>

-----------------------------------------------------------------------------
RequestStep(r) ==
  \/ Refuse(r) \/ Prepare(r) \/ Commit(r) \/ CommitFails(r)
  \/ CommitReplyIsLost(r) \/ Publish(r)

\* The process is down for good: the model is at its bound.
StoppedForGood ==
  /\ process = "down" /\ starts = MaxStarts
  /\ UNCHANGED vars

Next ==
  \/ Start \/ SeedMissing \/ LoadStates \/ StartFails \/ Stop
  \/ \E r \in Requests : Send(r) \/ RequestStep(r)
  \/ StoppedForGood

\* The event loop resumes a coroutine that can go on, and a database call returns
\* or raises.  asyncio's lock is first come, first served.
Fairness == \A r \in Requests : WF_vars(RequestStep(r))

Spec == Init /\ [][Next]_vars /\ Fairness

-----------------------------------------------------------------------------
(* Properties                                                              *)

TypeOK ==
  /\ process \in {"down", "starting", "seeded", "ready", "unavailable"}
  /\ secret \in Secrets /\ starts \in 0..MaxStarts
  /\ db \in [Capabilities -> Cards \union {Absent}]
  /\ states \in [Capabilities -> States \union {Absent}]
  /\ lock \in Requests \union {Absent}
  /\ request \in [Requests -> {"unsent"} \union InFlight \union Answered]
  /\ target \in [Requests -> Capabilities \union {Absent}]
  /\ command \in [Requests -> Commands \union {Absent}]
  /\ prepared \in [Requests -> [Capabilities -> States \union {Absent}]]
  /\ doubted \subseteq Capabilities
  \* The lock is held exactly from Prepare to the end of the save.
  /\ \A r \in Requests : request[r] \in {"saving", "saved"} <=> lock = r

BeingPublished(c) == \E r \in Requests : request[r] = "saved" /\ target[r] = c

\* What the process serves is what the database holds: a card's state in memory
\* and its tool in the catalogue are those of the committed card, except between
\* its commit and its publication, or after a commit whose reply was lost.  So
\* the turn after a save uses the card that was saved, concurrent saves of other
\* cards and of the same card included.
ServedIsCommitted ==
  process = "ready" =>
    \A c \in Capabilities : BeingPublished(c) \/ c \in doubted \/
      /\ states[c] = StateOf(db[c])
      /\ {t \in tools : t.capability = c} = ToolsOf(c, StateOf(db[c]))

\* No saved card is enabled without the key its provider needs.
EnabledCardHasKey ==
  \A c \in Keyed : db[c] # Absent /\ db[c].enabled => db[c].cipher # NoKey

\* A start takes the environment's cards only for the capabilities that have
\* none: only a save replaces a card.
OnlySavesReplaceCards ==
  [][\A c \in Capabilities : db[c] # Absent /\ db'[c] # db[c] =>
       \E r \in Requests : request[r] = "saving" /\ target[r] = c]_vars

AsksForKeyChange(m) == m.clear \/ m.apiKey # NoKey

\* A card keeps its key through every save that neither brings a key nor clears
\* it: of a key the process can read, and unless the last commit is in doubt.
ReadableKeyIsKept ==
  [][\A c \in Capabilities \ doubted :
       /\ db[c] # Absent /\ db[c].cipher # NoKey /\ db[c].cipher.secret = secret
       /\ db'[c].cipher # db[c].cipher
       => \E r \in Requests : target[r] = c /\ request[r] = "saving" /\ AsksForKeyChange(command[r])]_vars

\* The same of every key, readable or not, as the specification of 2026-07-27 on
\* capability management has it (:26): a save without a new key keeps the old
\* one, and only an explicit order to clear the key deletes it.
SavedKeyIsKept ==
  [][\A c \in Capabilities \ doubted :
       db[c] # Absent /\ db[c].cipher # NoKey /\ db'[c].cipher = NoKey
       => \E r \in Requests : target[r] = c /\ request[r] = "saving" /\ AsksForKeyChange(command[r])]_vars

\* Every save is answered, or its process is stopped.
SavesAreAnswered ==
  \A r \in Requests : request[r] \in InFlight ~> request[r] \in Answered
=============================================================================
