----------------------- MODULE CapabilityServiceProofs ----------------------
(***************************************************************************)
(* CapabilityService for any capabilities, saves, restarts and secrets:    *)
(* what the process serves is what is committed, and no key is lost that   *)
(* the process can read.                                                   *)
(***************************************************************************)
EXTENDS CapabilityService, TLAPS

Saving == {"saving", "saved"}

\* A request in flight has a body, and its process is ready.
InFlightInv ==
  /\ \A r \in Requests : request[r] \in InFlight =>
       target[r] \in Capabilities /\ command[r] \in Commands /\ process = "ready"
  /\ lock # Absent => process = "ready"

\* A ready process knows every capability, and its catalogue is built from them.
CatalogueInv ==
  /\ process \in {"seeded", "ready"} => \A c \in Capabilities : db[c] \in Cards
  /\ process = "ready" =>
       /\ \A c \in Capabilities : states[c] \in States
       /\ tools = BuildTools(states)

\* What the save under way will publish: the states of the moment but for its own
\* card, which has the key it needs, and the old key unless the body changes it.
PreparedInv ==
  \A r \in Requests : request[r] \in Saving =>
    /\ \A c \in Capabilities : c # target[r] => prepared[r][c] = states[c]
    /\ prepared[r][target[r]] \in States
    /\ target[r] \in Keyed /\ prepared[r][target[r]].enabled => prepared[r][target[r]].apiKey # NoKey
    /\ AsksForKeyChange(command[r]) \/ prepared[r][target[r]].apiKey = states[target[r]].apiKey

\* The card in memory, or the one about to be published, is the committed one.
CommittedInv ==
  process = "ready" => \A c \in Capabilities :
    /\ ~ BeingPublished(c) /\ c \notin doubted => states[c] = StateOf(db[c])
    /\ \A r \in Requests : request[r] = "saved" /\ target[r] = c => prepared[r][c] = StateOf(db[c])

IInv == TypeOK /\ InFlightInv /\ CatalogueInv /\ PreparedInv /\ CommittedInv /\ EnabledCardHasKey

-----------------------------------------------------------------------------
\* Encrypting and decrypting with one secret gives the state back, and the card
\* of an enabled state that has its key has it too.
LEMMA CardRoundTrip ==
  ASSUME secret \in Secrets, NEW s \in States
  PROVE  /\ CardOf(s) \in Cards /\ StateOf(CardOf(s)) = s
         /\ CardOf(s).enabled = s.enabled
         /\ CardOf(s).cipher = NoKey <=> s.apiKey = NoKey
  <1> USE ConstantsAssumption
  <1>1. Encrypted(s.apiKey) \in Ciphers \union {NoKey}
    BY DEF Encrypted, Ciphers, States
  <1>2. Encrypted(s.apiKey) = NoKey <=> s.apiKey = NoKey
    BY <1>1 DEF Encrypted, Ciphers, States
  <1>3. Decrypted(Encrypted(s.apiKey)) = s.apiKey
    BY <1>1, <1>2 DEF Encrypted, Decrypted, States
  <1>4. CardOf(s) = [enabled |-> s.enabled, configuration |-> s.configuration, cipher |-> Encrypted(s.apiKey)]
    BY DEF CardOf
  <1>5. CardOf(s) \in Cards
    BY <1>1, <1>4 DEF Cards, States
  <1>6. StateOf(CardOf(s)) = [enabled |-> s.enabled, configuration |-> s.configuration, apiKey |-> s.apiKey]
    BY <1>3, <1>4 DEF StateOf
  <1>7. StateOf(CardOf(s)) = s
    BY <1>6 DEF States
  <1> QED BY <1>2, <1>4, <1>5, <1>7

\* A card decodes to a state.
LEMMA StateOfCard ==
  ASSUME NEW card \in Cards PROVE StateOf(card) \in States
  BY ConstantsAssumption DEF StateOf, Decrypted, Cards, Ciphers, States

\* A card written with the current secret keeps the key it had, when the state in
\* memory is the decoded card.
LEMMA SameKeySameCipher ==
  ASSUME NEW card \in Cards, NEW s \in States, card.cipher # NoKey, card.cipher.secret = secret,
         s.apiKey = StateOf(card).apiKey
  PROVE  CardOf(s).cipher = card.cipher
  <1> USE ConstantsAssumption
  <1>1. card.cipher \in Ciphers /\ card.cipher = [secret |-> secret, apiKey |-> card.cipher.apiKey]
    BY DEF Cards, Ciphers
  <1>2. card.cipher.apiKey \in ApiKeys /\ s.apiKey = card.cipher.apiKey
    BY <1>1 DEF StateOf, Decrypted, Ciphers
  <1> QED BY <1>1, <1>2 DEF CardOf, Encrypted

\* A tool carries its capability's name, so the catalogue's tools of a capability
\* are those of its state.
LEMMA ToolsOfCatalogue ==
  ASSUME NEW all, NEW c \in Capabilities, all[c] # Absent
  PROVE  {t \in BuildTools(all) : t.capability = c} = ToolsOf(c, all[c])
  BY DEF BuildTools, ToolsOf

-----------------------------------------------------------------------------
\* The program starts in a state of the invariant.
LEMMA InitIInv == Init => IInv
  <1> SUFFICES ASSUME Init PROVE IInv
    OBVIOUS
  <1> USE ConstantsAssumption DEF Init, NoStates
  <1>1. TypeOK
    BY DEF TypeOK, InFlight, Answered
  <1>2. InFlightInv /\ PreparedInv
    BY DEF InFlightInv, InFlight, PreparedInv, Saving
  <1>3. CatalogueInv /\ CommittedInv /\ EnabledCardHasKey
    BY DEF CatalogueInv, CommittedInv, EnabledCardHasKey
  <1> QED BY <1>1, <1>2, <1>3 DEF IInv

\* The steps of the process.
LEMMA ProcessStepsKeepIInv ==
  ASSUME IInv, Start \/ SeedMissing \/ LoadStates \/ StartFails \/ Stop
  PROVE  IInv'
  <1> USE ConstantsAssumption DEF IInv
  <1>1. CASE Start
    <2>1. TypeOK'
      BY <1>1 DEF Start, requests, TypeOK
    <2>2. \A r \in Requests : request[r] \notin InFlight
      BY <1>1 DEF Start, InFlightInv
    <2>3. InFlightInv' /\ PreparedInv' /\ CommittedInv'
      BY <1>1, <2>2 DEF Start, requests, InFlightInv, PreparedInv, CommittedInv, InFlight, Saving, TypeOK
    <2>4. CatalogueInv' /\ EnabledCardHasKey'
      BY <1>1 DEF Start, CatalogueInv, EnabledCardHasKey
    <2> QED BY <2>1, <2>3, <2>4
  <1>2. CASE SeedMissing
    <2>1. \A c \in Capabilities : db'[c] = IF db[c] = Absent THEN CardOf(Seeds[c]) ELSE db[c]
      BY <1>2 DEF SeedMissing
    <2>2. \A c \in Capabilities :
            /\ CardOf(Seeds[c]) \in Cards
            /\ c \in Keyed /\ CardOf(Seeds[c]).enabled => CardOf(Seeds[c]).cipher # NoKey
      BY CardRoundTrip DEF TypeOK
    <2>3. \A c \in Capabilities : db'[c] \in Cards
      BY <2>1, <2>2 DEF TypeOK
    <2>4. TypeOK'
      BY <1>2, <2>3 DEF SeedMissing, requests, TypeOK
    <2>5. EnabledCardHasKey'
      BY <2>1, <2>2 DEF EnabledCardHasKey
    <2>6. \A r \in Requests : request[r] \notin InFlight
      BY <1>2 DEF SeedMissing, InFlightInv
    <2>7. InFlightInv' /\ PreparedInv' /\ CommittedInv' /\ CatalogueInv'
      BY <1>2, <2>3, <2>6
      DEF SeedMissing, requests, InFlightInv, PreparedInv, CommittedInv, CatalogueInv, InFlight, Saving, TypeOK
    <2> QED BY <2>4, <2>5, <2>7
  <1>3. CASE LoadStates
    <2>1. \A c \in Capabilities : db[c] \in Cards /\ states'[c] = StateOf(db[c]) /\ states'[c] \in States
      BY <1>3, StateOfCard DEF LoadStates, CatalogueInv
    <2>2. UNCHANGED <<db, secret>> /\ tools' = BuildTools(states') /\ process' = "ready"
      BY <1>3 DEF LoadStates
    <2>3. \A r \in Requests : request[r] \notin InFlight
      BY <1>3 DEF LoadStates, InFlightInv
    <2>4. TypeOK'
      BY <1>3, <2>1 DEF LoadStates, requests, TypeOK
    <2>5. InFlightInv' /\ PreparedInv'
      BY <1>3, <2>3 DEF LoadStates, requests, InFlightInv, PreparedInv, InFlight, Saving, TypeOK
    <2>6. CatalogueInv'
      BY <2>1, <2>2 DEF CatalogueInv, BuildTools, ToolsOf
    <2>7. CommittedInv'
      BY <1>3, <2>1, <2>2, <2>3 DEF LoadStates, requests, CommittedInv, InFlight, StateOf, Decrypted
    <2>8. EnabledCardHasKey'
      BY <2>2 DEF EnabledCardHasKey
    <2> QED BY <2>4, <2>5, <2>6, <2>7, <2>8
  <1>4. CASE StartFails
    <2>1. TypeOK'
      BY <1>4 DEF StartFails, requests, TypeOK
    <2>2. \A r \in Requests : request[r] \notin InFlight
      BY <1>4 DEF StartFails, InFlightInv
    <2>3. InFlightInv' /\ PreparedInv' /\ CommittedInv'
      BY <1>4, <2>2 DEF StartFails, requests, InFlightInv, PreparedInv, CommittedInv, InFlight, Saving, TypeOK
    <2>4. CatalogueInv' /\ EnabledCardHasKey'
      BY <1>4 DEF StartFails, CatalogueInv, EnabledCardHasKey
    <2> QED BY <2>1, <2>3, <2>4
  <1>5. CASE Stop
    <2>1. \A r \in Requests : request'[r] \notin InFlight
      BY <1>5 DEF Stop, InFlight
    <2>2. TypeOK'
      BY <1>5, <2>1 DEF Stop, TypeOK, NoStates, InFlight, Answered
    <2>3. InFlightInv' /\ PreparedInv' /\ CommittedInv'
      BY <1>5, <2>1 DEF Stop, InFlightInv, PreparedInv, CommittedInv, InFlight, Saving
    <2>4. CatalogueInv' /\ EnabledCardHasKey'
      BY <1>5 DEF Stop, CatalogueInv, EnabledCardHasKey
    <2> QED BY <2>2, <2>3, <2>4
  <1> QED BY <1>1, <1>2, <1>3, <1>4, <1>5

-----------------------------------------------------------------------------
\* The steps of a save that leave the database and what is served alone.
LEMMA WaitingStepsKeepIInv ==
  ASSUME IInv, NEW r \in Requests, Send(r) \/ Refuse(r) \/ CommitFails(r)
  PROVE  IInv'
  <1> USE ConstantsAssumption DEF IInv
  <1>0. UNCHANGED <<db, doubted, process, secret, states, tools, starts, prepared>>
    BY DEF Send, Refuse, CommitFails, service
  <1>1. CASE Send(r)
    <2>1. PICK c \in Capabilities : target' = [target EXCEPT ![r] = c]
      BY <1>1 DEF Send
    <2>2. PICK m \in Commands : command' = [command EXCEPT ![r] = m]
      BY <1>1 DEF Send
    <2>3. TypeOK'
      BY <1>0, <1>1, <2>1, <2>2 DEF Send, TypeOK, InFlight, Answered
    <2>4. InFlightInv'
      BY <1>0, <1>1, <2>1, <2>2 DEF Send, TypeOK, InFlightInv, InFlight
    <2>5. \A q \in Requests : request'[q] \in Saving =>
            q # r /\ request'[q] = request[q] /\ target'[q] = target[q] /\ command'[q] = command[q]
      BY <1>1, <2>1, <2>2 DEF Send, TypeOK, Saving
    <2>6. \A q \in Requests : request[q] \in Saving => request'[q] = request[q] /\ target'[q] = target[q]
      BY <1>1, <2>1 DEF Send, TypeOK, Saving
    <2>7. PreparedInv'
      BY <1>0, <2>5 DEF PreparedInv, AsksForKeyChange
    <2>8. CommittedInv'
      BY <1>0, <2>5, <2>6 DEF CommittedInv, BeingPublished, Saving, StateOf, Decrypted
    <2>9. CatalogueInv' /\ EnabledCardHasKey'
      BY <1>0 DEF CatalogueInv, EnabledCardHasKey, BuildTools, ToolsOf
    <2> QED BY <2>3, <2>4, <2>7, <2>8, <2>9
  <1>2. CASE Refuse(r) \/ CommitFails(r)
    <2>0. UNCHANGED <<target, command>>
      BY <1>2 DEF Refuse, CommitFails
    <2>3. TypeOK'
      <3>1. /\ request' \in [Requests -> {"unsent"} \union InFlight \union Answered]
            /\ lock' \in Requests \union {Absent}
        BY <1>2 DEF Refuse, CommitFails, TypeOK, Answered
      <3>2. \A q \in Requests : request'[q] \in Saving <=> lock' = q
        BY <1>2 DEF Refuse, CommitFails, TypeOK, Saving
      <3> QED BY <1>0, <2>0, <3>1, <3>2 DEF TypeOK, Saving
    <2>4. InFlightInv'
      BY <1>0, <1>2, <2>0 DEF Refuse, CommitFails, TypeOK, InFlightInv, InFlight
    <2>5. \A q \in Requests : request'[q] \in Saving => request'[q] = request[q]
      BY <1>2 DEF Refuse, CommitFails, TypeOK, Saving
    <2>6. \A q \in Requests : request[q] = "saved" => request'[q] = request[q]
      BY <1>2 DEF Refuse, CommitFails, TypeOK
    <2>7. PreparedInv'
      BY <1>0, <2>0, <2>5 DEF PreparedInv, AsksForKeyChange
    <2>8. CommittedInv'
      BY <1>0, <2>0, <2>5, <2>6 DEF CommittedInv, BeingPublished, Saving, StateOf, Decrypted
    <2>9. CatalogueInv' /\ EnabledCardHasKey'
      BY <1>0 DEF CatalogueInv, EnabledCardHasKey, BuildTools, ToolsOf
    <2> QED BY <2>3, <2>4, <2>7, <2>8, <2>9
  <1> QED BY <1>1, <1>2

\* Validation under the lock.
LEMMA PrepareKeepsIInv ==
  ASSUME IInv, NEW r \in Requests, Prepare(r)
  PROVE  IInv'
  <1> USE ConstantsAssumption DEF IInv
  <1> DEFINE c == target[r]
             m == command[r]
             s == Candidate(c, m)
  <1>0. UNCHANGED <<db, doubted, process, secret, states, tools, starts, target, command>>
    BY DEF Prepare, service
  <1>1. c \in Capabilities /\ m \in AllCommands /\ process = "ready" /\ states[c] \in States
    BY DEF Prepare, InFlightInv, InFlight, CatalogueInv
  <1>2. s \in States
    BY <1>1 DEF Prepare, Acceptable, Candidate, CandidateKey, AllCommands, States
  <1>3. /\ c \in Keyed /\ s.enabled => s.apiKey # NoKey
        /\ AsksForKeyChange(m) \/ s.apiKey = states[c].apiKey
    BY DEF Prepare, Acceptable, Candidate, CandidateKey, AsksForKeyChange
  <1>4. /\ prepared' = [prepared EXCEPT ![r] = [states EXCEPT ![c] = s]]
        /\ request' = [request EXCEPT ![r] = "saving"] /\ lock' = r /\ lock = Absent
        /\ request[r] = "waiting"
    BY DEF Prepare
  <1> HIDE DEF s
  <1>5. prepared'[r] = [states EXCEPT ![c] = s] /\ prepared'[r] \in [Capabilities -> States \union {Absent}]
    BY <1>1, <1>2, <1>4 DEF TypeOK
  <1>6. \A q \in Requests : request[q] \notin Saving /\ (request'[q] \in Saving <=> q = r)
    BY <1>4 DEF TypeOK, Saving
  <1>7. TypeOK'
    <2>1. prepared' \in [Requests -> [Capabilities -> States \union {Absent}]]
      BY <1>4, <1>5 DEF TypeOK
    <2>2. request' \in [Requests -> {"unsent"} \union InFlight \union Answered]
      BY <1>4 DEF TypeOK, InFlight
    <2> QED BY <1>0, <1>4, <1>6, <2>1, <2>2 DEF TypeOK, Saving
  <1>8. InFlightInv'
    BY <1>0, <1>1, <1>4 DEF InFlightInv, TypeOK, InFlight
  <1>9. PreparedInv'
    <2>1. prepared'[r][c] = s /\ \A d \in Capabilities : d # c => prepared'[r][d] = states[d]
      BY <1>1, <1>5 DEF TypeOK
    <2>2. target'[r] = c /\ command'[r] = m /\ states' = states
      BY <1>0
    <2> QED BY <1>2, <1>3, <1>6, <2>1, <2>2 DEF PreparedInv, AsksForKeyChange
  <1>10. CommittedInv'
    BY <1>0, <1>4, <1>6 DEF CommittedInv, BeingPublished, Saving, TypeOK, StateOf, Decrypted
  <1>11. CatalogueInv' /\ EnabledCardHasKey'
    BY <1>0 DEF CatalogueInv, EnabledCardHasKey, BuildTools, ToolsOf
  <1> QED BY <1>7, <1>8, <1>9, <1>10, <1>11

\* What a commit does to the database, whether or not its reply arrives.
LEMMA SaveFacts ==
  ASSUME IInv, NEW r \in Requests, request[r] = "saving", SaveCard(r)
  PROVE  /\ target[r] \in Capabilities /\ process = "ready"
         /\ db' \in [Capabilities -> Cards \union {Absent}]
         /\ db'[target[r]] = CardOf(prepared[r][target[r]]) /\ db'[target[r]] \in Cards
         /\ \A c \in Capabilities : c # target[r] => db'[c] = db[c]
         /\ StateOf(db'[target[r]]) = prepared[r][target[r]]
         /\ EnabledCardHasKey'
  <1> USE ConstantsAssumption DEF IInv
  <1>1. target[r] \in Capabilities /\ process = "ready"
    BY DEF InFlightInv, InFlight
  <1>2. prepared[r][target[r]] \in States
    BY DEF PreparedInv, Saving
  <1>3. db'[target[r]] = CardOf(prepared[r][target[r]]) /\ \A c \in Capabilities : c # target[r] => db'[c] = db[c]
    BY <1>1 DEF SaveCard, TypeOK
  <1>4. CardOf(prepared[r][target[r]]) \in Cards /\ StateOf(CardOf(prepared[r][target[r]])) = prepared[r][target[r]]
    BY <1>2, CardRoundTrip DEF TypeOK
  <1>5. EnabledCardHasKey'
    <2>1. target[r] \in Keyed /\ prepared[r][target[r]].enabled => prepared[r][target[r]].apiKey # NoKey
      BY DEF PreparedInv, Saving
    <2>2. target[r] \in Keyed /\ db'[target[r]].enabled => db'[target[r]].cipher # NoKey
      BY <1>2, <1>3, <2>1, CardRoundTrip DEF TypeOK
    <2> QED BY <1>3, <2>2 DEF EnabledCardHasKey
  <1> QED BY <1>1, <1>3, <1>4, <1>5 DEF SaveCard, TypeOK

\* The commit.
LEMMA CommitKeepsIInv ==
  ASSUME IInv, NEW r \in Requests, Commit(r) \/ CommitReplyIsLost(r)
  PROVE  IInv'
  <1> USE ConstantsAssumption DEF IInv
  <1> DEFINE c == target[r]
  <1>0. /\ UNCHANGED <<process, secret, states, tools, starts, target, command, prepared>>
        /\ request[r] = "saving" /\ SaveCard(r) /\ lock = r
    BY DEF Commit, CommitReplyIsLost, service, TypeOK
  <1>1. /\ c \in Capabilities /\ process = "ready"
        /\ db' \in [Capabilities -> Cards \union {Absent}] /\ db'[c] \in Cards
        /\ \A d \in Capabilities : d # c => db'[d] = db[d]
        /\ StateOf(db'[c]) = prepared[r][c]
        /\ EnabledCardHasKey'
    BY <1>0, SaveFacts
  <1>2. \A q \in Requests : q # r => request'[q] = request[q] /\ request[q] \notin Saving
    BY <1>0 DEF Commit, CommitReplyIsLost, TypeOK, Saving
  <1>3. \/ request'[r] = "saved" /\ lock' = lock /\ doubted' = doubted
        \/ request'[r] = "failed" /\ lock' = Absent /\ doubted' = doubted \union {c}
    BY DEF Commit, CommitReplyIsLost, TypeOK
  <1>4. request' \in [Requests -> {"unsent"} \union InFlight \union Answered]
    BY DEF Commit, CommitReplyIsLost, TypeOK, InFlight, Answered
  <1>5. TypeOK'
    BY <1>0, <1>1, <1>2, <1>3, <1>4 DEF TypeOK, Saving
  <1>6. InFlightInv'
    BY <1>0, <1>1, <1>2, <1>3 DEF InFlightInv, InFlight
  <1>7. PreparedInv'
    BY <1>0, <1>2, <1>3 DEF PreparedInv, Saving, AsksForKeyChange
  <1>8. CatalogueInv'
    BY <1>0, <1>1 DEF CatalogueInv, BuildTools, ToolsOf
  <1>9. CommittedInv'
    <2> SUFFICES ASSUME NEW d \in Capabilities
                 PROVE  /\ ~ BeingPublished(d)' /\ d \notin doubted' => states'[d] = StateOf(db[d])'
                        /\ \A q \in Requests : request'[q] = "saved" /\ target'[q] = d =>
                             prepared'[q][d] = StateOf(db[d])'
      BY DEF CommittedInv
    <2>1. StateOf(db[d])' = StateOf(db'[d])
      BY <1>0 DEF StateOf, Decrypted
    <2>2. CASE d = c
      BY <1>0, <1>1, <1>2, <1>3, <2>1, <2>2 DEF BeingPublished, Saving
    <2>3. CASE d # c
      <3>1. ~ BeingPublished(d)
        BY <1>0, <1>2, <2>3 DEF BeingPublished, Saving
      <3>2. d \notin doubted' => states[d] = StateOf(db[d])
        BY <1>1, <1>3, <3>1 DEF CommittedInv
      <3> QED BY <1>0, <1>1, <1>2, <2>1, <2>3, <3>2 DEF Saving
    <2> QED BY <2>2, <2>3
  <1> QED BY <1>1, <1>5, <1>6, <1>7, <1>8, <1>9

\* The publication.
LEMMA PublishKeepsIInv ==
  ASSUME IInv, NEW r \in Requests, Publish(r)
  PROVE  IInv'
  <1> USE ConstantsAssumption DEF IInv
  <1> DEFINE c == target[r]
  <1>0. /\ UNCHANGED <<db, process, secret, starts, target, command, prepared>>
        /\ request[r] = "saved" /\ lock = r /\ lock' = Absent
        /\ states' = prepared[r] /\ tools' = BuildTools(prepared[r]) /\ doubted' = doubted \ {c}
        /\ request' = [request EXCEPT ![r] = "answered"]
    BY DEF Publish, TypeOK
  <1>1. c \in Capabilities /\ process = "ready"
    BY <1>0 DEF InFlightInv, InFlight
  <1>2. /\ prepared[r][c] \in States /\ prepared[r][c] = StateOf(db[c])
        /\ \A d \in Capabilities : d # c => prepared[r][d] = states[d]
    BY <1>0, <1>1 DEF PreparedInv, CommittedInv, Saving
  <1>3. \A q \in Requests : request'[q] \notin Saving /\ (q # r => request[q] \notin Saving)
    BY <1>0 DEF TypeOK, Saving
  <1>4. TypeOK'
    BY <1>0, <1>3 DEF TypeOK, Saving, Answered
  <1>5. InFlightInv'
    BY <1>0, <1>1 DEF InFlightInv, InFlight, TypeOK
  <1>6. PreparedInv'
    BY <1>3 DEF PreparedInv
  <1>7. CatalogueInv'
    <2>1. \A d \in Capabilities : states'[d] \in States
      BY <1>0, <1>1, <1>2 DEF CatalogueInv
    <2>2. tools' = BuildTools(states)'
      BY <1>0 DEF BuildTools, ToolsOf
    <2> QED BY <1>0, <1>1, <2>1, <2>2 DEF CatalogueInv
  <1>8. CommittedInv'
    <2> SUFFICES ASSUME NEW d \in Capabilities, d \notin doubted' PROVE states'[d] = StateOf(db[d])'
      BY <1>3 DEF CommittedInv, Saving
    <2>1. StateOf(db[d])' = StateOf(db[d])
      BY <1>0 DEF StateOf, Decrypted
    <2>2. CASE d = c
      BY <1>0, <1>2, <2>1, <2>2
    <2>3. CASE d # c
      <3>1. ~ BeingPublished(d) /\ d \notin doubted
        BY <1>0, <1>3, <2>3 DEF BeingPublished, Saving
      <3> QED BY <1>0, <1>1, <1>2, <2>1, <2>3, <3>1 DEF CommittedInv
    <2> QED BY <2>2, <2>3
  <1>9. EnabledCardHasKey'
    BY <1>0 DEF EnabledCardHasKey
  <1> QED BY <1>4, <1>5, <1>6, <1>7, <1>8, <1>9

-----------------------------------------------------------------------------
\* Nothing changes in a stutter.
LEMMA StutterKeepsIInv ==
  ASSUME IInv, UNCHANGED vars PROVE IInv'
  <1> USE DEF IInv, vars, service, requests
  <1>1. TypeOK' /\ InFlightInv' /\ EnabledCardHasKey'
    BY DEF TypeOK, InFlightInv, EnabledCardHasKey
  <1>2. CatalogueInv' /\ PreparedInv'
    BY DEF CatalogueInv, BuildTools, ToolsOf, PreparedInv, AsksForKeyChange
  <1>3. CommittedInv'
    BY DEF CommittedInv, BeingPublished, StateOf, Decrypted
  <1> QED BY <1>1, <1>2, <1>3

\* Every step keeps the invariant.
LEMMA StepIInv == IInv /\ [Next]_vars => IInv'
  BY ProcessStepsKeepIInv, WaitingStepsKeepIInv, PrepareKeepsIInv, CommitKeepsIInv,
     PublishKeepsIInv, StutterKeepsIInv
  DEF Next, RequestStep, StoppedForGood

\* Every reachable state satisfies the invariant.
THEOREM InductiveInvariant == Spec => []IInv
  <1> QED BY InitIInv, StepIInv, PTL DEF Spec

-----------------------------------------------------------------------------
\* The state keeps its types, and update()'s lock is held exactly by the save that
\* is between its validation and its end.
THEOREM TypeCorrect == Spec => []TypeOK
  <1>1. IInv => TypeOK
    BY DEF IInv
  <1> QED BY <1>1, InductiveInvariant, PTL

\* What is served is what is committed, for any number of concurrent saves,
\* failed commits and restarts, but for a commit whose reply was lost.
THEOREM ServesTheCommitted == Spec => []ServedIsCommitted
  <1>1. ASSUME IInv, process = "ready", NEW c \in Capabilities, ~ BeingPublished(c), c \notin doubted
        PROVE  states[c] = StateOf(db[c]) /\ {t \in tools : t.capability = c} = ToolsOf(c, StateOf(db[c]))
    <2>1. states[c] = StateOf(db[c])
      BY <1>1 DEF IInv, CommittedInv
    <2>2. tools = BuildTools(states) /\ states[c] # Absent
      BY <1>1, ConstantsAssumption DEF IInv, CatalogueInv
    <2> QED BY <2>1, <2>2, ToolsOfCatalogue
  <1>2. IInv => ServedIsCommitted
    BY <1>1 DEF ServedIsCommitted
  <1> QED BY <1>2, InductiveInvariant, PTL

\* No card is enabled in the database without the key it needs.
THEOREM EnabledCardsHaveKeys == Spec => []EnabledCardHasKey
  <1>1. IInv => EnabledCardHasKey
    BY DEF IInv
  <1> QED BY <1>1, InductiveInvariant, PTL

\* A start never replaces a card that an administrator saved.
THEOREM StartsKeepCards == Spec => OnlySavesReplaceCards
  <1> DEFINE Kept == \A c \in Capabilities : db[c] # Absent /\ db'[c] # db[c] =>
                       \E r \in Requests : request[r] = "saving" /\ target[r] = c
  <1>1. ASSUME IInv, [Next]_vars PROVE [Kept]_vars
    <2>1. ASSUME SeedMissing PROVE Kept
      BY <2>1 DEF SeedMissing
    <2>2. ASSUME NEW r \in Requests, Commit(r) \/ CommitReplyIsLost(r) PROVE Kept
      BY <1>1, <2>2 DEF Commit, CommitReplyIsLost, SaveCard, IInv, TypeOK
    <2>3. ASSUME db' = db PROVE Kept
      BY <2>3
    <2> QED
      BY <1>1, <2>1, <2>2, <2>3
      DEF Next, RequestStep, StoppedForGood, Start, LoadStates, StartFails, Stop, Send, Refuse,
          Prepare, CommitFails, Publish, vars
  <1> QED BY <1>1, InductiveInvariant, PTL DEF Spec, OnlySavesReplaceCards

\* A key the process can read outlives every save that does not mention it.
THEOREM ReadableKeysAreKept == Spec => ReadableKeyIsKept
  <1> DEFINE Kept == \A c \in Capabilities \ doubted :
                       /\ db[c] # Absent /\ db[c].cipher # NoKey /\ db[c].cipher.secret = secret
                       /\ db'[c].cipher # db[c].cipher
                       => \E r \in Requests :
                            target[r] = c /\ request[r] = "saving" /\ AsksForKeyChange(command[r])
  <1>1. ASSUME IInv, [Next]_vars PROVE [Kept]_vars
    <2>1. ASSUME SeedMissing PROVE Kept
      BY <2>1 DEF SeedMissing
    <2>2. ASSUME NEW r \in Requests, request[r] = "saving", SaveCard(r) PROVE Kept
      <3> SUFFICES ASSUME NEW c \in Capabilities, c \notin doubted, db[c] # Absent,
                          db[c].cipher # NoKey, db[c].cipher.secret = secret,
                          db'[c].cipher # db[c].cipher, ~ AsksForKeyChange(command[r]), target[r] = c
                   PROVE  FALSE
        BY <1>1, <2>2, SaveFacts
      <3>1. db'[c] = CardOf(prepared[r][c]) /\ process = "ready"
        BY <1>1, <2>2, SaveFacts
      <3>2. prepared[r][c] \in States /\ prepared[r][c].apiKey = states[c].apiKey
        BY <1>1, <2>2 DEF IInv, PreparedInv, Saving
      <3>3. ~ BeingPublished(c)
        BY <1>1, <2>2 DEF IInv, TypeOK, BeingPublished
      <3>4. states[c] = StateOf(db[c]) /\ db[c] \in Cards
        BY <1>1, <3>1, <3>3 DEF IInv, CommittedInv, CatalogueInv
      <3> QED BY <3>1, <3>2, <3>4, SameKeySameCipher
    <2>3. ASSUME db' = db PROVE Kept
      BY <2>3
    <2> QED
      BY <1>1, <2>1, <2>2, <2>3
      DEF Next, RequestStep, StoppedForGood, Start, LoadStates, StartFails, Stop, Send, Refuse,
          Prepare, Commit, CommitReplyIsLost, CommitFails, Publish, vars
  <1> QED BY <1>1, InductiveInvariant, PTL DEF Spec, ReadableKeyIsKept
=============================================================================
