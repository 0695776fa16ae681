------------------------ MODULE RusshProviderProofs -------------------------
(***************************************************************************)
(* Proofs about RusshProvider, for every set of keys, files and            *)
(* configurations and any number of attempts.  That the keys discovered    *)
(* are those a reader of ~/.ssh/config expects is left to TLC; here they   *)
(* are shown to be a list of keys, whatever the files say.                 *)
(***************************************************************************)
EXTENDS RusshProvider, DataLemmas

Past == {"found", "keys", "password", "shell", "connected"}

(***************************************************************************)
(* Trust: who was asked, who agreed, and what that says of the keys.       *)
(***************************************************************************)
Shape ==
  /\ attempt \in Nat
  /\ handlers \in [1..attempt -> [key : HostKey, at : Progress]]
  /\ gate \in 0..attempt
  /\ pc \in Stages
  /\ pc # "idle" => attempt > 0

Records1 == recorded \subseteq known /\ known \subseteq recorded \cup approved

\* What a handshake that has come this far says of its key, where R is on
\* record and A approved.
Vetted(h, R, A) ==
  /\ h.at \in {"asking", "agreed", "trusted"} => ~Conflicts(h.key, R)
  /\ h.at = "agreed" => h.key \in A
  /\ h.at = "trusted" => h.key \in R \cup A

Asked == gate # 0 => handlers[gate].at = "asking"
Trusting == pc \in Past => handlers[attempt].at = "trusted"

TrustInv ==
  /\ Shape /\ Records1
  /\ \A i \in 1..attempt : Vetted(handlers[i], recorded, approved)
  /\ Asked /\ Trusting

\* A key that contradicts nothing on record contradicts no part of it.
LEMMA FewerConflicts ==
  ASSUME NEW k, NEW K, NEW L, K \subseteq L, ~Conflicts(k, L)
  PROVE  ~Conflicts(k, K)
BY DEF Conflicts

LEMMA TrustInit == Init => TrustInv
BY DEF Init, TrustInv, Shape, Records1, Asked, Trusting, Stages, Past

\* The steps that leave the checks of host keys alone: where they lead.
Onward ==
  /\ UNCHANGED <<trust, attempt, recorded>>
  /\ \/ pc' = "idle"
     \/ pc' = pc
     \/ pc' \in Past /\ (pc \in Past \/ (pc # "idle" /\ handlers[attempt].at = "trusted"))

LEMMA AuthenticateOnward == Authenticate \/ HandshakeLost => Onward
<1> USE DEF trust, fixed, credentials, Onward, Past
<1>1. HandshakeRefused \/ HandshakeLost \/ BadPassphrase \/ NoPassword \/ BadPassword
        \/ ShellFails => Onward
  BY DEF HandshakeRefused, HandshakeLost, BadPassphrase, NoPassword, BadPassword,
         ShellFails, End, Keep
<1>2. Discover => Onward
  BY DEF Discover, Go, Keep
<1>3. StartKeys \/ NoMoreKeys \/ ShellOpens => Onward
  BY DEF StartKeys, NoMoreKeys, ShellOpens, Go, Keep
<1>4. LoadFails \/ KeyAccepted \/ KeyRejected => Onward
  BY DEF LoadFails, KeyAccepted, KeyRejected, Go, End, Tried, MoreKeys
<1>5. PasswordAccepted \/ PasswordRejected => Onward
  BY DEF PasswordAccepted, PasswordRejected, Go, End, Tried
<1> QED BY <1>1, <1>2, <1>3, <1>4, <1>5 DEF Authenticate

LEMMA OthersOnward ==
  ASSUME \/ \E s \in Passwords \ {None} : SetSecret(s)
         \/ \E k \in KeyFile \cup {None}, p \in Passphrases : SetPrivateKey(k, p)
         \/ Cancel \/ Disconnect
         \/ \E m \in Messages : Exec(m)
         \/ ExecFails
         \/ UNCHANGED vars
  PROVE  Onward
<1> USE DEF trust, fixed, credentials, Onward
<1>1. CASE \E s \in Passwords \ {None} : SetSecret(s)
  BY <1>1 DEF SetSecret, NewCredentials
<1>2. CASE \E k \in KeyFile \cup {None}, p \in Passphrases : SetPrivateKey(k, p)
  BY <1>2 DEF SetPrivateKey, NewCredentials
<1>3. CASE Cancel \/ Disconnect
  BY <1>3 DEF Cancel, Disconnect, End
<1>4. CASE (\E m \in Messages : Exec(m)) \/ ExecFails
  BY <1>4 DEF Exec, ExecFails, Answer
<1>5. CASE UNCHANGED vars
  BY <1>5 DEF vars
<1> QED BY <1>1, <1>2, <1>3, <1>4, <1>5

LEMMA TrustOnward ==
  ASSUME TrustInv, Onward
  PROVE  TrustInv'
<1> USE DEF trust, Onward
<1>1. Shape'
  BY DEF TrustInv, Shape, Past, Stages
<1>2. Records1' /\ Asked'
  BY DEF TrustInv, Records1, Asked
<1>3. \A i \in 1..attempt' : Vetted(handlers'[i], recorded', approved')
  BY DEF TrustInv, Vetted
<1>4. Trusting'
  BY DEF TrustInv, Trusting, Past
<1> QED BY <1>1, <1>2, <1>3, <1>4 DEF TrustInv

\* What one check of a host key has to show, when it moves one handshake.
LEMMA TrustMoves ==
  ASSUME TrustInv,
         Attempting,
         handlers' \in [1..attempt -> [key : HostKey, at : Progress]],
         gate' \in 0..attempt,
         recorded \subseteq known', known' \subseteq recorded \cup approved',
         approved \subseteq approved',
         \A i \in 1..attempt :
           \/ handlers'[i] = handlers[i]
           \/ handlers[i].at # "trusted" /\ Vetted(handlers'[i], recorded', approved'),
         gate' # 0 => handlers'[gate'].at = "asking"
  PROVE  TrustInv'
<1> USE DEF Attempting, fixed
<1>1. Shape'
  BY DEF TrustInv, Shape
<1>2. Records1' /\ Asked'
  BY DEF TrustInv, Records1, Asked
<1>3. \A i \in 1..attempt' : Vetted(handlers'[i], recorded', approved')
  BY DEF TrustInv, Vetted
<1>4. Trusting'
  BY DEF TrustInv, Shape, Trusting, Past
<1> QED BY <1>1, <1>2, <1>3, <1>4 DEF TrustInv

LEMMA TrustChecks ==
  ASSUME TrustInv, NEW i \in DOMAIN handlers, CheckServerKey(i)
  PROVE  TrustInv'
<1> DEFINE k == handlers[i].key
<1>1. i \in 1..attempt /\ handlers[i].at = "connecting" /\ Attempting
  BY DEF TrustInv, Shape, CheckServerKey
<1>2. recorded \subseteq known /\ known \subseteq recorded \cup approved
  BY DEF TrustInv, Records1
<1>3. UNCHANGED <<known, approved, recorded, attempt>>
  BY DEF CheckServerKey, Attempting, fixed
<1>4. gate # i
  BY <1>1 DEF TrustInv, Asked, Shape
<1>5. CASE k \in known \/ Conflicts(k, known)
  <2>1. /\ handlers' = [handlers EXCEPT ![i].at =
                          IF Conflicts(k, known) THEN "refused" ELSE "trusted"]
        /\ UNCHANGED gate
    BY <1>5 DEF CheckServerKey
  <2>2. handlers' \in [1..attempt -> [key : HostKey, at : Progress]]
    BY <1>1, <2>1 DEF TrustInv, Shape, Progress
  <2>3. Vetted(handlers'[i], recorded', approved')
    <3>1. handlers'[i].key = k /\ handlers'[i].at \in {"refused", "trusted"}
      BY <1>1, <2>1 DEF TrustInv, Shape
    <3>2. handlers'[i].at = "trusted" => ~Conflicts(k, known) /\ k \in known
      BY <1>1, <1>5, <2>1 DEF TrustInv, Shape
    <3> QED BY <1>2, <1>3, <3>1, <3>2, FewerConflicts DEF Vetted
  <2>4. \A j \in 1..attempt : j # i => handlers'[j] = handlers[j]
    BY <1>1, <2>1 DEF TrustInv, Shape
  <2>5. gate' # 0 => handlers'[gate'].at = "asking"
    BY <1>4, <2>1, <2>4 DEF TrustInv, Asked, Shape
  <2>6. gate' \in 0..attempt
    BY <2>1 DEF TrustInv, Shape
  <2> QED BY <1>1, <1>2, <1>3, <2>2, <2>3, <2>4, <2>5, <2>6, TrustMoves
<1>6. CASE k \notin known /\ ~Conflicts(k, known)
  <2>1. Ask(i)
    BY <1>6 DEF CheckServerKey
  <2>2. handlers' \in [1..attempt -> [key : HostKey, at : Progress]]
    BY <1>1, <2>1 DEF TrustInv, Shape, Progress, Ask
  <2>3. gate' = i /\ handlers'[i].at = "asking" /\ handlers'[i].key = k
    BY <1>1, <2>1 DEF TrustInv, Shape, Ask
  <2>4. Vetted(handlers'[i], recorded', approved')
    BY <1>2, <1>3, <1>6, <2>3, FewerConflicts DEF Vetted
  <2>5. ASSUME NEW j \in 1..attempt, j # i
        PROVE  \/ handlers'[j] = handlers[j]
               \/ handlers[j].at # "trusted" /\ Vetted(handlers'[j], recorded', approved')
    <3>1. CASE handlers[j].at = "asking"
      BY <2>1, <2>5, <3>1 DEF TrustInv, Shape, Ask, Vetted
    <3>2. CASE handlers[j].at # "asking"
      BY <2>1, <2>5, <3>2 DEF TrustInv, Shape, Ask
    <3> QED BY <3>1, <3>2
  <2>6. gate' \in 0..attempt
    BY <1>1, <2>3
  <2> HIDE DEF k
  <2> QED BY <1>1, <1>2, <1>3, <2>2, <2>3, <2>4, <2>5, <2>6, TrustMoves
<1> QED BY <1>5, <1>6

LEMMA TrustConfirms ==
  ASSUME TrustInv, NEW accept \in BOOLEAN, Confirm(accept)
  PROVE  TrustInv'
<1>1. gate \in 1..attempt /\ handlers[gate].at = "asking" /\ Attempting
  BY DEF TrustInv, Shape, Asked, Confirm
<1>2. recorded \subseteq known /\ known \subseteq recorded \cup approved
  BY DEF TrustInv, Records1
<1>3. /\ UNCHANGED <<known, recorded, attempt>> /\ gate' = 0
      /\ approved' = IF accept THEN approved \cup {handlers[gate].key} ELSE approved
      /\ handlers' = [handlers EXCEPT ![gate].at = IF accept THEN "agreed" ELSE "refused"]
  BY DEF Confirm, Attempting, fixed
<1>4. handlers' \in [1..attempt -> [key : HostKey, at : Progress]]
  BY <1>1, <1>3 DEF TrustInv, Shape, Progress
<1>5. Vetted(handlers[gate], recorded, approved)
  BY <1>1 DEF TrustInv
<1>6. handlers'[gate].key = handlers[gate].key
      /\ handlers'[gate].at = IF accept THEN "agreed" ELSE "refused"
  BY <1>1, <1>3 DEF TrustInv, Shape
<1>7. Vetted(handlers'[gate], recorded', approved')
  BY <1>1, <1>3, <1>5, <1>6 DEF Vetted
<1>8. \A j \in 1..attempt : j # gate => handlers'[j] = handlers[j]
  BY <1>1, <1>3 DEF TrustInv, Shape
<1>9. approved \subseteq approved' /\ known' \subseteq recorded \cup approved'
  BY <1>2, <1>3
<1>10. \A i \in 1..attempt :
         \/ handlers'[i] = handlers[i]
         \/ handlers[i].at # "trusted" /\ Vetted(handlers'[i], recorded', approved')
  BY <1>1, <1>7, <1>8
<1>11. gate' \in 0..attempt /\ (gate' # 0 => handlers'[gate'].at = "asking")
  BY <1>3 DEF TrustInv, Shape
<1>12. Attempting
  BY <1>1
<1> QED BY <1>2, <1>3, <1>4, <1>9, <1>10, <1>11, <1>12, TrustMoves

LEMMA TrustLearns ==
  ASSUME TrustInv, NEW i \in DOMAIN handlers, Learn(i)
  PROVE  TrustInv'
<1>1. i \in 1..attempt /\ handlers[i].at = "agreed" /\ Attempting
  BY DEF TrustInv, Shape, Learn
<1>2. recorded \subseteq known /\ known \subseteq recorded \cup approved
  BY DEF TrustInv, Records1
<1>3. Vetted(handlers[i], recorded, approved) /\ handlers[i].key \in approved
  BY <1>1 DEF TrustInv, Vetted
<1>4. /\ UNCHANGED <<gate, approved, recorded, attempt>>
      /\ handlers' = [handlers EXCEPT ![i].at = "trusted"]
      /\ known' = known \cup {handlers[i].key} \/ known' = known
  BY DEF Learn, Attempting, fixed
<1>5. recorded \subseteq known' /\ known' \subseteq recorded \cup approved'
  BY <1>2, <1>3, <1>4
<1>6. handlers' \in [1..attempt -> [key : HostKey, at : Progress]]
  BY <1>1, <1>4 DEF TrustInv, Shape, Progress
<1>7. handlers'[i].key = handlers[i].key /\ handlers'[i].at = "trusted"
  BY <1>1, <1>4 DEF TrustInv, Shape
<1>8. Vetted(handlers'[i], recorded', approved')
  BY <1>1, <1>3, <1>4, <1>7 DEF Vetted
<1>9. \A j \in 1..attempt : j # i => handlers'[j] = handlers[j]
  BY <1>1, <1>4 DEF TrustInv, Shape
<1>10. gate' # 0 => handlers'[gate'].at = "asking"
  BY <1>1, <1>4, <1>9 DEF TrustInv, Asked, Shape
<1>11. gate' \in 0..attempt /\ approved \subseteq approved'
  BY <1>4 DEF TrustInv, Shape
<1> QED BY <1>1, <1>4, <1>5, <1>6, <1>8, <1>9, <1>10, <1>11, TrustMoves

LEMMA TrustConnects ==
  ASSUME TrustInv, NEW k \in HostKey, Connect(k)
  PROVE  TrustInv'
<1> DEFINE h == [key |-> k, at |-> "connecting"]
<1>1. /\ attempt' = attempt + 1 /\ pc' = "handshake"
      /\ handlers' = Append(handlers, h)
      /\ UNCHANGED <<known, gate, approved, recorded>>
  BY DEF Connect, fixed
<1>2. handlers \in Seq([key : HostKey, at : Progress]) /\ Len(handlers) = attempt
  <2>1. attempt \in Nat /\ handlers \in [1..attempt -> [key : HostKey, at : Progress]]
    BY DEF TrustInv, Shape
  <2>2. handlers \in Seq([key : HostKey, at : Progress])
    <3> DEFINE H == [key : HostKey, at : Progress]
    <3> HIDE DEF H
    <3>1. handlers \in UNION {[1..n -> H] : n \in Nat}
      BY <2>1, Zenon DEF H
    <3>2. handlers \in Seq(H)
      BY <3>1, SeqDef, Zenon
    <3> QED BY <3>2 DEF H
  <2> QED BY <2>1, <2>2, LenProperties
<1>3. h \in [key : HostKey, at : Progress]
  BY DEF Progress
<1>4. /\ handlers' \in [1..attempt' -> [key : HostKey, at : Progress]]
      /\ handlers'[attempt'] = h
      /\ \A i \in 1..attempt : handlers'[i] = handlers[i]
  <2> HIDE DEF h
  <2>1. /\ handlers' \in Seq([key : HostKey, at : Progress]) /\ Len(handlers') = attempt'
        /\ handlers'[attempt'] = h
        /\ \A i \in 1..attempt : handlers'[i] = handlers[i]
    BY <1>1, <1>2, <1>3, AppendProperties
  <2> QED BY <2>1, LenProperties
<1>5. Shape'
  BY <1>1, <1>4 DEF TrustInv, Shape, Stages
<1>6. Records1'
  BY <1>1 DEF TrustInv, Records1
<1>7. \A i \in 1..attempt' : Vetted(handlers'[i], recorded', approved')
  <2>1. Vetted(h, recorded', approved')
    BY DEF Vetted
  <2>2. \A i \in 1..attempt : Vetted(handlers'[i], recorded', approved')
    BY <1>1, <1>4 DEF TrustInv
  <2>3. 1..attempt' = 1..attempt \cup {attempt'}
    BY <1>1 DEF TrustInv, Shape
  <2> QED BY <1>4, <2>1, <2>2, <2>3
<1>8. Asked'
  BY <1>1, <1>4 DEF TrustInv, Asked, Shape
<1>9. Trusting'
  BY <1>1 DEF Trusting, Past
<1> QED BY <1>5, <1>6, <1>7, <1>8, <1>9 DEF TrustInv

LEMMA TrustNext == TrustInv /\ [Next]_vars => TrustInv'
<1> SUFFICES ASSUME TrustInv, [Next]_vars PROVE TrustInv'
  OBVIOUS
<1>1. CASE \E k \in HostKey : Connect(k)
  BY <1>1, TrustConnects
<1>2. CASE Check
  BY <1>2, TrustChecks, TrustLearns DEF Check
<1>3. CASE UserAnswers
  BY <1>3, TrustConfirms DEF UserAnswers
<1>4. CASE Authenticate \/ HandshakeLost
  BY <1>4, AuthenticateOnward, TrustOnward
<1>5. CASE ~(\E k \in HostKey : Connect(k)) /\ ~Check /\ ~UserAnswers
             /\ ~Authenticate /\ ~HandshakeLost
  BY <1>5, OthersOnward, TrustOnward DEF Next
<1> QED BY <1>1, <1>2, <1>3, <1>4, <1>5

\* Past the handshake, the server is one that was on record or that the user
\* accepted, and contradicts nothing that was on record: whatever handshakes of
\* cancelled attempts are under way (check_server_key, learn_known_hosts).
THEOREM OnlyTrustedServers == Spec => []TrustedServer
<1>1. TrustInv => TrustedServer
  <2> SUFFICES ASSUME TrustInv PROVE TrustedServer
    OBVIOUS
  <2>1. CASE pc \notin {"idle", "handshake"}
    <3>1. pc \in Past /\ attempt \in 1..attempt
      BY <2>1 DEF TrustInv, Shape, Stages, Past
    <3>2. handlers[attempt].at = "trusted" /\ Vetted(handlers[attempt], recorded, approved)
      BY <3>1 DEF TrustInv, Trusting
    <3> QED BY <3>2 DEF TrustInv, Records1, TrustedServer, Vetted
  <2>2. CASE pc \in {"idle", "handshake"}
    BY <2>2 DEF TrustInv, Records1, TrustedServer
  <2> QED BY <2>1, <2>2
<1> QED BY <1>1, TrustInit, TrustNext, PTL DEF Spec

(***************************************************************************)
(* What an attempt has tried, and what it says of it.                      *)
(***************************************************************************)
\* A try after which the attempt goes on.
Fruitless(t) == /\ t.what \in {"load", "key"} /\ ~t.ok
                /\ ~(t.what = "load" /\ t.explicit)

AllFruitless == \A i \in DOMAIN tried : Fruitless(tried[i])

AuthInv ==
  /\ \E T : tried \in Seq(T)
  /\ \A i \in DOMAIN tried : i # Len(tried) => Fruitless(tried[i])
  /\ pc \in {"handshake", "found"} => tried = <<>>
  /\ pc \in {"keys", "password"} => AllFruitless
  /\ pc \in {"shell", "connected"} =>
       tried # <<>> /\ tried[Len(tried)].ok /\ tried[Len(tried)].what # "load"
  /\ pc \in Stages
  /\ pc # "idle" => outcome = None
  /\ HonestReason

\* What is tried comes after all the fruitless tries.
LEMMA TriedFacts ==
  ASSUME AuthInv, AllFruitless, NEW t, Tried(t)
  PROVE  /\ \E T : tried' \in Seq(T)
         /\ Len(tried) \in Nat /\ Len(tried') = Len(tried) + 1
         /\ DOMAIN tried = 1..Len(tried) /\ DOMAIN tried' = 1..Len(tried')
         /\ \A i \in DOMAIN tried : tried'[i] = tried[i]
         /\ tried'[Len(tried')] = t
         /\ \A i \in DOMAIN tried' : i # Len(tried') => Fruitless(tried'[i])
<1>1. PICK T : tried \in Seq(T)
  BY DEF AuthInv
<1> DEFINE U == T \cup {t}
<1>2. tried \in Seq(U) /\ t \in U
  BY <1>1, SeqMonotonic
<1>3. tried' = Append(tried, t)
  BY DEF Tried
<1> HIDE DEF U
<1>4. /\ tried' \in Seq(U) /\ Len(tried') = Len(tried) + 1
      /\ \A i \in 1..Len(tried) : tried'[i] = tried[i]
      /\ tried'[Len(tried) + 1] = t
  BY <1>2, <1>3, AppendProperties
<1>5. /\ Len(tried) \in Nat
      /\ DOMAIN tried = 1..Len(tried) /\ DOMAIN tried' = 1..Len(tried')
  BY <1>2, <1>4, LenProperties
<1>6. \A i \in DOMAIN tried' : i # Len(tried') => Fruitless(tried'[i])
  <2> SUFFICES ASSUME NEW i \in DOMAIN tried', i # Len(tried') PROVE Fruitless(tried'[i])
    OBVIOUS
  <2>1. i \in DOMAIN tried
    BY <1>4, <1>5
  <2>2. tried'[i] = tried[i]
    BY <1>4, <1>5, <2>1
  <2> QED BY <2>1, <2>2 DEF AllFruitless
<1> QED BY <1>4, <1>5, <1>6

LEMMA AuthInit == Init => AuthInv
<1> SUFFICES ASSUME Init PROVE AuthInv
  OBVIOUS
<1>1. tried = <<>> /\ pc = "idle" /\ outcome = None
  BY DEF Init
<1>2. tried \in Seq({}) /\ DOMAIN tried = {}
  BY <1>1
<1>3. HonestReason
  BY <1>1 DEF HonestReason, None
<1> QED BY <1>1, <1>2, <1>3 DEF AuthInv, Stages

\* An attempt begins, or what the last one tried is forgotten.
LEMMA AuthForgets ==
  ASSUME tried' = <<>>, outcome' = None, pc' \in {"idle", "handshake"}
  PROVE  AuthInv'
<1>1. tried' \in Seq({}) /\ DOMAIN tried' = {}
  OBVIOUS
<1>2. HonestReason'
  BY DEF HonestReason, None
<1> QED BY <1>1, <1>2 DEF AuthInv, Stages

\* What the reasons for the end of an attempt say.
Unnamed == {None, "cancelled", "connect", "passphrase", "load", "password text",
            "auth", "channel"}

\* An attempt ends with nothing more tried, for a reason that names nothing.
LEMMA AuthStops ==
  ASSUME AuthInv, pc' = "idle", tried' = tried, outcome' \in Unnamed
  PROVE  AuthInv'
<1>1. HonestReason'
  BY DEF HonestReason, Unnamed, None
<1> QED BY <1>1 DEF AuthInv, Stages

\* An attempt goes on with nothing more tried.
LEMMA AuthMoves ==
  ASSUME AuthInv, tried' = tried, outcome' = outcome,
         \/ pc' = pc
         \/ pc = "handshake" /\ pc' = "found"
         \/ pc = "found" /\ pc' = "keys"
         \/ pc = "keys" /\ pc' = "password"
         \/ pc = "shell" /\ pc' = "connected"
  PROVE  AuthInv'
<1>1. HonestReason'
  BY DEF AuthInv, HonestReason
<1>2. pc' \in {"keys", "password"} => AllFruitless'
  BY DEF AuthInv, AllFruitless
<1> QED BY <1>1, <1>2 DEF AuthInv, Stages

LEMMA AuthDriver ==
  ASSUME AuthInv,
         \/ \E s \in Passwords \ {None} : SetSecret(s)
         \/ \E k \in KeyFile \cup {None}, p \in Passphrases : SetPrivateKey(k, p)
         \/ \E k \in HostKey : Connect(k)
         \/ Cancel \/ Disconnect \/ HandshakeLost
         \/ Check \/ UserAnswers
         \/ \E m \in Messages : Exec(m)
         \/ ExecFails
         \/ UNCHANGED vars
  PROVE  AuthInv'
<1>1. CASE (\E s \in Passwords \ {None} : SetSecret(s))
           \/ \E k \in KeyFile \cup {None}, p \in Passphrases : SetPrivateKey(k, p)
  <2>1. NewCredentials
    BY <1>1 DEF SetSecret, SetPrivateKey
  <2> QED BY <2>1, AuthForgets DEF NewCredentials
<1>2. CASE \E k \in HostKey : Connect(k)
  BY <1>2, AuthForgets DEF Connect
<1>3. CASE Cancel \/ Disconnect \/ HandshakeLost
  BY <1>3, AuthStops DEF Cancel, Disconnect, HandshakeLost, Keep, End, Unnamed
<1>4. CASE Check \/ UserAnswers
  <2>1. Attempting
    BY <1>4 DEF Check, UserAnswers, CheckServerKey, Learn, Confirm
  <2> QED BY <2>1, AuthMoves DEF Attempting
<1>5. CASE (\E m \in Messages : Exec(m)) \/ ExecFails
  BY <1>5, AuthMoves DEF Exec, ExecFails, Answer
<1>6. CASE UNCHANGED vars
  BY <1>6, AuthMoves DEF vars
<1> QED BY <1>1, <1>2, <1>3, <1>4, <1>5, <1>6

\* A key is tried.
LEMMA AuthTriesKey ==
  ASSUME AuthInv, LoadFails \/ KeyAccepted \/ KeyRejected
  PROVE  AuthInv'
<1>1. pc = "keys" /\ AllFruitless /\ outcome = None
  BY DEF AuthInv, LoadFails, KeyAccepted, KeyRejected, MoreKeys
<1>2. CASE LoadFails
  <2> DEFINE t == Try("load", Candidate, FALSE, Explicit)
  <2>1. Tried(t) /\ t.what = "load" /\ t.ok = FALSE /\ t.explicit = Explicit
    BY <1>2 DEF LoadFails, Try
  <2> HIDE DEF t
  <2>2. CASE Explicit
    <3>1. pc' = "idle" /\ outcome' = "load"
      BY <1>2, <2>2 DEF LoadFails, End
    <3>2. HonestReason'
      BY <3>1 DEF HonestReason
    <3> QED BY <1>1, <2>1, <3>1, <3>2, TriedFacts DEF AuthInv, Stages, None
  <2>3. CASE ~Explicit
    <3>1. pc' = "keys" /\ outcome' = None
      BY <1>1, <1>2, <2>3 DEF LoadFails, Go
    <3>2. HonestReason'
      BY <3>1 DEF HonestReason, None
    <3>3. Fruitless(t)
      BY <2>1, <2>3 DEF Fruitless
    <3>4. AllFruitless'
      BY <1>1, <2>1, <3>3, TriedFacts DEF AllFruitless
    <3> QED BY <1>1, <2>1, <3>1, <3>2, <3>4, TriedFacts DEF AuthInv, Stages
  <2> QED BY <2>2, <2>3
<1>3. CASE KeyAccepted
  <2> DEFINE t == Try("key", Candidate, TRUE, Explicit)
  <2>1. Tried(t) /\ t.what = "key" /\ t.ok = TRUE
    BY <1>3 DEF KeyAccepted, Try
  <2> HIDE DEF t
  <2>2. pc' = "shell" /\ outcome' = None
    BY <1>1, <1>3 DEF KeyAccepted, Go
  <2>3. HonestReason'
    BY <2>2 DEF HonestReason, None
  <2>4. tried' # <<>>
    BY <1>1, <2>1, TriedFacts
  <2> QED BY <1>1, <2>1, <2>2, <2>3, <2>4, TriedFacts DEF AuthInv, Stages
<1>4. CASE KeyRejected
  <2> DEFINE t == Try("key", Candidate, FALSE, Explicit)
  <2>1. Tried(t) /\ t.what = "key" /\ t.ok = FALSE
    BY <1>4 DEF KeyRejected, Try
  <2> HIDE DEF t
  <2>2. pc' = "keys" /\ outcome' = None
    BY <1>1, <1>4 DEF KeyRejected, Go
  <2>3. HonestReason'
    BY <2>2 DEF HonestReason, None
  <2>4. Fruitless(t)
    BY <2>1 DEF Fruitless
  <2>5. AllFruitless'
    BY <1>1, <2>1, <2>4, TriedFacts DEF AllFruitless
  <2> QED BY <1>1, <2>1, <2>2, <2>3, <2>5, TriedFacts DEF AuthInv, Stages
<1> QED BY <1>2, <1>3, <1>4

\* There is no password, or it is tried.
LEMMA AuthTriesPassword ==
  ASSUME AuthInv, NoPassword \/ PasswordAccepted \/ PasswordRejected
  PROVE  AuthInv'
<1>1. pc = "password" /\ AllFruitless /\ outcome = None
  BY DEF AuthInv, NoPassword, PasswordAccepted, PasswordRejected
<1>2. PICK T : tried \in Seq(T)
  BY DEF AuthInv
<1>3. tried = <<>> \/ (1 \in DOMAIN tried /\ tried[1].what \in {"load", "key"})
  <2>1. tried = <<>> \/ 1 \in DOMAIN tried
    BY <1>2, EmptySeq, LenProperties
  <2> QED BY <1>1, <2>1 DEF AllFruitless, Fruitless
<1>4. \A i \in DOMAIN tried : tried[i].what \in {"load", "key"}
  BY <1>1 DEF AllFruitless, Fruitless
<1>5. CASE NoPassword
  <2>1. pc' = "idle" /\ tried' = tried
        /\ outcome' = IF tried = <<>> THEN "nothing usable" ELSE "public key"
    BY <1>5 DEF NoPassword, End, Keep, Reason
  <2>2. DOMAIN tried' = DOMAIN tried /\ (tried = <<>> => DOMAIN tried = {})
    <3>1. DOMAIN << >> = {}
      OBVIOUS
    <3>2. tried = <<>> => DOMAIN tried = {}
      BY ONLY <3>1
    <3>3. DOMAIN tried' = DOMAIN tried
      BY <2>1
    <3> QED BY <3>2, <3>3
  <2>3. \A i \in DOMAIN tried' : tried'[i].what \in {"load", "key"}
    BY <1>4, <2>1
  <2>4. tried # <<>> => \E i \in DOMAIN tried' : tried'[i].what \in {"load", "key"}
    BY <1>3, <2>1
  <2>5. HonestReason'
    BY <2>1, <2>2, <2>3, <2>4 DEF HonestReason
  <2> QED BY <2>1, <2>5 DEF AuthInv, Stages
<1>6. CASE PasswordAccepted
  <2> DEFINE t == PasswordTry(TRUE)
  <2>1. Tried(t) /\ t.what = "password" /\ t.ok = TRUE
    BY <1>6 DEF PasswordAccepted, PasswordTry, Try
  <2> HIDE DEF t
  <2>2. pc' = "shell" /\ outcome' = None
    BY <1>1, <1>6 DEF PasswordAccepted, Go
  <2>3. HonestReason'
    BY <2>2 DEF HonestReason, None
  <2>4. tried' # <<>>
    BY <1>1, <2>1, TriedFacts
  <2> QED BY <1>1, <2>1, <2>2, <2>3, <2>4, TriedFacts DEF AuthInv, Stages
<1>7. CASE PasswordRejected
  <2> DEFINE t == PasswordTry(FALSE)
  <2>1. Tried(t) /\ t.what = "password" /\ t.ok = FALSE
    BY <1>7 DEF PasswordRejected, PasswordTry, Try
  <2> HIDE DEF t
  <2>2. pc' = "idle" /\ outcome' \in {Reason(TRUE), "auth"}
    BY <1>7 DEF PasswordRejected, End
  <2>3. HonestReason'
    <3>1. outcome' \in {IF tried = <<>> THEN "password" ELSE "public key and password",
                        "auth"}
      BY <2>2 DEF Reason
    <3>2. /\ Len(tried') \in DOMAIN tried' /\ tried'[Len(tried')] = t
          /\ \A i \in DOMAIN tried : i \in DOMAIN tried' /\ tried'[i] = tried[i]
          /\ \A i \in DOMAIN tried' : i = Len(tried') \/ i \in DOMAIN tried
      BY <1>1, <2>1, TriedFacts
    <3>3. \E i \in DOMAIN tried' : tried'[i].what = "password"
      BY <2>1, <3>2
    <3>4. tried # <<>> => \E i \in DOMAIN tried' : tried'[i].what \in {"load", "key"}
      BY <1>3, <3>2
    <3>5. tried = <<>> => \A i \in DOMAIN tried' : tried'[i].what = "password"
      BY <2>1, <3>2
    <3> QED BY <3>1, <3>3, <3>4, <3>5 DEF HonestReason
  <2> QED BY <1>1, <2>1, <2>2, <2>3, TriedFacts DEF AuthInv, Stages
<1> QED BY <1>5, <1>6, <1>7

LEMMA AuthNext == AuthInv /\ [Next]_vars => AuthInv'
<1> SUFFICES ASSUME AuthInv, [Next]_vars PROVE AuthInv'
  OBVIOUS
<1>1. CASE HandshakeRefused \/ BadPassphrase \/ BadPassword \/ ShellFails
  BY <1>1, AuthStops
  DEF HandshakeRefused, BadPassphrase, BadPassword, ShellFails, Keep, End, Unnamed
<1>2. CASE Discover \/ StartKeys \/ NoMoreKeys \/ ShellOpens
  BY <1>2, AuthMoves DEF Discover, StartKeys, NoMoreKeys, ShellOpens, Keep, Go
<1>3. CASE LoadFails \/ KeyAccepted \/ KeyRejected
  BY <1>3, AuthTriesKey
<1>4. CASE NoPassword \/ PasswordAccepted \/ PasswordRejected
  BY <1>4, AuthTriesPassword
<1>5. CASE ~Authenticate
  BY <1>5, AuthDriver DEF Next
<1> QED BY <1>1, <1>2, <1>3, <1>4, <1>5 DEF Authenticate

LEMMA AuthHolds == Spec => []AuthInv
<1> QED BY AuthInit, AuthNext, PTL DEF Spec

\* Nothing is tried after an explicit key that does not load, and the attempt
\* has ended (try_publickey_auth).
THEOREM ExplicitKeyFailureIsFinal == Spec => []ExplicitKeyIsFinal
<1>1. AuthInv => ExplicitKeyIsFinal
  BY DEF AuthInv, ExplicitKeyIsFinal, Fruitless, AllFruitless, Stages
<1> QED BY <1>1, AuthHolds, PTL

\* A shell is opened exactly when the last thing tried was accepted, and
\* nothing was accepted before it (connect).
THEOREM NothingTriedAfterAcceptance == Spec => []AcceptedMeansLast
<1>1. AuthInv => AcceptedMeansLast
  BY DEF AuthInv, AcceptedMeansLast, Fruitless, AllFruitless, Last
<1> QED BY <1>1, AuthHolds, PTL

\* The reason given to the user names exactly what was tried and rejected
\* (connect).
THEOREM ReasonsAreHonest == Spec => []HonestReason
<1>1. AuthInv => HonestReason
  BY DEF AuthInv
<1> QED BY <1>1, AuthHolds, PTL

(***************************************************************************)
(* A pattern matches a host                                                *)
(***************************************************************************)
\* What the table of PatternMatches says at <<i, j>>.
Cell(g, text, m, i, j) ==
  IF i > Len(g) THEN j > Len(text)
  ELSE \/ g[i] = Star /\ m[<<i + 1, j>>]
       \/ /\ j <= Len(text)
          /\ IF g[i] = Star THEN m[<<i, j + 1>>]
             ELSE g[i] \in {One, text[j]} /\ m[<<i + 1, j + 1>>]

Places(g, text) == (1..Len(g) + 1) \X (1..Len(text) + 1)
Table(g, text, m) == [p \in Places(g, text) |-> Cell(g, text, m, p[1], p[2])]

\* The i-th character of the pattern takes the text from a to b.
Fits(g, text, i, a, b) ==
  \/ g[i] = Star /\ a <= b
  \/ b = a + 1 /\ g[i] \in {One, text[b]}

\* The pattern from i on takes the rest of the text after its first a.
Cuts(g, text, i, a, cut) ==
  /\ cut \in [i - 1..Len(g) -> 0..Len(text)]
  /\ cut[i - 1] = a /\ cut[Len(g)] = Len(text)
  /\ \A k \in i..Len(g) : Fits(g, text, k, cut[k - 1], cut[k])
Matches(g, text, i, a) == \E cut : Cuts(g, text, i, a, cut)

LEMMA MatchEnds ==
  ASSUME NEW g \in Seq(STRING), NEW text \in Seq(STRING), NEW a \in 0..Len(text)
  PROVE  Matches(g, text, Len(g) + 1, a) <=> a = Len(text)
<1>1. PICK l \in Nat, m \in Nat : l = Len(g) /\ m = Len(text)
  OBVIOUS
<1>2. (l + 1) - 1 = l /\ l + 1..l = {} /\ l \in l..l
  BY <1>1
<1>3. ASSUME NEW cut, Cuts(g, text, l + 1, a, cut) PROVE a = m
  BY <1>1, <1>2, <1>3 DEF Cuts
<1>4. ASSUME a = m PROVE Matches(g, text, l + 1, a)
  <2>1. PICK cut : cut = [k \in l..l |-> a]
    OBVIOUS
  <2>2. cut \in [l..l -> 0..m] /\ cut[l] = a
    BY <1>1, <1>2, <2>1
  <2> QED BY <1>1, <1>2, <1>4, <2>2 DEF Cuts, Matches
<1> QED BY <1>1, <1>3, <1>4 DEF Matches

LEMMA MatchSplits ==
  ASSUME NEW g \in Seq(STRING), NEW text \in Seq(STRING), NEW i \in 1..Len(g),
         NEW a \in 0..Len(text), Matches(g, text, i, a)
  PROVE  \E b \in 0..Len(text) : Fits(g, text, i, a, b) /\ Matches(g, text, i + 1, b)
<1>1. PICK l \in Nat, m \in Nat : l = Len(g) /\ m = Len(text) /\ i \in 1..l
  OBVIOUS
<1>2. PICK cut : Cuts(g, text, i, a, cut)
  BY DEF Matches
<1>3. /\ cut \in [i - 1..l -> 0..m] /\ cut[i - 1] = a /\ cut[l] = m
      /\ \A k \in i..l : Fits(g, text, k, cut[k - 1], cut[k])
  BY <1>1, <1>2 DEF Cuts
<1>4. i \in i..l /\ i \in i - 1..l /\ (i + 1) - 1 = i /\ i + 1..l \subseteq i..l /\ i..l \subseteq i - 1..l
      /\ l \in i..l /\ i \in Nat
  BY <1>1
<1>5. PICK rest : rest = [k \in i..l |-> cut[k]]
  OBVIOUS
<1>6. rest \in [i..l -> 0..m] /\ rest[l] = m /\ rest[i] = cut[i] /\ cut[i] \in 0..m
  BY <1>3, <1>4, <1>5
<1>7. ASSUME NEW k \in i + 1..l PROVE Fits(g, text, k, rest[k - 1], rest[k])
  <2>1. k \in i..l /\ k - 1 \in i..l
    BY <1>4
  <2> QED BY <1>3, <1>5, <2>1
<1>8. Cuts(g, text, i + 1, cut[i], rest)
  BY <1>1, <1>4, <1>6, <1>7 DEF Cuts
<1> QED BY <1>1, <1>3, <1>4, <1>6, <1>8 DEF Matches

LEMMA MatchExtends ==
  ASSUME NEW g \in Seq(STRING), NEW text \in Seq(STRING), NEW i \in 1..Len(g),
         NEW a \in 0..Len(text), NEW b \in 0..Len(text),
         Fits(g, text, i, a, b), Matches(g, text, i + 1, b)
  PROVE  Matches(g, text, i, a)
<1>1. PICK l \in Nat, m \in Nat : l = Len(g) /\ m = Len(text) /\ i \in 1..l
  OBVIOUS
<1>2. PICK rest : Cuts(g, text, i + 1, b, rest)
  BY DEF Matches
<1>3. (i + 1) - 1 = i /\ i \in Nat
  BY <1>1
<1>4. /\ rest \in [i..l -> 0..m] /\ rest[i] = b /\ rest[l] = m
      /\ \A k \in i + 1..l : Fits(g, text, k, rest[k - 1], rest[k])
  BY <1>1, <1>2, <1>3 DEF Cuts
<1>5. PICK cut : cut = [k \in i - 1..l |-> IF k = i - 1 THEN a ELSE rest[k]]
  OBVIOUS
<1>6. i - 1 \in i - 1..l /\ l # i - 1 /\ l \in i - 1..l /\ i # i - 1 /\ i \in i - 1..l
  BY <1>1
<1>7. \A k \in i - 1..l : k = i - 1 \/ (k \in i..l /\ k # i - 1)
  BY <1>1
<1>8. cut \in [i - 1..l -> 0..m] /\ cut[i - 1] = a /\ cut[l] = m /\ cut[i] = b
  BY <1>1, <1>4, <1>5, <1>6, <1>7
<1>9. ASSUME NEW k \in i..l PROVE Fits(g, text, k, cut[k - 1], cut[k])
  <2>1. CASE k = i
    BY <1>8, <2>1
  <2>2. CASE k # i
    <3>1. k \in i + 1..l /\ k \in i - 1..l /\ k - 1 \in i - 1..l /\ k # i - 1 /\ k - 1 # i - 1
      BY <1>1, <2>2
    <3>2. cut[k] = rest[k] /\ cut[k - 1] = rest[k - 1]
      BY <1>5, <3>1
    <3> QED BY <1>4, <3>1, <3>2
  <2> QED BY <2>1, <2>2
<1>10. Cuts(g, text, i, a, cut)
  BY <1>1, <1>8, <1>9 DEF Cuts
<1> QED BY <1>10 DEF Matches

\* What is true of the table is true of the cuts.
CutsCell(g, text, i, a) ==
  \/ g[i] = Star /\ Matches(g, text, i + 1, a)
  \/ /\ a + 1 <= Len(text)
     /\ \/ g[i] = Star /\ Matches(g, text, i, a + 1)
        \/ g[i] # Star /\ g[i] \in {One, text[a + 1]} /\ Matches(g, text, i + 1, a + 1)

LEMMA MatchCell ==
  ASSUME NEW g \in Seq(STRING), NEW text \in Seq(STRING), NEW i \in 1..Len(g), NEW a \in 0..Len(text)
  PROVE  Matches(g, text, i, a) <=> CutsCell(g, text, i, a)
<1>1. PICK m \in Nat : m = Len(text) /\ a \in 0..m
  OBVIOUS
<1>2. ASSUME Matches(g, text, i, a) PROVE CutsCell(g, text, i, a)
  <2>1. PICK b \in 0..Len(text) : Fits(g, text, i, a, b) /\ Matches(g, text, i + 1, b)
    BY <1>2, MatchSplits
  <2>2. CASE g[i] = Star /\ a = b
    BY <2>1, <2>2 DEF CutsCell
  <2>3. CASE g[i] = Star /\ a < b
    <3>1. a + 1 \in 0..Len(text) /\ a + 1 <= Len(text) /\ a + 1 <= b
      BY <1>1, <2>3
    <3>2. Fits(g, text, i, a + 1, b)
      BY <2>3, <3>1 DEF Fits
    <3>3. Matches(g, text, i, a + 1)
      BY <2>1, <3>1, <3>2, MatchExtends
    <3> QED BY <2>3, <3>1, <3>3 DEF CutsCell
  <2>4. CASE g[i] # Star
    BY <2>1, <2>4 DEF Fits, CutsCell
  <2>5. g[i] = Star => a = b \/ a < b
    BY <1>1, <2>1 DEF Fits
  <2> QED BY <2>2, <2>3, <2>4, <2>5
<1>3. ASSUME g[i] = Star, Matches(g, text, i + 1, a) PROVE Matches(g, text, i, a)
  <2>1. Fits(g, text, i, a, a)
    BY <1>1, <1>3 DEF Fits
  <2> QED BY <1>3, <2>1, MatchExtends
<1>4. ASSUME a + 1 <= Len(text), g[i] = Star, Matches(g, text, i, a + 1) PROVE Matches(g, text, i, a)
  <2>1. a + 1 \in 0..Len(text)
    BY <1>1, <1>4
  <2>2. PICK b \in 0..Len(text) : Fits(g, text, i, a + 1, b) /\ Matches(g, text, i + 1, b)
    BY <1>4, <2>1, MatchSplits
  <2>3. a <= b
    BY <1>1, <2>2 DEF Fits
  <2>4. Fits(g, text, i, a, b)
    BY <1>4, <2>3 DEF Fits
  <2> QED BY <2>2, <2>4, MatchExtends
<1>5. ASSUME a + 1 <= Len(text), g[i] \in {One, text[a + 1]}, Matches(g, text, i + 1, a + 1)
      PROVE  Matches(g, text, i, a)
  <2>1. a + 1 \in 0..Len(text)
    BY <1>1, <1>5
  <2>2. Fits(g, text, i, a, a + 1)
    BY <1>5 DEF Fits
  <2> QED BY <1>5, <2>1, <2>2, MatchExtends
<1> QED BY <1>2, <1>3, <1>4, <1>5 DEF CutsCell

\* A table that agrees with the cuts at the places a cell looks at agrees
\* with them at its own.
Agrees(m, g, text, i, j) == m[<<i, j>>] <=> Matches(g, text, i, j - 1)

LEMMA CellAgrees ==
  ASSUME NEW g \in Seq(STRING), NEW text \in Seq(STRING), NEW m,
         NEW i \in 1..Len(g) + 1, NEW j \in 1..Len(text) + 1,
         i <= Len(g) => Agrees(m, g, text, i + 1, j),
         j <= Len(text) => Agrees(m, g, text, i, j + 1),
         i <= Len(g) /\ j <= Len(text) => Agrees(m, g, text, i + 1, j + 1)
  PROVE  Cell(g, text, m, i, j) <=> Matches(g, text, i, j - 1)
<1>1. PICK l \in Nat, k \in Nat : l = Len(g) /\ k = Len(text) /\ i \in 1..l + 1 /\ j \in 1..k + 1
  OBVIOUS
<1>2. /\ j - 1 \in 0..Len(text) /\ (j + 1) - 1 = j /\ (j - 1) + 1 = j
      /\ (j > k <=> j - 1 = k)
  BY <1>1
<1>3. CASE i > Len(g)
  <2>1. i = Len(g) + 1
    BY <1>1, <1>3
  <2>2. Matches(g, text, i, j - 1) <=> j - 1 = Len(text)
    BY <1>2, <2>1, MatchEnds
  <2> QED BY <1>1, <1>2, <1>3, <2>2 DEF Cell
<1>4. CASE ~(i > Len(g))
  <2>1. i \in 1..Len(g) /\ i <= Len(g)
    BY <1>1, <1>4
  <2>2. Matches(g, text, i, j - 1) <=> CutsCell(g, text, i, j - 1)
    BY <1>2, <2>1, MatchCell
  <2>3. m[<<i + 1, j>>] <=> Matches(g, text, i + 1, j - 1)
    BY <2>1 DEF Agrees
  <2>4. j <= Len(text) => (m[<<i, j + 1>>] <=> Matches(g, text, i, j))
    BY <1>2 DEF Agrees
  <2>5. j <= Len(text) => (m[<<i + 1, j + 1>>] <=> Matches(g, text, i + 1, j))
    BY <1>2, <2>1 DEF Agrees
  <2>6. CutsCell(g, text, i, j - 1) <=>
          \/ g[i] = Star /\ Matches(g, text, i + 1, j - 1)
          \/ /\ j <= Len(text)
             /\ \/ g[i] = Star /\ Matches(g, text, i, j)
                \/ g[i] # Star /\ g[i] \in {One, text[j]} /\ Matches(g, text, i + 1, j)
    BY <1>2 DEF CutsCell
  <2>7. Cell(g, text, m, i, j) <=>
          \/ g[i] = Star /\ m[<<i + 1, j>>]
          \/ /\ j <= Len(text)
             /\ \/ g[i] = Star /\ m[<<i, j + 1>>]
                \/ g[i] # Star /\ g[i] \in {One, text[j]} /\ m[<<i + 1, j + 1>>]
    BY <1>4, Zenon DEF Cell
  <2> QED BY <2>2, <2>3, <2>4, <2>5, <2>6, <2>7, Zenon
<1> QED BY <1>3, <1>4

\* The table of PatternMatches is that of the cuts.
LEMMA PatternMatchesIs ==
  ASSUME NEW g \in Seq(STRING), NEW text \in Seq(STRING)
  PROVE  PatternMatches(g, text) <=> GlobMatches(g, text)
<1> DEFINE good == [p \in Places(g, text) |-> Matches(g, text, p[1], p[2] - 1)]
           found == CHOOSE k : k = Table(g, text, k)
<1>1. PICK l \in Nat, k \in Nat : l = Len(g) /\ k = Len(text)
  OBVIOUS
<1>2. ASSUME NEW i \in 1..l + 1, NEW j \in 1..k + 1 PROVE Agrees(good, g, text, i, j)
  <2>1. <<i, j>> \in Places(g, text)
    BY <1>1 DEF Places
  <2>2. good[<<i, j>>] = Matches(g, text, <<i, j>>[1], <<i, j>>[2] - 1)
    BY <2>1
  <2>3. <<i, j>>[1] = i /\ <<i, j>>[2] = j
    OBVIOUS
  <2> HIDE DEF good
  <2> QED BY <2>2, <2>3 DEF Agrees
<1>3. good = Table(g, text, good)
  <2>1. ASSUME NEW p \in Places(g, text) PROVE good[p] = Cell(g, text, good, p[1], p[2])
    <3>1. PICK i \in 1..l + 1, j \in 1..k + 1 : p = <<i, j>> /\ p[1] = i /\ p[2] = j
      BY <1>1 DEF Places
    <3>2. /\ i <= l => i + 1 \in 1..l + 1
          /\ j <= k => j + 1 \in 1..k + 1
      BY <1>1
    <3>3. good[p] = Matches(g, text, i, j - 1)
      BY <3>1
    <3>4. /\ i <= Len(g) => Agrees(good, g, text, i + 1, j)
          /\ j <= Len(text) => Agrees(good, g, text, i, j + 1)
          /\ i <= Len(g) /\ j <= Len(text) => Agrees(good, g, text, i + 1, j + 1)
      <4> HIDE DEF good
      <4> QED BY <1>1, <1>2, <3>2
    <3> HIDE DEF good
    <3>5. Cell(g, text, good, i, j) <=> Matches(g, text, i, j - 1)
      BY <1>1, <3>4, CellAgrees
    <3>6. Cell(g, text, good, i, j) \in BOOLEAN /\ Matches(g, text, i, j - 1) \in BOOLEAN
      <4>1. Matches(g, text, i, j - 1) \in BOOLEAN
        BY DEF Matches
      <4>2. CASE i > Len(g)
        BY <4>1, <4>2 DEF Cell
      <4>3. CASE ~(i > Len(g))
        BY <4>1, <4>3 DEF Cell
      <4> QED BY <4>2, <4>3
    <3> QED BY <3>1, <3>3, <3>5, <3>6, Zenon
  <2> QED BY <2>1, Zenon DEF Table
<1>4. found = Table(g, text, found)
  <2> HIDE DEF good
  <2> QED BY <1>3, Zenon
<1>5. PatternMatches(g, text) = found[<<1, 1>>]
  BY Zenon DEF PatternMatches, Table, Places, Cell
<1> HIDE DEF found, good
<1> DEFINE S == {d \in Nat : \A i \in 1..l + 1 : \A j \in 1..k + 1 :
                               (l - i) + (k - j) <= d - 2 => Agrees(found, g, text, i, j)}
<1>6. ASSUME NEW i \in 1..l + 1, NEW j \in 1..k + 1,
             i <= l => Agrees(found, g, text, i + 1, j),
             j <= k => Agrees(found, g, text, i, j + 1),
             i <= l /\ j <= k => Agrees(found, g, text, i + 1, j + 1)
      PROVE  Agrees(found, g, text, i, j)
  <2>1. <<i, j>> \in Places(g, text) /\ <<i, j>>[1] = i /\ <<i, j>>[2] = j
    BY <1>1 DEF Places
  <2>2. found[<<i, j>>] = Cell(g, text, found, i, j)
    BY <1>4, <2>1, Zenon DEF Table
  <2>3. Cell(g, text, found, i, j) <=> Matches(g, text, i, j - 1)
    BY <1>1, <1>6, CellAgrees
  <2> QED BY <2>2, <2>3 DEF Agrees
<1>7. 0 \in S
  <2>1. \A i \in 1..l + 1 : \A j \in 1..k + 1 : (l - i) + (k - j) <= 0 - 2 => ~(i <= l) /\ ~(j <= k)
    OBVIOUS
  <2> QED BY <1>6, <2>1
<1>8. ASSUME NEW d \in Nat, d \in S PROVE d + 1 \in S
  <2> SUFFICES ASSUME NEW i \in 1..l + 1, NEW j \in 1..k + 1, (l - i) + (k - j) <= (d + 1) - 2
               PROVE  Agrees(found, g, text, i, j)
    OBVIOUS
  <2>1. i <= l => i + 1 \in 1..l + 1 /\ (l - (i + 1)) + (k - j) <= d - 2
    OBVIOUS
  <2>2. j <= k => j + 1 \in 1..k + 1 /\ (l - i) + (k - (j + 1)) <= d - 2
    OBVIOUS
  <2>3. i <= l /\ j <= k => (l - (i + 1)) + (k - (j + 1)) <= d - 2
    OBVIOUS
  <2> QED BY <1>6, <1>8, <2>1, <2>2, <2>3
<1>9. Nat \subseteq S
  <2> HIDE DEF S
  <2> QED BY <1>7, <1>8, NatSetInduction
<1>10. Agrees(found, g, text, 1, 1)
  <2>1. l + k \in Nat /\ 1 \in 1..l + 1 /\ 1 \in 1..k + 1 /\ (l - 1) + (k - 1) <= (l + k) - 2
    OBVIOUS
  <2> QED BY <1>9, <2>1
<1>11. Matches(g, text, 1, 0) <=> GlobMatches(g, text)
  <2>1. 1 - 1 = 0
    OBVIOUS
  <2> QED BY <2>1 DEF Matches, Cuts, Fits, GlobMatches
<1> QED BY <1>5, <1>10, <1>11 DEF Agrees

(***************************************************************************)
(* A Host line applies                                                     *)
(***************************************************************************)
Verdict == {"none", "no", "yes"}
HostPattern == [negated : BOOLEAN, glob : Seq(STRING)]

ReadPattern(p, v) ==
  IF v = "no" \/ ~PatternMatches(p.glob, HostName) THEN v
  ELSE IF p.negated THEN "no" ELSE "yes"

PatternRun(acc, patterns) ==
  /\ acc[0] = "none"
  /\ \A i \in 0..Len(patterns) : acc[i] \in Verdict
  /\ \A i \in 1..Len(patterns) : acc[i] = ReadPattern(patterns[i], acc[i - 1])

LEMMA ClauseRuns ==
  ASSUME NEW ps \in Seq(HostPattern)
  PROVE  \E acc : PatternRun(acc, ps) /\ (ClauseMatches(ps) <=> acc[Len(ps)] = "yes")
<1> DEFINE N == Len(ps)
           F(h) == [s \in SUBSET (1..N) |-> IF s = {} THEN "none" ELSE ReadPattern(ps[Max(s)], h[s \ {Max(s)}])]
           step == [i \in 1..N |-> [v \in Verdict |-> ReadPattern(ps[i], v)]]
           h == CHOOSE h : h = F(h)
<1>1. N \in Nat /\ "none" \in Verdict /\ DOMAIN ps = 1..N
  BY DEF Verdict
<1>2. \A p : \A v \in Verdict : ReadPattern(p, v) \in Verdict
  BY DEF Verdict, ReadPattern
<1>3. ClauseMatches(ps) <=> h[1..N] = "yes"
  BY <1>1, Zenon DEF ClauseMatches, FoldLeft, MapThenFoldSet, ReadPattern
<1>4. step \in [1..N -> [Verdict -> Verdict]]
  <2> HIDE DEF N
  <2> QED BY <1>1, <1>2
<1>5. PICK it : IsIter(it, N, Verdict, "none", step)
  <2> HIDE DEF step, N
  <2> QED BY <1>1, <1>4, IterExists
<1>6. \A s \in SUBSET (1..N) : s # {} => Max(s) \in 1..N
  <2> HIDE DEF N
  <2> QED BY <1>1, MaxOfInitial
<1>7. it = F(it)
  <2>1. ASSUME NEW s \in SUBSET (1..N), s # {} PROVE it[s] = ReadPattern(ps[Max(s)], it[s \ {Max(s)}])
    <3>1. it[s \ {Max(s)}] \in Verdict
      BY <1>5 DEF IsIter
    <3>2. it[s] = step[Max(s)][it[s \ {Max(s)}]]
      BY <1>5, <2>1 DEF IsIter
    <3> QED BY <1>6, <2>1, <3>1, <3>2
  <2> QED BY <2>1, <1>5 DEF IsIter
<1>8. h = F(h)
  BY <1>7
<1>9. TakesSteps(h, N, Verdict, "none", step)
  <2> HIDE DEF h
  <2>1. h[{}] = "none"
    BY <1>8
  <2>2. ASSUME NEW s \in SUBSET (1..N), s # {}, h[s \ {Max(s)}] \in Verdict
        PROVE  h[s] = step[Max(s)][h[s \ {Max(s)}]]
    <3>1. h[s] = ReadPattern(ps[Max(s)], h[s \ {Max(s)}])
      BY <1>8, <2>2
    <3> QED BY <1>6, <2>2, <3>1
  <2> QED BY <2>1, <2>2 DEF TakesSteps
<1>10. PICK acc : IsRun(acc, N, Verdict, "none", step) /\ acc[N] = h[1..N]
  <2> HIDE DEF h, step, N
  <2> QED BY <1>1, <1>4, <1>9, FoldRun
<1>11. PatternRun(acc, ps)
  <2>1. ASSUME NEW i \in 1..N PROVE acc[i] = ReadPattern(ps[i], acc[i - 1])
    <3>1. i - 1 \in 0..N
      BY <1>1
    <3>2. acc[i - 1] \in Verdict /\ acc[i] = step[i][acc[i - 1]]
      BY <1>10, <3>1 DEF IsRun
    <3> QED BY <3>2
  <2> QED BY <1>10, <2>1 DEF IsRun, PatternRun
<1> QED BY <1>3, <1>10, <1>11

\* What has been decided after n patterns.
Matching(ps, n) == {i \in 1..n : GlobMatches(ps[i].glob, HostName)}
Decided(ps, n, v) ==
  /\ v = "no" <=> \E i \in Matching(ps, n) : ps[i].negated
  /\ v = "none" <=> Matching(ps, n) = {}

LEMMA ClauseMatchesIs ==
  ASSUME NEW ps \in Seq(HostPattern)
  PROVE  ClauseMatches(ps) <=> BlockApplies(ps)
<1>1. PICK l \in Nat : l = Len(ps)
  OBVIOUS
<1>2. PICK acc : PatternRun(acc, ps) /\ (ClauseMatches(ps) <=> acc[l] = "yes")
  BY <1>1, ClauseRuns
<1>3. /\ acc[0] = "none"
      /\ \A i \in 0..l : acc[i] \in Verdict
      /\ \A i \in 1..l : acc[i] = ReadPattern(ps[i], acc[i - 1])
  BY <1>1, <1>2 DEF PatternRun
<1> DEFINE S == {n \in Nat : n <= l => Decided(ps, n, acc[n])}
<1>4. 0 \in S
  BY <1>3 DEF Decided, Matching
<1>5. ASSUME NEW n \in Nat, n \in S PROVE n + 1 \in S
  <2> SUFFICES ASSUME n + 1 <= l PROVE Decided(ps, n + 1, acc[n + 1])
    OBVIOUS
  <2>1. PICK p, v, w : p = ps[n + 1] /\ v = acc[n] /\ w = acc[n + 1]
    OBVIOUS
  <2>2. n \in 0..l /\ n + 1 \in 1..l /\ (n + 1) - 1 = n
    OBVIOUS
  <2>3. v \in Verdict /\ w = ReadPattern(p, v) /\ p \in HostPattern
    BY <1>1, <1>3, <2>1, <2>2
  <2>4. PatternMatches(p.glob, HostName) <=> GlobMatches(p.glob, HostName)
    BY <2>3, PatternMatchesIs, HostNameAssumption DEF HostPattern
  <2>5. Decided(ps, n, v)
    BY <1>5, <2>1
  <2>6. PICK a, b : a = Matching(ps, n) /\ b = Matching(ps, n + 1)
    OBVIOUS
  <2>7. CASE ~GlobMatches(p.glob, HostName)
    <3>1. b = a
      BY <2>1, <2>6, <2>7 DEF Matching
    <3>2. w = v
      BY <2>3, <2>4, <2>7 DEF ReadPattern
    <3> QED BY <2>1, <2>5, <2>6, <3>1, <3>2 DEF Decided
  <2>8. CASE GlobMatches(p.glob, HostName)
    <3>1. b = a \cup {n + 1}
      BY <2>1, <2>6, <2>8 DEF Matching
    <3>2. w = IF v = "no" THEN v ELSE IF p.negated THEN "no" ELSE "yes"
      BY <2>3, <2>4, <2>8 DEF ReadPattern
    <3>3. (\E i \in b : ps[i].negated) <=> (\E i \in a : ps[i].negated) \/ p.negated
      BY <2>1, <3>1
    <3>4. v = "no" <=> \E i \in a : ps[i].negated
      BY <2>5, <2>6 DEF Decided
    <3>5. w # "none" /\ (w = "no" <=> v = "no" \/ p.negated)
      BY <3>2
    <3>6. b # {}
      BY <3>1
    <3> QED BY <2>1, <2>6, <3>3, <3>4, <3>5, <3>6 DEF Decided
  <2> QED BY <2>7, <2>8
<1>6. Nat \subseteq S
  <2> HIDE DEF S
  <2> QED BY <1>4, <1>5, NatSetInduction
<1>7. Decided(ps, l, acc[l]) /\ acc[l] \in Verdict
  BY <1>3, <1>6
<1>8. Matching(ps, l) = {i \in DOMAIN ps : GlobMatches(ps[i].glob, HostName)}
  BY <1>1 DEF Matching
<1>9. PICK v : v = acc[l]
  OBVIOUS
<1>10. v \in Verdict /\ Decided(ps, l, v)
  BY <1>7, <1>9
<1>11. v = "yes" <=> v # "no" /\ v # "none"
  BY <1>10 DEF Verdict
<1>12. BlockApplies(ps) <=> /\ \E i \in Matching(ps, l) : ~ps[i].negated
                            /\ \A i \in Matching(ps, l) : ~ps[i].negated
  BY <1>8, Zenon DEF BlockApplies
<1>13. v # "no" <=> \A i \in Matching(ps, l) : ~ps[i].negated
  BY <1>10 DEF Decided
<1>14. v # "none" <=> Matching(ps, l) # {}
  BY <1>10 DEF Decided
<1> QED BY <1>2, <1>9, <1>11, <1>12, <1>13, <1>14

(***************************************************************************)
(* The files that the configuration names                                  *)
(***************************************************************************)
Acc == [active : BOOLEAN, files : Seq(KeyFile)]
NothingNamed == [active |-> FALSE, files |-> <<>>]

ReadLine(line, acc) ==
  CASE line.key = "host" -> [acc EXCEPT !.active = ClauseMatches(line.patterns)]
    [] line.key = "identityfile" /\ acc.active -> [acc EXCEPT !.files = Append(@, line.file)]
    [] OTHER -> acc

LEMMA LineCases ==
  ASSUME NEW acc, NEW line, NEW r, r = ReadLine(line, acc)
  PROVE  /\ line.key = "host" => r = [acc EXCEPT !.active = ClauseMatches(line.patterns)]
         /\ line.key = "identityfile" /\ acc.active => r = [acc EXCEPT !.files = Append(@, line.file)]
         /\ line.key # "host" /\ ~(line.key = "identityfile" /\ acc.active) => r = acc
<1>1. "host" # "identityfile"
  OBVIOUS
<1> QED BY <1>1, Zenon DEF ReadLine

LEMMA FilesStep ==
  ASSUME NEW acc \in Acc, NEW line \in ConfigLine
  PROVE  ReadLine(line, acc) \in Acc
<1>1. PICK r : r = ReadLine(line, acc)
  OBVIOUS
<1>2. [acc EXCEPT !.active = ClauseMatches(line.patterns)] \in Acc
  BY DEF Acc, ClauseMatches
<1>3. ASSUME line.key = "identityfile" PROVE [acc EXCEPT !.files = Append(@, line.file)] \in Acc
  <2>1. line.file \in KeyFile
    BY <1>3 DEF ConfigLine, OtherLine
  <2> QED BY <2>1 DEF Acc
<1>4. CASE line.key = "host"
  BY <1>1, <1>2, <1>4, LineCases
<1>5. CASE line.key = "identityfile" /\ acc.active
  BY <1>1, <1>3, <1>5, LineCases
<1>6. CASE line.key # "host" /\ ~(line.key = "identityfile" /\ acc.active)
  BY <1>1, <1>6, LineCases
<1> QED BY <1>4, <1>5, <1>6

FilesRun(acc, conf) ==
  /\ acc[0] = NothingNamed
  /\ \A i \in 0..Len(conf) : acc[i] \in Acc
  /\ \A i \in 1..Len(conf) : acc[i] = ReadLine(conf[i], acc[i - 1])

LEMMA FilesRuns ==
  ASSUME NEW conf \in Seq(ConfigLine)
  PROVE  \E acc : FilesRun(acc, conf) /\ IdentityFiles(conf) = acc[Len(conf)].files
<1> DEFINE N == Len(conf)
           F(h) == [s \in SUBSET (1..N) |->
                      IF s = {} THEN NothingNamed ELSE ReadLine(conf[Max(s)], h[s \ {Max(s)}])]
           step == [i \in 1..N |-> [acc \in Acc |-> ReadLine(conf[i], acc)]]
           h == CHOOSE h : h = F(h)
<1>1. N \in Nat /\ NothingNamed \in Acc /\ DOMAIN conf = 1..N /\ \A i \in 1..N : conf[i] \in ConfigLine
  BY DEF Acc, NothingNamed
<1>2. \A line \in ConfigLine, acc \in Acc : ReadLine(line, acc) \in Acc
  BY FilesStep
<1>3. IdentityFiles(conf) = h[1..N].files
  BY <1>1, Zenon DEF IdentityFiles, FoldLeft, MapThenFoldSet, ReadLine, NothingNamed
<1>4. step \in [1..N -> [Acc -> Acc]]
  <2> HIDE DEF N
  <2> QED BY <1>1, <1>2
<1>5. PICK it : IsIter(it, N, Acc, NothingNamed, step)
  <2> HIDE DEF step, N
  <2> QED BY <1>1, <1>4, IterExists
<1>6. \A s \in SUBSET (1..N) : s # {} => Max(s) \in 1..N
  <2> HIDE DEF N
  <2> QED BY <1>1, MaxOfInitial
<1>7. it = F(it)
  <2>1. ASSUME NEW s \in SUBSET (1..N), s # {} PROVE it[s] = ReadLine(conf[Max(s)], it[s \ {Max(s)}])
    <3>1. it[s \ {Max(s)}] \in Acc
      BY <1>5 DEF IsIter
    <3>2. it[s] = step[Max(s)][it[s \ {Max(s)}]]
      BY <1>5, <2>1 DEF IsIter
    <3> QED BY <1>6, <2>1, <3>1, <3>2
  <2> QED BY <2>1, <1>5 DEF IsIter
<1>8. h = F(h)
  BY <1>7
<1>9. TakesSteps(h, N, Acc, NothingNamed, step)
  <2> HIDE DEF h
  <2>1. h[{}] = NothingNamed
    BY <1>8
  <2>2. ASSUME NEW s \in SUBSET (1..N), s # {}, h[s \ {Max(s)}] \in Acc
        PROVE  h[s] = step[Max(s)][h[s \ {Max(s)}]]
    <3>1. h[s] = ReadLine(conf[Max(s)], h[s \ {Max(s)}])
      BY <1>8, <2>2
    <3> QED BY <1>6, <2>2, <3>1
  <2> QED BY <2>1, <2>2 DEF TakesSteps
<1>10. PICK acc : IsRun(acc, N, Acc, NothingNamed, step) /\ acc[N] = h[1..N]
  <2> HIDE DEF h, step, N
  <2> QED BY <1>1, <1>4, <1>9, FoldRun
<1>11. FilesRun(acc, conf)
  <2>1. ASSUME NEW i \in 1..N PROVE acc[i] = ReadLine(conf[i], acc[i - 1])
    <3>1. i - 1 \in 0..N
      BY <1>1
    <3>2. acc[i - 1] \in Acc /\ acc[i] = step[i][acc[i - 1]]
      BY <1>10, <3>1 DEF IsRun
    <3> QED BY <3>2
  <2> QED BY <1>10, <2>1 DEF IsRun, FilesRun
<1> QED BY <1>3, <1>10, <1>11

LEMMA IdentityFilesTyped ==
  ASSUME NEW conf \in Seq(ConfigLine)
  PROVE  IdentityFiles(conf) \in Seq(KeyFile)
<1>1. PICK acc : FilesRun(acc, conf) /\ IdentityFiles(conf) = acc[Len(conf)].files
  BY FilesRuns
<1>2. acc[Len(conf)] \in Acc
  BY <1>1 DEF FilesRun
<1> QED BY <1>1, <1>2 DEF Acc

\* What is looked for: what the configuration names, then the defaults.
AllFiles(conf) == IdentityFiles(conf) \o Default

LEMMA AllFilesTyped ==
  ASSUME NEW conf \in Seq(ConfigLine)
  PROVE  AllFiles(conf) \in Seq(KeyFile)
BY IdentityFilesTyped, DefaultAssumption DEF AllFiles

\* Line k names a file that is tried.
Names(conf, k) == conf[k].key = "identityfile" /\ Applies(conf, k)

\* w says at which line each file of the list is named.
Increasing(w, l) == \A p, q \in 1..l : p < q => w[p] < w[q]
Listed(files, conf, n, w) ==
  /\ w \in [1..Len(files) -> 1..n] /\ Increasing(w, Len(files))
  /\ \A p \in 1..Len(files) : Names(conf, w[p]) /\ files[p] = conf[w[p]].file
  /\ \A k \in 1..n : Names(conf, k) => \E p \in 1..Len(files) : w[p] = k

LEMMA AppliesNext ==
  ASSUME NEW conf \in Seq(ConfigLine), NEW n \in 0..Len(conf) - 1
  PROVE  /\ conf[n + 1].key = "host" =>
              (Applies(conf, n + 2) <=> BlockApplies(conf[n + 1].patterns))
         /\ conf[n + 1].key # "host" => (Applies(conf, n + 2) <=> Applies(conf, n + 1))
<1>1. PICK a, b : a = Blocks(conf, n + 1) /\ b = Blocks(conf, n + 2)
  OBVIOUS
<1>2. n \in Nat /\ (n + 2) - 1 = n + 1 /\ (n + 1) - 1 = n
  OBVIOUS
<1>3. a = {i \in 1..n : conf[i].key = "host"} /\ b = {i \in 1..n + 1 : conf[i].key = "host"}
  BY <1>1, <1>2, Zenon DEF Blocks
<1>4. ASSUME conf[n + 1].key = "host"
      PROVE  Applies(conf, n + 2) <=> BlockApplies(conf[n + 1].patterns)
  <2>1. n + 1 \in b /\ \A j \in b : j <= n + 1
    BY <1>2, <1>3, <1>4
  <2>2. \A i \in b : (\A j \in b : j <= i) => i = n + 1
    BY <1>2, <1>3, <2>1
  <2> QED BY <1>1, <2>1, <2>2 DEF Applies
<1>5. ASSUME conf[n + 1].key # "host" PROVE Applies(conf, n + 2) <=> Applies(conf, n + 1)
  <2>1. b = a
    BY <1>2, <1>3, <1>5
  <2> QED BY <1>1, <2>1, Zenon DEF Applies
<1> QED BY <1>4, <1>5

\* One more line that names none, and one that does.
LEMMA ListedSkips ==
  ASSUME NEW files \in Seq(KeyFile), NEW conf, NEW n \in Nat, NEW w,
         Listed(files, conf, n, w), ~Names(conf, n + 1)
  PROVE  Listed(files, conf, n + 1, w)
<1>1. PICK l \in Nat : l = Len(files)
  OBVIOUS
<1>2. w \in [1..l -> 1..n + 1]
  BY <1>1 DEF Listed
<1>3. \A k \in 1..n + 1 : k \in 1..n \/ k = n + 1
  OBVIOUS
<1> QED BY <1>1, <1>2, <1>3 DEF Listed

LEMMA ListedGrows ==
  ASSUME NEW files \in Seq(KeyFile), NEW conf, NEW n \in Nat, NEW w,
         Listed(files, conf, n, w), Names(conf, n + 1), NEW f \in KeyFile, f = conf[n + 1].file,
         NEW more, more = Append(files, f)
  PROVE  \E x : Listed(more, conf, n + 1, x)
<1>1. PICK l \in Nat : l = Len(files)
  OBVIOUS
<1>2. /\ more \in Seq(KeyFile) /\ Len(more) = l + 1 /\ more[l + 1] = f
      /\ \A p \in 1..l : more[p] = files[p]
  BY <1>1, AppendProperties
<1>3. /\ w \in [1..l -> 1..n]
      /\ \A p, q \in 1..l : p < q => w[p] < w[q]
      /\ \A p \in 1..l : Names(conf, w[p]) /\ files[p] = conf[w[p]].file
      /\ \A k \in 1..n : Names(conf, k) => \E p \in 1..l : w[p] = k
  BY <1>1 DEF Listed, Increasing
<1>4. PICK x : x = [p \in 1..l + 1 |-> IF p = l + 1 THEN n + 1 ELSE w[p]]
  OBVIOUS
<1>5. \A p \in 1..l + 1 : p \in 1..l \/ p = l + 1
  OBVIOUS
<1>6. x[l + 1] = n + 1 /\ \A p \in 1..l : x[p] = w[p] /\ x[p] \in 1..n
  BY <1>3, <1>4
<1>7. x \in [1..l + 1 -> 1..n + 1]
  <2>1. ASSUME NEW p \in 1..l + 1 PROVE x[p] \in 1..n + 1
    <3>1. \A k \in 1..n : k \in 1..n + 1
      OBVIOUS
    <3>2. n + 1 \in 1..n + 1
      OBVIOUS
    <3> QED BY <1>5, <1>6, <3>1, <3>2
  <2> QED BY <1>4, <2>1
<1>8. Increasing(x, l + 1)
  <2> SUFFICES ASSUME NEW p \in 1..l + 1, NEW q \in 1..l + 1, p < q PROVE x[p] < x[q]
    BY DEF Increasing
  <2>1. p \in 1..l
    OBVIOUS
  <2>2. CASE q = l + 1
    BY <1>6, <2>1, <2>2
  <2>3. CASE q \in 1..l
    BY <1>3, <1>6, <2>1, <2>3
  <2> QED BY <1>5, <2>2, <2>3
<1>9. ASSUME NEW p \in 1..l + 1 PROVE Names(conf, x[p]) /\ more[p] = conf[x[p]].file
  <2>1. CASE p = l + 1
    BY <1>2, <1>6, <2>1
  <2>2. CASE p \in 1..l
    BY <1>2, <1>3, <1>6, <2>2
  <2> QED BY <1>5, <2>1, <2>2
<1>10. ASSUME NEW k \in 1..n + 1, Names(conf, k) PROVE \E p \in 1..l + 1 : x[p] = k
  <2>1. CASE k = n + 1
    BY <1>6, <2>1
  <2>2. CASE k \in 1..n
    <3>1. PICK p \in 1..l : w[p] = k
      BY <1>3, <1>10, <2>2
    <3> QED BY <1>6, <3>1
  <2>3. k = n + 1 \/ k \in 1..n
    OBVIOUS
  <2> QED BY <2>1, <2>2, <2>3
<1>11. Len(more) = l + 1
  BY <1>2
<1>12. Listed(more, conf, n + 1, x)
  BY <1>7, <1>8, <1>9, <1>10, <1>11 DEF Listed
<1> QED BY <1>12

\* After n lines: whether the block applies, and where the files are named.
ReadUpTo(acc, conf, n) ==
  /\ acc.active <=> Applies(conf, n + 1)
  /\ \E w : Listed(acc.files, conf, n, w)

LEMMA ReadLineIs ==
  ASSUME NEW conf \in Seq(ConfigLine), NEW n \in 0..Len(conf) - 1, NEW acc \in Acc,
         ReadUpTo(acc, conf, n), NEW r, r = ReadLine(conf[n + 1], acc)
  PROVE  ReadUpTo(r, conf, n + 1)
<1>1. PICK line \in ConfigLine : line = conf[n + 1]
  <2>1. n + 1 \in 1..Len(conf)
    OBVIOUS
  <2> QED BY <2>1
<1>2. PICK w : Listed(acc.files, conf, n, w)
  BY DEF ReadUpTo
<1>3. n \in Nat /\ (n + 1) + 1 = n + 2 /\ acc.files \in Seq(KeyFile) /\ "host" # "identityfile"
  BY DEF Acc
<1>4. acc.active <=> Applies(conf, n + 1)
  BY DEF ReadUpTo
<1>8. r = ReadLine(line, acc)
  BY <1>1
<1>5. CASE line.key = "host"
  <2>1. r = [acc EXCEPT !.active = ClauseMatches(line.patterns)]
    BY <1>8, <1>5, LineCases
  <2>2. r.files = acc.files /\ (r.active <=> ClauseMatches(line.patterns))
    BY <2>1 DEF Acc
  <2>3. line.patterns \in Seq(HostPattern)
    BY <1>5 DEF ConfigLine, OtherLine, HostPattern
  <2>4. r.active <=> Applies(conf, n + 2)
    BY <1>1, <1>5, <2>2, <2>3, AppliesNext, ClauseMatchesIs
  <2>5. ~Names(conf, n + 1)
    BY <1>1, <1>3, <1>5 DEF Names
  <2>6. Listed(r.files, conf, n + 1, w)
    BY <1>2, <1>3, <2>2, <2>5, ListedSkips
  <2> QED BY <1>3, <2>4, <2>6 DEF ReadUpTo
<1>6. CASE line.key = "identityfile" /\ acc.active
  <2>1. r = [acc EXCEPT !.files = Append(@, line.file)]
    BY <1>8, <1>6, LineCases
  <2>2. r.files = Append(acc.files, line.file) /\ r.active = acc.active
    BY <2>1 DEF Acc
  <2>3. line.file \in KeyFile
    BY <1>6 DEF ConfigLine, OtherLine
  <2>4. Applies(conf, n + 2) <=> Applies(conf, n + 1)
    BY <1>1, <1>3, <1>6, AppliesNext
  <2>5. Names(conf, n + 1)
    BY <1>1, <1>4, <1>6 DEF Names
  <2>6. \E x : Listed(r.files, conf, n + 1, x)
    BY <1>1, <1>2, <1>3, <2>2, <2>3, <2>5, ListedGrows
  <2> QED BY <1>3, <1>4, <1>6, <2>2, <2>4, <2>6 DEF ReadUpTo
<1>7. CASE line.key # "host" /\ ~(line.key = "identityfile" /\ acc.active)
  <2>1. r = acc
    BY <1>8, <1>7, LineCases
  <2>2. ~Names(conf, n + 1)
    BY <1>1, <1>4, <1>7 DEF Names
  <2>3. Applies(conf, n + 2) <=> Applies(conf, n + 1)
    BY <1>1, <1>7, AppliesNext
  <2>4. Listed(r.files, conf, n + 1, w)
    BY <1>2, <1>3, <2>1, <2>2, ListedSkips
  <2> QED BY <1>3, <1>4, <2>1, <2>3, <2>4 DEF ReadUpTo
<1> QED BY <1>5, <1>6, <1>7

LEMMA IdentityFilesListed ==
  ASSUME NEW conf \in Seq(ConfigLine)
  PROVE  \E w : Listed(IdentityFiles(conf), conf, Len(conf), w)
<1>1. PICK l \in Nat : l = Len(conf)
  OBVIOUS
<1>2. PICK acc : FilesRun(acc, conf) /\ IdentityFiles(conf) = acc[l].files
  BY <1>1, FilesRuns
<1>3. /\ acc[0] = NothingNamed
      /\ \A i \in 0..l : acc[i] \in Acc
      /\ \A i \in 1..l : acc[i] = ReadLine(conf[i], acc[i - 1])
  BY <1>1, <1>2 DEF FilesRun
<1> DEFINE S == {n \in Nat : n <= l => ReadUpTo(acc[n], conf, n)}
<1>4. 0 \in S
  <2>1. NothingNamed.active = FALSE /\ NothingNamed.files = <<>>
    BY DEF NothingNamed
  <2>2. ~Applies(conf, 0 + 1)
    BY DEF Applies, Blocks
  <2>3. Listed(<<>>, conf, 0, [p \in {} |-> 0])
    <3>1. Len(<<>>) = 0 /\ 1..0 = {}
      OBVIOUS
    <3> QED BY <3>1 DEF Listed, Increasing
  <2>4. ReadUpTo(NothingNamed, conf, 0)
    BY <2>1, <2>2, <2>3 DEF ReadUpTo
  <2> QED BY <1>3, <2>4
<1>5. ASSUME NEW n \in Nat, n \in S PROVE n + 1 \in S
  <2> SUFFICES ASSUME n + 1 <= l PROVE ReadUpTo(acc[n + 1], conf, n + 1)
    OBVIOUS
  <2>1. n \in 0..l /\ n + 1 \in 1..l /\ (n + 1) - 1 = n /\ n \in 0..Len(conf) - 1
    BY <1>1
  <2>2. PICK r : r = acc[n + 1]
    OBVIOUS
  <2>3. acc[n] \in Acc /\ r = ReadLine(conf[n + 1], acc[n])
    BY <1>3, <2>1, <2>2
  <2>4. ReadUpTo(acc[n], conf, n)
    BY <1>5
  <2> QED BY <2>1, <2>2, <2>3, <2>4, ReadLineIs
<1>6. Nat \subseteq S
  <2> HIDE DEF S
  <2> QED BY <1>4, <1>5, NatSetInduction
<1>7. ReadUpTo(acc[l], conf, l)
  BY <1>6
<1> QED BY <1>1, <1>2, <1>7 DEF ReadUpTo

(***************************************************************************)
(* The keys that are tried                                                 *)
(***************************************************************************)
\* Where each of all is mentioned.
AllMentioned(all, conf, w) ==
  /\ w \in [1..Len(all) -> Nat] /\ Increasing(w, Len(all))
  /\ \A p \in 1..Len(all) : w[p] \in Mentions(conf, all[p])
  /\ \A f \in KeyFile : \A k \in Mentions(conf, f) : \E p \in 1..Len(all) : w[p] = k /\ all[p] = f

LEMMA MentionsCases ==
  ASSUME NEW conf \in Seq(ConfigLine), NEW f, NEW k, NEW c \in Nat, c = Len(conf)
  PROVE  k \in Mentions(conf, f) <=>
           \/ k \in 1..c /\ Names(conf, k) /\ conf[k].file = f
           \/ \E i \in 1..Len(Default) : Default[i] = f /\ k = c + i
<1>1. DOMAIN conf = 1..c /\ DOMAIN Default = 1..Len(Default)
  BY DefaultAssumption
<1> QED BY <1>1 DEF Mentions, Names

LEMMA MentionedTogether ==
  ASSUME NEW conf \in Seq(ConfigLine)
  PROVE  \E w : AllMentioned(AllFiles(conf), conf, w)
<1>1. PICK files : files = IdentityFiles(conf)
  OBVIOUS
<1>2. files \in Seq(KeyFile)
  BY <1>1, IdentityFilesTyped
<1>3. PICK c \in Nat, l \in Nat, d \in Nat : c = Len(conf) /\ l = Len(files) /\ d = Len(Default)
  BY <1>2, DefaultAssumption
<1>4. PICK v : Listed(files, conf, c, v)
  BY <1>1, <1>3, IdentityFilesListed
<1>5. /\ v \in [1..l -> 1..c]
      /\ \A p, q \in 1..l : p < q => v[p] < v[q]
      /\ \A p \in 1..l : Names(conf, v[p]) /\ files[p] = conf[v[p]].file
      /\ \A k \in 1..c : Names(conf, k) => \E p \in 1..l : v[p] = k
  BY <1>3, <1>4 DEF Listed, Increasing
<1>6. PICK all : all = files \o Default
  OBVIOUS
<1>7. /\ all \in Seq(KeyFile) /\ Len(all) = l + d
      /\ \A p \in 1..l : all[p] = files[p]
      /\ \A p \in l + 1..l + d : all[p] = Default[p - l]
  <2>1. /\ files \o Default \in Seq(KeyFile) /\ Len(files \o Default) = Len(files) + Len(Default)
        /\ \A j \in 1..Len(files) : (files \o Default)[j] = files[j]
        /\ \A j \in Len(files) + 1..Len(files) + Len(Default) :
             (files \o Default)[j] = Default[j - Len(files)]
    BY <1>2, DefaultAssumption, Concat, ZenonT(30)
  <2> QED BY <1>3, <1>6, <2>1
<1>8. PICK w : w = [p \in 1..l + d |-> IF p <= l THEN v[p] ELSE c + (p - l)]
  OBVIOUS
<1>9. /\ \A p \in 1..l : w[p] = v[p] /\ w[p] \in 1..c
      /\ \A p \in l + 1..l + d : w[p] = c + (p - l) /\ w[p] > c
  <2>1. ASSUME NEW p \in 1..l PROVE w[p] = v[p] /\ w[p] \in 1..c
    <3>1. p \in 1..l + d /\ p <= l
      OBVIOUS
    <3> QED BY <1>5, <1>8, <3>1
  <2>2. ASSUME NEW p \in l + 1..l + d PROVE w[p] = c + (p - l) /\ w[p] > c
    <3>1. p \in 1..l + d /\ ~(p <= l) /\ c + (p - l) > c
      OBVIOUS
    <3> QED BY <1>8, <3>1
  <2> QED BY <2>1, <2>2
<1>10. \A p \in 1..l + d : p \in 1..l \/ p \in l + 1..l + d
  OBVIOUS
<1>11. w \in [1..l + d -> Nat]
  <2>1. ASSUME NEW p \in 1..l + d PROVE w[p] \in Nat
    <3>1. CASE p \in 1..l
      BY <1>9, <3>1
    <3>2. CASE p \in l + 1..l + d
      <4>1. c + (p - l) \in Nat
        BY <3>2
      <4> QED BY <1>9, <3>2, <4>1
    <3> QED BY <1>10, <3>1, <3>2
  <2> QED BY <1>8, <2>1
<1>12. Increasing(w, l + d)
  <2> SUFFICES ASSUME NEW p \in 1..l + d, NEW q \in 1..l + d, p < q PROVE w[p] < w[q]
    BY DEF Increasing
  <2>1. CASE p \in 1..l /\ q \in 1..l
    BY <1>5, <1>9, <2>1
  <2>2. CASE p \in 1..l /\ q \in l + 1..l + d
    <3>1. w[p] \in 1..c /\ w[q] = c + (q - l) /\ q - l >= 1
      BY <1>9, <2>2
    <3> QED BY <3>1
  <2>3. CASE p \in l + 1..l + d /\ q \in l + 1..l + d
    <3>1. w[p] = c + (p - l) /\ w[q] = c + (q - l)
      BY <1>9, <2>3
    <3> QED BY <3>1
  <2>4. p \in l + 1..l + d => q \in l + 1..l + d
    OBVIOUS
  <2> QED BY <1>10, <2>1, <2>2, <2>3, <2>4
<1>13. ASSUME NEW p \in 1..l + d PROVE w[p] \in Mentions(conf, all[p])
  <2>1. CASE p \in 1..l
    <3>1. w[p] \in 1..c /\ Names(conf, w[p]) /\ conf[w[p]].file = all[p]
      BY <1>5, <1>7, <1>9, <2>1
    <3> QED BY <1>3, <3>1, MentionsCases
  <2>2. CASE p \in l + 1..l + d
    <3>1. PICK i \in 1..d : i = p - l
      BY <2>2
    <3>2. Default[i] = all[p] /\ w[p] = c + i
      BY <1>7, <1>9, <2>2, <3>1
    <3>3. PICK k : k = w[p]
      OBVIOUS
    <3>4. \E j \in 1..Len(Default) : Default[j] = all[p] /\ k = c + j
      BY <1>3, <3>2, <3>3
    <3>5. k \in Mentions(conf, all[p])
      BY <1>3, <3>4, MentionsCases
    <3> QED BY <3>3, <3>5
  <2> QED BY <1>10, <2>1, <2>2
<1>14. ASSUME NEW f \in KeyFile, NEW k \in Mentions(conf, f)
       PROVE  \E p \in 1..l + d : w[p] = k /\ all[p] = f
  <2>1. \/ k \in 1..c /\ Names(conf, k) /\ conf[k].file = f
        \/ \E i \in 1..d : Default[i] = f /\ k = c + i
    BY <1>3, <1>14, MentionsCases
  <2>2. CASE k \in 1..c /\ Names(conf, k) /\ conf[k].file = f
    <3>1. PICK p \in 1..l : v[p] = k
      BY <1>5, <2>2
    <3>2. p \in 1..l + d
      OBVIOUS
    <3>3. w[p] = k /\ all[p] = f
      BY <1>5, <1>7, <1>9, <2>2, <3>1
    <3> QED BY <3>2, <3>3
  <2>3. CASE \E i \in 1..d : Default[i] = f /\ k = c + i
    <3>1. PICK i \in 1..d : Default[i] = f /\ k = c + i
      BY <2>3
    <3>2. PICK p \in l + 1..l + d : p - l = i
      <4>1. l + i \in l + 1..l + d /\ (l + i) - l = i
        OBVIOUS
      <4> QED BY <4>1
    <3>3. p \in 1..l + d
      OBVIOUS
    <3>4. w[p] = k /\ all[p] = f
      BY <1>7, <1>9, <3>1, <3>2
    <3> QED BY <3>3, <3>4
  <2> QED BY <2>1, <2>2, <2>3
<1>15. Len(all) = l + d
  BY <1>7
<1>16. AllMentioned(all, conf, w)
  BY <1>11, <1>12, <1>13, <1>14, <1>15 DEF AllMentioned
<1> QED BY <1>1, <1>6, <1>16 DEF AllFiles

\* Lists of keys that name no file twice.
KeyLists == {s \in Seq(KeyFile) : \A i, j \in 1..Len(s) : i # j => s[i] # s[j]}

AddKey(f, existing, out) ==
  IF f \in existing /\ ~Contains(out, f) THEN Append(out, f) ELSE out

LEMMA KeyAdded ==
  ASSUME NEW s \in KeyLists, NEW f \in KeyFile, NEW existing
  PROVE  AddKey(f, existing, s) \in KeyLists
<1> SUFFICES ASSUME ~Contains(s, f) PROVE Append(s, f) \in KeyLists
  BY DEF AddKey
<1>1. PICK n \in Nat : n = Len(s)
  BY DEF KeyLists
<1>2. PICK t \in Seq(KeyFile) : t = Append(s, f)
  <2>1. Append(s, f) \in Seq(KeyFile)
    BY AppendProperties DEF KeyLists
  <2> QED BY <2>1
<1>3. /\ Len(t) = n + 1 /\ t[n + 1] = f
      /\ \A i \in 1..n : t[i] = s[i]
  BY <1>1, <1>2, AppendProperties DEF KeyLists
<1>4. \A i \in 1..n : s[i] # f
  BY <1>1 DEF Contains, KeyLists
<1>5. \A i, j \in 1..n : i # j => s[i] # s[j]
  BY <1>1 DEF KeyLists
<1>6. ASSUME NEW i \in 1..n + 1, NEW j \in 1..n + 1, i # j PROVE t[i] # t[j]
  <2>1. i \in 1..n \/ i = n + 1
    OBVIOUS
  <2>2. j \in 1..n \/ j = n + 1
    OBVIOUS
  <2> QED BY <1>3, <1>4, <1>5, <1>6, <2>1, <2>2
<1>7. t \in KeyLists
  BY <1>2, <1>3, <1>6 DEF KeyLists
<1> QED BY <1>2, <1>7

NoKeys == <<>>

KeysRun(acc, all, existing) ==
  /\ acc[0] = NoKeys
  /\ \A i \in 0..Len(all) : acc[i] \in KeyLists
  /\ \A i \in 1..Len(all) : acc[i] = AddKey(all[i], existing, acc[i - 1])

LEMMA KeysRuns ==
  ASSUME NEW conf \in Seq(ConfigLine), NEW existing, NEW fs, fs = AllFiles(conf)
  PROVE  \E acc : KeysRun(acc, fs, existing) /\ KeysInDir(conf, existing) = acc[Len(fs)]
<1> DEFINE N == Len(fs)
           F(h) == [s \in SUBSET (1..N) |->
                      IF s = {} THEN NoKeys ELSE AddKey(fs[Max(s)], existing, h[s \ {Max(s)}])]
           step == [i \in 1..N |-> [out \in KeyLists |-> AddKey(fs[i], existing, out)]]
           h == CHOOSE h : h = F(h)
<1>1. fs \in Seq(KeyFile)
  BY AllFilesTyped
<1>2. KeysInDir(conf, existing) = h[1..N]
  <2>1. DOMAIN fs = 1..N
    BY <1>1
  <2> QED BY <2>1, Zenon DEF KeysInDir, FoldLeft, MapThenFoldSet, AddKey, NoKeys, AllFiles
<1>3. NoKeys \in KeyLists
  BY DEF KeyLists, NoKeys
<1>4. N \in Nat /\ \A i \in 1..N : fs[i] \in KeyFile
  BY <1>1
<1>5. \A f \in KeyFile, out \in KeyLists : AddKey(f, existing, out) \in KeyLists
  BY KeyAdded
<1>6. step \in [1..N -> [KeyLists -> KeyLists]]
  <2> HIDE DEF N
  <2> QED BY <1>4, <1>5
<1>7. PICK it : IsIter(it, N, KeyLists, NoKeys, step)
  <2> HIDE DEF step, N
  <2> QED BY <1>3, <1>4, <1>6, IterExists
<1>8. \A s \in SUBSET (1..N) : s # {} => Max(s) \in 1..N
  <2> HIDE DEF N
  <2> QED BY <1>4, MaxOfInitial
<1>9. it = F(it)
  <2>1. ASSUME NEW s \in SUBSET (1..N), s # {} PROVE it[s] = AddKey(fs[Max(s)], existing, it[s \ {Max(s)}])
    <3>1. it[s \ {Max(s)}] \in KeyLists
      BY <1>7 DEF IsIter
    <3>2. it[s] = step[Max(s)][it[s \ {Max(s)}]]
      BY <1>7, <2>1 DEF IsIter
    <3> QED BY <1>8, <2>1, <3>1, <3>2
  <2> QED BY <2>1, <1>7 DEF IsIter
<1>10. h = F(h)
  BY <1>9
<1>11. TakesSteps(h, N, KeyLists, NoKeys, step)
  <2> HIDE DEF h
  <2>1. h[{}] = NoKeys
    BY <1>10
  <2>2. ASSUME NEW s \in SUBSET (1..N), s # {}, h[s \ {Max(s)}] \in KeyLists
        PROVE  h[s] = step[Max(s)][h[s \ {Max(s)}]]
    <3>1. h[s] = AddKey(fs[Max(s)], existing, h[s \ {Max(s)}])
      BY <1>10, <2>2
    <3> QED BY <1>8, <2>2, <3>1
  <2> QED BY <2>1, <2>2 DEF TakesSteps
<1>12. PICK acc : IsRun(acc, N, KeyLists, NoKeys, step) /\ acc[N] = h[1..N]
  <2>1. N \in Nat
    BY <1>4
  <2> HIDE DEF h, step, N
  <2> QED BY <1>3, <1>6, <1>11, <2>1, FoldRun
<1>13. KeysRun(acc, fs, existing)
  <2>1. ASSUME NEW i \in 1..N PROVE acc[i] = AddKey(fs[i], existing, acc[i - 1])
    <3>1. i - 1 \in 0..N
      BY <1>4
    <3>2. acc[i - 1] \in KeyLists /\ acc[i] = step[i][acc[i - 1]]
      BY <1>12, <3>1 DEF IsRun
    <3> QED BY <3>2
  <2> QED BY <1>12, <2>1 DEF IsRun, KeysRun
<1> QED BY <1>2, <1>12, <1>13

\* The keys of an attempt are files, each named once.
LEMMA KeysInDirTyped ==
  ASSUME NEW conf \in Seq(ConfigLine), NEW existing
  PROVE  KeysInDir(conf, existing) \in KeyLists
<1>1. PICK fs : fs = AllFiles(conf)
  OBVIOUS
<1>2. PICK acc : KeysRun(acc, fs, existing) /\ KeysInDir(conf, existing) = acc[Len(fs)]
  BY <1>1, KeysRuns
<1>3. fs \in Seq(KeyFile)
  BY <1>1, AllFilesTyped
<1> QED BY <1>2, <1>3 DEF KeysRun

\* u says where in all each key stands for the first time; all that exist
\* among the first n are keys.
Sieved(out, all, existing, n, u) ==
  /\ u \in [1..Len(out) -> 1..n] /\ Increasing(u, Len(out))
  /\ \A q \in 1..Len(out) : out[q] = all[u[q]] /\ out[q] \in existing
  /\ \A q \in 1..Len(out) : \A p \in 1..n : all[p] = out[q] => u[q] <= p
  /\ \A p \in 1..n : all[p] \in existing => \E q \in 1..Len(out) : out[q] = all[p]

LEMMA SievedDrops ==
  ASSUME NEW out \in Seq(KeyFile), NEW all, NEW existing, NEW n \in Nat, NEW u,
         Sieved(out, all, existing, n, u),
         all[n + 1] \in existing => Contains(out, all[n + 1])
  PROVE  Sieved(out, all, existing, n + 1, u)
<1>1. PICK l \in Nat : l = Len(out)
  OBVIOUS
<1>2. /\ u \in [1..l -> 1..n] /\ Increasing(u, l)
      /\ \A q \in 1..l : out[q] = all[u[q]] /\ out[q] \in existing
      /\ \A q \in 1..l : \A p \in 1..n : all[p] = out[q] => u[q] <= p
      /\ \A p \in 1..n : all[p] \in existing => \E q \in 1..l : out[q] = all[p]
  BY <1>1 DEF Sieved
<1>3. \A p \in 1..n + 1 : p \in 1..n \/ p = n + 1
  OBVIOUS
<1>4. u \in [1..l -> 1..n + 1] /\ \A q \in 1..l : u[q] <= n + 1
  <2>1. u \in [1..l -> 1..n]
    BY <1>2
  <2>2. \A k \in 1..n : k \in 1..n + 1 /\ k <= n + 1
    OBVIOUS
  <2> QED BY <2>1, <2>2
<1>5. all[n + 1] \in existing => \E q \in 1..l : out[q] = all[n + 1]
  BY <1>1 DEF Contains
<1>6. \A q \in 1..l : \A p \in 1..n + 1 : all[p] = out[q] => u[q] <= p
  BY <1>2, <1>3, <1>4
<1>7. \A p \in 1..n + 1 : all[p] \in existing => \E q \in 1..l : out[q] = all[p]
  BY <1>2, <1>3, <1>5
<1> QED BY <1>1, <1>2, <1>4, <1>6, <1>7 DEF Sieved

LEMMA SievedGrows ==
  ASSUME NEW out \in Seq(KeyFile), NEW all, NEW existing, NEW n \in Nat, NEW u,
         Sieved(out, all, existing, n, u),
         NEW f \in KeyFile, f = all[n + 1], f \in existing, ~Contains(out, f),
         NEW more, more = Append(out, f)
  PROVE  \E x : Sieved(more, all, existing, n + 1, x)
<1>1. PICK l \in Nat : l = Len(out)
  OBVIOUS
<1>2. /\ u \in [1..l -> 1..n]
      /\ \A p, q \in 1..l : p < q => u[p] < u[q]
      /\ \A q \in 1..l : out[q] = all[u[q]] /\ out[q] \in existing
      /\ \A q \in 1..l : \A p \in 1..n : all[p] = out[q] => u[q] <= p
      /\ \A p \in 1..n : all[p] \in existing => \E q \in 1..l : out[q] = all[p]
  BY <1>1 DEF Sieved, Increasing
<1>3. /\ Len(more) = l + 1 /\ more[l + 1] = f
      /\ \A q \in 1..l : more[q] = out[q]
  BY <1>1, AppendProperties
<1>4. PICK x : x = [q \in 1..l + 1 |-> IF q = l + 1 THEN n + 1 ELSE u[q]]
  OBVIOUS
<1>5. \A q \in 1..l + 1 : q \in 1..l \/ q = l + 1
  OBVIOUS
<1>6. x[l + 1] = n + 1 /\ \A q \in 1..l : x[q] = u[q] /\ x[q] \in 1..n
  <2>1. ASSUME NEW q \in 1..l PROVE x[q] = u[q] /\ u[q] \in 1..n
    <3>1. q \in 1..l + 1 /\ q # l + 1
      OBVIOUS
    <3>2. u \in [1..l -> 1..n]
      BY <1>2
    <3> QED BY <1>4, <3>1, <3>2
  <2>2. l + 1 \in 1..l + 1
    OBVIOUS
  <2>3. x[l + 1] = n + 1
    BY <1>4, <2>2
  <2> QED BY <2>1, <2>3
<1>7. x \in [1..l + 1 -> 1..n + 1]
  <2>1. ASSUME NEW q \in 1..l + 1 PROVE x[q] \in 1..n + 1
    <3>1. \A k \in 1..n : k \in 1..n + 1
      OBVIOUS
    <3>2. n + 1 \in 1..n + 1
      OBVIOUS
    <3> QED BY <1>5, <1>6, <3>1, <3>2
  <2> QED BY <1>4, <2>1
<1>8. Increasing(x, l + 1)
  <2> SUFFICES ASSUME NEW p \in 1..l + 1, NEW q \in 1..l + 1, p < q PROVE x[p] < x[q]
    BY DEF Increasing
  <2>1. p \in 1..l
    OBVIOUS
  <2>2. CASE q = l + 1
    BY <1>6, <2>1, <2>2
  <2>3. CASE q \in 1..l
    BY <1>2, <1>6, <2>1, <2>3
  <2> QED BY <1>5, <2>2, <2>3
<1>9. ASSUME NEW q \in 1..l + 1 PROVE more[q] = all[x[q]] /\ more[q] \in existing
  <2>1. CASE q = l + 1
    BY <1>3, <1>6, <2>1
  <2>2. CASE q \in 1..l
    BY <1>2, <1>3, <1>6, <2>2
  <2> QED BY <1>5, <2>1, <2>2
<1>10. \A q \in 1..l : out[q] # f
  BY <1>1 DEF Contains
<1>11. ASSUME NEW q \in 1..l + 1, NEW p \in 1..n + 1, all[p] = more[q] PROVE x[q] <= p
  <2>1. p = n + 1 \/ p \in 1..n
    OBVIOUS
  <2>2. CASE q = l + 1 /\ p = n + 1
    BY <1>6, <2>2
  <2>3. CASE q = l + 1 /\ p \in 1..n
    BY <1>2, <1>3, <1>10, <1>11, <2>3
  <2>4. CASE q \in 1..l /\ p = n + 1
    BY <1>6, <2>4
  <2>5. CASE q \in 1..l /\ p \in 1..n
    BY <1>2, <1>3, <1>6, <1>11, <2>5
  <2> QED BY <1>5, <2>1, <2>2, <2>3, <2>4, <2>5
<1>12. ASSUME NEW p \in 1..n + 1, all[p] \in existing PROVE \E q \in 1..l + 1 : more[q] = all[p]
  <2>1. CASE p = n + 1
    BY <1>3, <2>1
  <2>2. CASE p \in 1..n
    <3>1. PICK q \in 1..l : out[q] = all[p]
      BY <1>2, <1>12, <2>2
    <3>2. q \in 1..l + 1
      OBVIOUS
    <3> QED BY <1>3, <3>1, <3>2
  <2>3. p = n + 1 \/ p \in 1..n
    OBVIOUS
  <2> QED BY <2>1, <2>2, <2>3
<1>13. Len(more) = l + 1
  BY <1>3
<1>14. Sieved(more, all, existing, n + 1, x)
  BY <1>7, <1>8, <1>9, <1>11, <1>12, <1>13 DEF Sieved
<1> QED BY <1>14

LEMMA KeysSieved ==
  ASSUME NEW all \in Seq(KeyFile), NEW existing, NEW acc, KeysRun(acc, all, existing)
  PROVE  \E u : Sieved(acc[Len(all)], all, existing, Len(all), u)
<1>1. PICK l \in Nat : l = Len(all)
  OBVIOUS
<1>2. /\ acc[0] = <<>>
      /\ \A i \in 0..l : acc[i] \in KeyLists
      /\ \A i \in 1..l : acc[i] = AddKey(all[i], existing, acc[i - 1])
  BY <1>1 DEF KeysRun, NoKeys
<1> DEFINE S == {n \in Nat : n <= l => \E u : Sieved(acc[n], all, existing, n, u)}
<1>3. 0 \in S
  <2>1. Len(<<>>) = 0 /\ 1..0 = {}
    OBVIOUS
  <2>2. Sieved(<<>>, all, existing, 0, [q \in {} |-> 0])
    BY <2>1 DEF Sieved, Increasing
  <2> QED BY <1>2, <2>2
<1>4. ASSUME NEW n \in Nat, n \in S PROVE n + 1 \in S
  <2> SUFFICES ASSUME n + 1 <= l PROVE \E u : Sieved(acc[n + 1], all, existing, n + 1, u)
    OBVIOUS
  <2>1. n \in 0..l /\ n + 1 \in 1..l /\ (n + 1) - 1 = n
    OBVIOUS
  <2>2. PICK out, more, f : out = acc[n] /\ more = acc[n + 1] /\ f = all[n + 1]
    OBVIOUS
  <2>3. out \in Seq(KeyFile) /\ f \in KeyFile /\ more = AddKey(f, existing, out)
    BY <1>1, <1>2, <2>1, <2>2 DEF KeyLists
  <2>4. PICK u : Sieved(out, all, existing, n, u)
    BY <1>4, <2>2
  <2>5. CASE f \in existing /\ ~Contains(out, f)
    <3>1. more = Append(out, f)
      BY <2>3, <2>5 DEF AddKey
    <3>2. \E x : Sieved(more, all, existing, n + 1, x)
      BY <2>2, <2>3, <2>4, <2>5, <3>1, SievedGrows
    <3> QED BY <2>2, <3>2
  <2>6. CASE ~(f \in existing /\ ~Contains(out, f))
    <3>1. more = out
      BY <2>3, <2>6, Zenon DEF AddKey
    <3>2. Sieved(more, all, existing, n + 1, u)
      BY <2>2, <2>3, <2>4, <2>6, <3>1, SievedDrops
    <3> QED BY <2>2, <3>2
  <2> QED BY <2>5, <2>6
<1>5. Nat \subseteq S
  <2> HIDE DEF S
  <2> QED BY <1>3, <1>4, NatSetInduction
<1> QED BY <1>1, <1>5

\* The keys of an attempt are those of the reference.
LEMMA KeysInDirIs ==
  ASSUME NEW conf \in Seq(ConfigLine), NEW existing
  PROVE  IsIdentityList(KeysInDir(conf, existing), conf, existing)
<1>1. PICK all : all = AllFiles(conf)
  OBVIOUS
<1>2. all \in Seq(KeyFile)
  BY <1>1, AllFilesTyped
<1>3. PICK acc : KeysRun(acc, all, existing) /\ KeysInDir(conf, existing) = acc[Len(all)]
  BY <1>1, KeysRuns
<1>4. PICK keys : keys = KeysInDir(conf, existing)
  OBVIOUS
<1>5. PICK n \in Nat, l \in Nat : n = Len(all) /\ l = Len(keys) /\ DOMAIN keys = 1..l
  <2>1. keys \in Seq(KeyFile)
    BY <1>4, KeysInDirTyped DEF KeyLists
  <2> QED BY <1>2, <2>1
<1>6. PICK w : AllMentioned(all, conf, w)
  BY <1>1, MentionedTogether
<1>7. PICK u : Sieved(keys, all, existing, n, u)
  BY <1>2, <1>3, <1>4, <1>5, KeysSieved
<1>8. /\ w \in [1..n -> Nat]
      /\ \A p, q \in 1..n : p < q => w[p] < w[q]
      /\ \A p \in 1..n : w[p] \in Mentions(conf, all[p])
      /\ \A f \in KeyFile : \A k \in Mentions(conf, f) : \E p \in 1..n : w[p] = k /\ all[p] = f
  BY <1>5, <1>6 DEF AllMentioned, Increasing
<1>9. /\ u \in [1..l -> 1..n]
      /\ \A p, q \in 1..l : p < q => u[p] < u[q]
      /\ \A q \in 1..l : keys[q] = all[u[q]] /\ keys[q] \in existing
      /\ \A q \in 1..l : \A p \in 1..n : all[p] = keys[q] => u[q] <= p
      /\ \A p \in 1..n : all[p] \in existing => \E q \in 1..l : keys[q] = all[p]
  BY <1>5, <1>7 DEF Sieved, Increasing
<1>10. ASSUME NEW f \in KeyFile
       PROVE  Contains(keys, f) <=> f \in existing /\ Mentions(conf, f) # {}
  <2>1. Contains(keys, f) <=> \E q \in 1..l : keys[q] = f
    BY <1>5 DEF Contains
  <2>2. ASSUME NEW q \in 1..l, keys[q] = f PROVE f \in existing /\ Mentions(conf, f) # {}
    <3>1. u[q] \in 1..n /\ all[u[q]] = f /\ f \in existing
      BY <1>9, <2>2
    <3>2. w[u[q]] \in Mentions(conf, f)
      BY <1>8, <3>1
    <3> QED BY <3>1, <3>2
  <2>3. ASSUME f \in existing, NEW k \in Mentions(conf, f) PROVE \E q \in 1..l : keys[q] = f
    <3>1. PICK p \in 1..n : all[p] = f
      BY <1>8, <2>3
    <3> QED BY <1>9, <2>3, <3>1
  <2> QED BY <2>1, <2>2, <2>3
<1>11. ASSUME NEW i \in 1..l, NEW j \in 1..l, i < j
       PROVE  \E m \in Mentions(conf, keys[i]) : \A k \in Mentions(conf, keys[j]) : m < k
  <2>1. PICK p \in 1..n, q \in 1..n : p = u[i] /\ q = u[j]
    BY <1>9
  <2>2. p < q /\ keys[i] = all[p] /\ keys[j] = all[q]
    BY <1>9, <1>11, <2>1
  <2>3. w[p] \in Mentions(conf, keys[i])
    BY <1>8, <2>2
  <2>4. ASSUME NEW k \in Mentions(conf, keys[j]) PROVE w[p] < k
    <3>1. keys[j] \in KeyFile
      BY <1>2, <1>5, <2>2
    <3>2. PICK o \in 1..n : w[o] = k /\ all[o] = keys[j]
      BY <1>8, <2>4, <3>1
    <3>3. q <= o
      BY <1>9, <2>1, <3>2
    <3>4. p < o
      BY <2>2, <3>3
    <3> QED BY <1>8, <3>2, <3>4
  <2> QED BY <2>3, <2>4
<1>12. IsIdentityList(keys, conf, existing)
  BY <1>5, <1>10, <1>11 DEF IsIdentityList
<1> QED BY <1>4, <1>12

(***************************************************************************)
(* The order in which an attempt tries its keys and the password.          *)
(***************************************************************************)
\* The i-th try t of an attempt that has tried n things of the keys cs.
OfPassword(t, i, n, cs) == t.what = "password" => i = n /\ i = Len(cs) + 1
OfKey(t, i, cs) ==
  t.what # "password" => /\ i \in 1..Len(cs) /\ t.id = cs[i]
                         /\ t.explicit => Len(cs) = 1

KeysInv ==
  /\ candidates \in KeyLists /\ tried \in Seq(Tries)
  /\ \A i \in 1..Len(tried) : /\ OfPassword(tried[i], i, Len(tried), candidates)
                              /\ OfKey(tried[i], i, candidates)
  /\ pc \in {"handshake", "found"} => tried = <<>>
  /\ pc \in {"found", "keys"} /\ Explicit => Len(candidates) = 1
  /\ pc = "keys" => Len(tried) <= Len(candidates)
  /\ pc = "password" => Len(tried) = Len(candidates)

\* What the files, the records and the credentials are.
TypedData ==
  /\ disk \in [KeyFile -> Contents]
  /\ known \subseteq HostKey /\ recorded \subseteq HostKey /\ approved \subseteq HostKey
  /\ keyPath \in KeyFile \cup {None}
  /\ passphrase \in Passphrases /\ secret \in Passwords
  /\ attempt \in 0..MaxAttempts

\* Nothing has been tried yet.
LEMMA KeysFresh ==
  ASSUME candidates' \in KeyLists, tried' = <<>>,
         \/ pc' \in {"idle", "handshake"}
         \/ pc' = "found" /\ (Explicit' => Len(candidates') = 1)
  PROVE  KeysInv'
<1>1. tried' \in Seq(Tries) /\ Len(tried') = 0
  OBVIOUS
<1> QED BY <1>1 DEF KeysInv

\* Nothing more is tried.
LEMMA KeysStay ==
  ASSUME KeysInv, UNCHANGED <<candidates, tried, keyPath>>,
         \/ pc' = pc
         \/ pc' \in {"idle", "shell", "connected"}
         \/ pc = "found" /\ pc' = "keys"
         \/ pc = "keys" /\ pc' = "password" /\ Len(tried) = Len(candidates)
  PROVE  KeysInv'
<1>1. Len(<<>>) = 0
  OBVIOUS
<1>2. Len(candidates) \in Nat
  BY DEF KeysInv, KeyLists
<1> QED BY <1>1, <1>2 DEF KeysInv, Explicit

\* One more try.
LEMMA KeysTry ==
  ASSUME KeysInv, UNCHANGED <<candidates, keyPath>>, NEW t \in Tries, tried' = Append(tried, t),
         \/ /\ pc = "keys" /\ Len(tried) < Len(candidates)
            /\ t.what # "password" /\ t.id = Candidate /\ (t.explicit => Explicit)
         \/ pc = "password" /\ t.what = "password",
         pc' \in {"idle", "shell"} \/ (pc' = pc /\ pc = "keys")
  PROVE  KeysInv'
<1>1. PICK n \in Nat, m \in Nat : n = Len(tried) /\ m = Len(candidates)
  BY DEF KeysInv, KeyLists
<1>2. /\ tried' \in Seq(Tries) /\ Len(tried') = n + 1
      /\ \A i \in 1..n : tried'[i] = tried[i]
      /\ tried'[n + 1] = t
  BY <1>1, AppendProperties DEF KeysInv
<1>3. n <= m
  BY <1>1 DEF KeysInv
<1>4. ASSUME NEW i \in 1..n PROVE OfKey(tried[i], i, candidates) /\ tried[i].what # "password"
  BY <1>1, <1>3 DEF KeysInv, OfPassword
<1>5. OfPassword(t, n + 1, n + 1, candidates) /\ OfKey(t, n + 1, candidates)
  <2>1. CASE t.what = "password"
    BY <2>1, <1>1 DEF KeysInv, OfPassword, OfKey
  <2>2. CASE t.what # "password"
    BY <2>2, <1>1 DEF KeysInv, OfPassword, OfKey, Candidate
  <2> QED BY <2>1, <2>2
<1>6. ASSUME NEW i \in 1..n + 1
      PROVE  /\ OfPassword(tried'[i], i, n + 1, candidates)
             /\ OfKey(tried'[i], i, candidates)
  <2>1. CASE i = n + 1
    BY <2>1, <1>2, <1>5
  <2>2. CASE i \in 1..n
    <3>1. tried'[i] = tried[i]
      BY <1>2, <2>2
    <3>2. OfPassword(tried[i], i, n + 1, candidates)
      BY <1>4, <2>2 DEF OfPassword
    <3> QED BY <1>4, <2>2, <3>1, <3>2
  <2>3. i = n + 1 \/ i \in 1..n
    OBVIOUS
  <2> QED BY <2>1, <2>2, <2>3
<1>7. pc' = "keys" => /\ Len(tried') <= Len(candidates)
                      /\ Explicit => Len(candidates) = 1
  BY <1>1, <1>2 DEF KeysInv
<1> QED BY <1>2, <1>6, <1>7 DEF KeysInv, Explicit

LEMMA KeysDiscover ==
  ASSUME KeysInv, TypedData, Discover
  PROVE  KeysInv'
<1>1. pc' = "found" /\ tried' = <<>> /\ keyPath' = keyPath
  BY DEF Discover, Go, Keep, credentials, KeysInv
<1>2. CASE Explicit
  <2>1. keyPath \in KeyFile /\ candidates' = <<keyPath>>
    BY <1>2 DEF Discover, Explicit, TypedData
  <2>2. <<keyPath>> \in KeyLists /\ Len(<<keyPath>>) = 1
    BY <2>1 DEF KeyLists
  <2> QED BY <1>1, <2>1, <2>2, KeysFresh
<1>3. CASE ~Explicit
  <2>1. PICK c \in Configs : candidates' = KeysInDir(c, Existing)
    BY <1>3 DEF Discover
  <2>2. candidates' \in KeyLists
    BY <2>1, ConfigsAssumption, KeysInDirTyped
  <2>3. ~Explicit'
    BY <1>1, <1>3 DEF Explicit
  <2> QED BY <1>1, <2>2, <2>3, KeysFresh
<1> QED BY <1>2, <1>3

LEMMA KeysTries ==
  ASSUME KeysInv, \/ LoadFails \/ KeyAccepted \/ KeyRejected
                  \/ PasswordAccepted \/ PasswordRejected
  PROVE  KeysInv'
<1> USE DEF KeysInv, credentials
<1>1. Explicit \in BOOLEAN
  BY DEF Explicit
<1>2. CASE LoadFails \/ KeyAccepted \/ KeyRejected
  <2>1. pc = "keys" /\ Len(tried) < Len(candidates)
    BY <1>2 DEF LoadFails, KeyAccepted, KeyRejected, MoreKeys
  <2>2. Candidate \in KeyFile
    BY <2>1 DEF Candidate, KeyLists
  <2>3. PICK what \in {"load", "key"}, ok \in BOOLEAN : Tried(Try(what, Candidate, ok, Explicit))
    BY <1>2 DEF LoadFails, KeyAccepted, KeyRejected
  <2> DEFINE t == Try(what, Candidate, ok, Explicit)
  <2>4. t \in Tries /\ t.what # "password" /\ t.id = Candidate /\ (t.explicit => Explicit)
    BY <1>1, <2>2 DEF Try, Tries
  <2>5. tried' = Append(tried, t)
    BY <2>3 DEF Tried
  <2> HIDE DEF t
  <2>6. UNCHANGED <<candidates, keyPath>> /\ pc' \in {"idle", "shell", "keys"}
    BY <1>2 DEF LoadFails, KeyAccepted, KeyRejected, End, Go
  <2> QED BY <2>1, <2>4, <2>5, <2>6, KeysTry
<1>3. CASE PasswordAccepted \/ PasswordRejected
  <2>1. PICK ok \in BOOLEAN : Tried(PasswordTry(ok))
    BY <1>3 DEF PasswordAccepted, PasswordRejected
  <2> DEFINE t == PasswordTry(ok)
  <2>2. t \in Tries /\ t.what = "password"
    BY DEF PasswordTry, Try, Tries
  <2>3. tried' = Append(tried, t)
    BY <2>1 DEF Tried
  <2> HIDE DEF t
  <2>4. pc = "password" /\ UNCHANGED <<candidates, keyPath>> /\ pc' \in {"idle", "shell"}
    BY <1>3 DEF PasswordAccepted, PasswordRejected, End, Go
  <2> QED BY <2>2, <2>3, <2>4, KeysTry
<1> QED BY <1>2, <1>3

LEMMA KeysDriver ==
  ASSUME KeysInv,
         \/ \E s \in Passwords \ {None} : SetSecret(s)
         \/ \E k \in KeyFile \cup {None}, p \in Passphrases : SetPrivateKey(k, p)
         \/ \E k \in HostKey : Connect(k)
         \/ Cancel \/ Disconnect \/ HandshakeLost
         \/ Check \/ UserAnswers
         \/ \E m \in Messages : Exec(m)
         \/ ExecFails
         \/ UNCHANGED vars
  PROVE  KeysInv'
<1>1. <<>> \in KeyLists
  BY DEF KeyLists
<1>2. CASE (\E s \in Passwords \ {None} : SetSecret(s))
           \/ \E k \in KeyFile \cup {None}, p \in Passphrases : SetPrivateKey(k, p)
  <2>1. NewCredentials
    BY <1>2 DEF SetSecret, SetPrivateKey
  <2> QED BY <1>1, <2>1, KeysFresh DEF NewCredentials
<1>3. CASE \E k \in HostKey : Connect(k)
  BY <1>1, <1>3, KeysFresh DEF Connect
<1>4. CASE Cancel \/ Disconnect \/ HandshakeLost
  BY <1>4, KeysStay DEF Cancel, Disconnect, HandshakeLost, Keep, End, credentials
<1>5. CASE Check \/ UserAnswers
  <2>1. Attempting
    BY <1>5 DEF Check, UserAnswers, CheckServerKey, Learn, Confirm
  <2> QED BY <2>1, KeysStay DEF Attempting, credentials
<1>6. CASE (\E m \in Messages : Exec(m)) \/ ExecFails
  BY <1>6, KeysStay DEF Exec, ExecFails, Answer, credentials
<1>7. CASE UNCHANGED vars
  BY <1>7, KeysStay DEF vars, credentials
<1> QED BY <1>2, <1>3, <1>4, <1>5, <1>6, <1>7

LEMMA KeysNext == KeysInv /\ TypedData /\ [Next]_vars => KeysInv'
<1> SUFFICES ASSUME KeysInv, TypedData, [Next]_vars PROVE KeysInv'
  OBVIOUS
<1>1. CASE HandshakeRefused \/ BadPassphrase \/ NoPassword \/ BadPassword \/ ShellFails
  BY <1>1, KeysStay
  DEF HandshakeRefused, BadPassphrase, NoPassword, BadPassword, ShellFails, Keep, End,
      credentials
<1>2. CASE Discover
  BY <1>2, KeysDiscover
<1>3. CASE StartKeys \/ NoMoreKeys \/ ShellOpens
  BY <1>3, KeysStay DEF StartKeys, NoMoreKeys, ShellOpens, Keep, Go, credentials
<1>4. CASE LoadFails \/ KeyAccepted \/ KeyRejected \/ PasswordAccepted \/ PasswordRejected
  BY <1>4, KeysTries
<1>5. CASE ~Authenticate
  BY <1>5, KeysDriver DEF Next
<1> QED BY <1>1, <1>2, <1>3, <1>4, <1>5 DEF Authenticate

\* The data stay what they are: a key that is learnt or approved is one that a
\* handler holds.
LEMMA DataNext == TypedData /\ Shape /\ [Next]_vars => TypedData'
<1> SUFFICES ASSUME TypedData, Shape, [Next]_vars PROVE TypedData'
  OBVIOUS
<1> USE DEF TypedData, credentials, fixed, trust
<1>1. CASE UNCHANGED <<trust, attempt, credentials, fixed>>
  BY <1>1
<1>2. CASE Authenticate \/ HandshakeLost \/ Cancel \/ Disconnect
  <2>1. UNCHANGED <<attempt, credentials, fixed>>
    BY <1>2 DEF Authenticate, HandshakeLost, Cancel, Disconnect, HandshakeRefused, Discover,
       BadPassphrase, StartKeys, LoadFails, KeyAccepted, KeyRejected, NoMoreKeys,
       NoPassword, BadPassword, PasswordAccepted, PasswordRejected, ShellFails, ShellOpens,
       End, Go
  <2>2. UNCHANGED trust
    BY <1>2 DEF Authenticate, HandshakeLost, Cancel, Disconnect, HandshakeRefused, Discover,
       BadPassphrase, StartKeys, LoadFails, KeyAccepted, KeyRejected, NoMoreKeys,
       NoPassword, BadPassword, PasswordAccepted, PasswordRejected, ShellFails, ShellOpens,
       Keep, Tried
  <2> QED BY <1>1, <2>1, <2>2
<1>3. CASE (\E m \in Messages : Exec(m)) \/ ExecFails \/ UNCHANGED vars
  BY <1>1, <1>3 DEF Exec, ExecFails, Answer, vars
<1>4. CASE \/ \E s \in Passwords \ {None} : SetSecret(s)
           \/ \E k \in KeyFile \cup {None}, p \in Passphrases : SetPrivateKey(k, p)
  BY <1>4 DEF SetSecret, SetPrivateKey, NewCredentials
<1>5. CASE \E k \in HostKey : Connect(k)
  BY <1>5, AttemptsAssumption DEF Connect
<1>6. CASE Check
  <2>1. PICK i \in 1..attempt : CheckServerKey(i) \/ Learn(i)
    BY <1>6 DEF Check, Shape
  <2>2. handlers[i].key \in HostKey
    BY <2>1 DEF Shape
  <2>3. /\ known' = known \/ known' = known \cup {handlers[i].key}
        /\ UNCHANGED <<attempt, credentials, fixed, approved>>
    BY <2>1 DEF CheckServerKey, Learn, Attempting
  <2> QED BY <2>2, <2>3
<1>7. CASE UserAnswers
  <2>1. PICK accept \in BOOLEAN : Confirm(accept)
    BY <1>7 DEF UserAnswers
  <2>2. gate \in 1..attempt /\ handlers[gate].key \in HostKey
    BY <2>1 DEF Confirm, Shape
  <2>3. /\ approved' = approved \/ approved' = approved \cup {handlers[gate].key}
        /\ UNCHANGED <<attempt, credentials, fixed, known>>
    BY <2>1 DEF Confirm, Attempting
  <2> QED BY <2>2, <2>3
<1> QED BY <1>2, <1>3, <1>4, <1>5, <1>6, <1>7 DEF Next

KeysAndData == KeysInv /\ TypedData /\ TrustInv

LEMMA KeysHold == Spec => []KeysAndData
<1>1. Init => KeysAndData
  <2> SUFFICES ASSUME Init PROVE KeysInv /\ TypedData
    BY TrustInit DEF KeysAndData
  <2>1. candidates = <<>> /\ tried = <<>> /\ pc = "idle"
    BY DEF Init
  <2>2. <<>> \in KeyLists /\ <<>> \in Seq(Tries) /\ Len(<<>>) = 0
    BY DEF KeyLists
  <2>3. KeysInv
    BY <2>1, <2>2 DEF KeysInv
  <2>4. TypedData
    BY DisksAssumption, RecordsAssumption, AttemptsAssumption
    DEF Init, TypedData, Passphrases, Passwords
  <2> QED BY <2>3, <2>4
<1>2. KeysAndData /\ [Next]_vars => KeysAndData'
  BY KeysNext, DataNext, TrustNext DEF KeysAndData, TrustInv
<1> QED BY <1>1, <1>2, PTL DEF Spec

\* The state keeps its type: in particular the question before the user is
\* that of a handshake that was started, and the keys are files.
THEOREM TypeCorrect == Spec => []TypeOK
<1>1. KeysAndData => TypeOK
  BY DEF KeysAndData, KeysInv, KeyLists, TypedData, TrustInv, Shape, TypeOK
<1> QED BY <1>1, KeysHold, PTL

\* The password is sent after every candidate key has been tried, each once
\* and in order; an explicit key is the only candidate (connect,
\* try_publickey_auth, keys_in_dir).
THEOREM PasswordIsTheLastResort == Spec => []PasswordComesLast
<1>1. KeysAndData => PasswordComesLast
  <2> SUFFICES ASSUME KeysInv, NEW i \in DOMAIN tried
      PROVE  IF tried[i].what = "password" THEN i = Len(tried) /\ i = Len(candidates) + 1
             ELSE /\ tried[i].id = candidates[i]
                  /\ \A j \in 1..i - 1 : tried[j].id # tried[i].id
                  /\ tried[i].explicit => Len(candidates) = 1
    BY DEF PasswordComesLast, KeysAndData
  <2>1. PICK n \in Nat, m \in Nat : n = Len(tried) /\ m = Len(candidates)
    BY DEF KeysInv, KeyLists
  <2>2. i \in 1..n
    BY <2>1 DEF KeysInv
  <2>3. \A j \in 1..n : OfPassword(tried[j], j, n, candidates) /\ OfKey(tried[j], j, candidates)
    BY <2>1 DEF KeysInv
  <2>4. CASE tried[i].what = "password"
    BY <2>1, <2>2, <2>3, <2>4 DEF OfPassword
  <2>5. CASE tried[i].what # "password"
    <3>1. i \in 1..m /\ tried[i].id = candidates[i] /\ (tried[i].explicit => m = 1)
      BY <2>1, <2>2, <2>3, <2>5 DEF OfKey
    <3>2. ASSUME NEW j \in 1..i - 1 PROVE tried[j].id # tried[i].id
      <4>1. j \in 1..n /\ j \in 1..m /\ j # n /\ i # j
        BY <2>2, <3>1
      <4>2. tried[j].what # "password"
        BY <2>3, <4>1 DEF OfPassword
      <4>3. tried[j].id = candidates[j]
        BY <2>3, <4>1, <4>2 DEF OfKey
      <4>4. candidates[j] # candidates[i]
        BY <2>1, <3>1, <4>1 DEF KeysInv, KeyLists
      <4> QED BY <3>1, <4>3, <4>4
    <3> QED BY <2>1, <2>5, <3>1, <3>2
  <2> QED BY <2>4, <2>5
<1> QED BY <1>1, KeysHold, PTL

(***************************************************************************)
(* The discovery agrees with the reference                                 *)
(***************************************************************************)
DiscoveryInv ==
  /\ pc # "found" => config = NoConfig
  /\ DiscoveryAgrees

LEMMA DiscoveryForgets ==
  ASSUME config' = NoConfig
  PROVE  DiscoveryInv'
BY DEF DiscoveryInv, DiscoveryAgrees

LEMMA DiscoveryElsewhere ==
  ASSUME DiscoveryInv, pc # "found", pc' # "found", config' = config
  PROVE  DiscoveryInv'
BY DEF DiscoveryInv, DiscoveryAgrees

LEMMA DiscoveryStays ==
  ASSUME DiscoveryInv, UNCHANGED <<pc, config, candidates, disk>>
  PROVE  DiscoveryInv'
BY DEF DiscoveryInv, DiscoveryAgrees, Existing

LEMMA DiscoveryMade ==
  ASSUME DiscoveryInv, Discover
  PROVE  DiscoveryInv'
<1>1. pc = "handshake" /\ pc' = "found" /\ disk' = disk
  BY DEF Discover, Go, fixed
<1>2. config = NoConfig
  BY <1>1 DEF DiscoveryInv
<1>3. CASE Explicit
  BY <1>2, <1>3, DiscoveryForgets DEF Discover
<1>4. CASE ~Explicit
  <2>1. PICK c \in Configs : config' = c /\ candidates' = KeysInDir(c, Existing)
    BY <1>4 DEF Discover
  <2>2. c \in Seq(ConfigLine)
    BY ConfigsAssumption
  <2>3. IsIdentityList(KeysInDir(c, Existing), c, Existing)
    BY <2>2, KeysInDirIs
  <2>4. Existing' = Existing
    BY <1>1 DEF Existing
  <2> QED BY <1>1, <2>1, <2>3, <2>4 DEF DiscoveryInv, DiscoveryAgrees
<1> QED BY <1>3, <1>4

LEMMA DiscoveryNext == DiscoveryInv /\ [Next]_vars => DiscoveryInv'
<1> SUFFICES ASSUME DiscoveryInv, [Next]_vars PROVE DiscoveryInv'
  OBVIOUS
<1>1. CASE HandshakeRefused \/ BadPassphrase \/ StartKeys \/ NoPassword \/ BadPassword
           \/ PasswordRejected \/ ShellFails
  BY <1>1, DiscoveryForgets
  DEF HandshakeRefused, BadPassphrase, StartKeys, NoPassword, BadPassword, PasswordRejected,
      ShellFails, End
<1>2. CASE LoadFails
  <2>1. CASE Explicit
    BY <1>2, <2>1, DiscoveryForgets DEF LoadFails, End
  <2>2. CASE ~Explicit
    BY <1>2, <2>2, DiscoveryElsewhere DEF LoadFails, MoreKeys, Go
  <2> QED BY <2>1, <2>2
<1>3. CASE KeyAccepted \/ KeyRejected \/ NoMoreKeys \/ PasswordAccepted \/ ShellOpens
  BY <1>3, DiscoveryElsewhere
  DEF KeyAccepted, KeyRejected, NoMoreKeys, PasswordAccepted, ShellOpens, MoreKeys, Go
<1>4. CASE Discover
  BY <1>4, DiscoveryMade
<1>5. CASE Cancel \/ Disconnect \/ HandshakeLost
  BY <1>5, DiscoveryForgets DEF Cancel, Disconnect, HandshakeLost, End
<1>6. CASE \/ \E s \in Passwords \ {None} : SetSecret(s)
           \/ \E k \in KeyFile \cup {None}, p \in Passphrases : SetPrivateKey(k, p)
  BY <1>6, DiscoveryElsewhere DEF SetSecret, SetPrivateKey, NewCredentials
<1>7. CASE \E k \in HostKey : Connect(k)
  BY <1>7, DiscoveryElsewhere DEF Connect
<1>8. CASE Check \/ UserAnswers
  <2>1. Attempting
    BY <1>8 DEF Check, UserAnswers, CheckServerKey, Learn, Confirm
  <2> QED BY <2>1, DiscoveryStays DEF Attempting, fixed
<1>9. CASE (\E m \in Messages : Exec(m)) \/ ExecFails
  BY <1>9, DiscoveryStays DEF Exec, ExecFails, Answer, fixed
<1>10. CASE UNCHANGED vars
  BY <1>10, DiscoveryStays DEF vars
<1> QED BY <1>1, <1>2, <1>3, <1>4, <1>5, <1>6, <1>7, <1>8, <1>9, <1>10 DEF Next, Authenticate

\* For any ~/.ssh/config, host and files, the keys an attempt discovers are
\* those of the reference: exactly the files that exist and are named by a
\* directive whose Host block applies or by default, in the order of their
\* first mention (keys_in_dir, identity_files_from_ssh_config,
\* host_pattern_matches).
THEOREM DiscoveryIsTheReference == Spec => []DiscoveryAgrees
<1>1. Init => DiscoveryInv
  BY DEF Init, DiscoveryInv, DiscoveryAgrees
<1>2. DiscoveryInv => DiscoveryAgrees
  BY DEF DiscoveryInv
<1> QED BY <1>1, <1>2, DiscoveryNext, PTL DEF Spec

(***************************************************************************)
(* The output of a command                                                 *)
(***************************************************************************)
Message == [kind : STRING, value : Int]
Output == [kind : {"output"}, stdout : Seq(Int), stderr : Seq(Int), status : Int,
           closed : BOOLEAN]

\* What one message adds to what has been read.
LEMMA MessageRead ==
  ASSUME NEW acc \in Output, NEW m \in Message, NEW r, r = ReadMessage(acc, m)
  PROVE  /\ r \in Output
         /\ acc.closed => r = acc
         /\ ~acc.closed =>
              /\ r.stdout = IF m.kind = "data" THEN Append(acc.stdout, m.value)
                            ELSE acc.stdout
              /\ r.stderr = IF m.kind \in {"stderr", "signal"}
                            THEN Append(acc.stderr, m.value) ELSE acc.stderr
              /\ r.status = IF m.kind = "status" THEN m.value
                            ELSE IF m.kind = "signal" THEN -1 ELSE acc.status
              /\ r.closed <=> m.kind = "close"
<1>0. PICK out \in Seq(Int), err \in Seq(Int) :
         out = Append(acc.stdout, m.value) /\ err = Append(acc.stderr, m.value)
  <2>1. Append(acc.stdout, m.value) \in Seq(Int) /\ Append(acc.stderr, m.value) \in Seq(Int)
    BY AppendProperties DEF Output, Message
  <2> QED BY <2>1
<1>1. CASE acc.closed
  BY <1>1, Zenon DEF ReadMessage
<1>2. CASE ~acc.closed /\ m.kind = "data"
  <2>1. r = [acc EXCEPT !.stdout = Append(@, m.value)]
    BY <1>2, Zenon DEF ReadMessage
  <2>2. r = [acc EXCEPT !.stdout = out]
    BY <1>0, <2>1
  <2> QED BY <1>0, <1>2, <2>2 DEF Output, Message
<1>3. CASE ~acc.closed /\ m.kind = "stderr"
  <2>1. r = [acc EXCEPT !.stderr = Append(@, m.value)]
    BY <1>3, Zenon DEF ReadMessage
  <2>2. r = [acc EXCEPT !.stderr = err]
    BY <1>0, <2>1
  <2> QED BY <1>0, <1>3, <2>2 DEF Output, Message
<1>4. CASE ~acc.closed /\ m.kind = "status"
  <2>1. r = [acc EXCEPT !.status = m.value]
    BY <1>4, Zenon DEF ReadMessage
  <2> QED BY <1>4, <2>1 DEF Output, Message
<1>5. CASE ~acc.closed /\ m.kind = "signal"
  <2> DEFINE q == [acc EXCEPT !.stderr = Append(@, m.value), !.status = -1]
  <2>1. r = q
    BY <1>5, Zenon DEF ReadMessage
  <2>2. q.kind = acc.kind /\ q.stdout = acc.stdout /\ q.status = -1 /\ q.closed = acc.closed
    BY DEF Output
  <2>3. q.stderr = err
    BY <1>0 DEF Output
  <2>4. q \in Output
    <3>1. PICK o : o = [acc EXCEPT !.stderr = err]
      OBVIOUS
    <3>2. o \in Output
      BY <3>1 DEF Output
    <3>3. PICK minus \in Int : minus = -1
      OBVIOUS
    <3>4. PICK u : u = [o EXCEPT !.status = minus]
      OBVIOUS
    <3>5. u \in Output
      BY <3>2, <3>4 DEF Output
    <3>6. q = u
      BY <1>0, <3>1, <3>3, <3>4, Zenon
    <3> QED BY <3>5, <3>6
  <2> HIDE DEF q
  <2> QED BY <1>0, <1>5, <2>1, <2>2, <2>3, <2>4
<1>6. CASE ~acc.closed /\ m.kind = "close"
  <2>1. r = [acc EXCEPT !.closed = TRUE]
    BY <1>6, Zenon DEF ReadMessage
  <2> QED BY <1>6, <2>1 DEF Output, Message
<1>7. CASE ~acc.closed /\ m.kind \notin {"data", "stderr", "status", "signal", "close"}
  <2>1. r = acc
    BY <1>7, Zenon DEF ReadMessage
  <2> QED BY <1>7, <2>1 DEF Output, Message
<1> QED BY <1>1, <1>2, <1>3, <1>4, <1>5, <1>6, <1>7

\* Reading goes through the messages one by one.
LEMMA CollectRun ==
  ASSUME NEW sent \in Seq(Message)
  PROVE  \E acc : /\ acc[0] = NothingRead /\ acc[Len(sent)] = Collect(sent)
                  /\ \A i \in 0..Len(sent) : acc[i] \in Output
                  /\ \A i \in 1..Len(sent) : acc[i] = ReadMessage(acc[i - 1], sent[i])
<1> DEFINE N == Len(sent)
           F(h) == [s \in SUBSET (1..N) |-> IF s = {} THEN NothingRead
                                            ELSE ReadMessage(h[s \ {Max(s)}], sent[Max(s)])]
           step == [i \in 1..N |-> [out \in Output |-> ReadMessage(out, sent[i])]]
           h == CHOOSE h : h = F(h)
<1>1. Collect(sent) = h[1..N]
  <2>1. DOMAIN sent = 1..N
    OBVIOUS
  <2> QED BY <2>1, Zenon DEF Collect, FoldLeft, MapThenFoldSet
<1>2. NothingRead \in Output
  BY DEF NothingRead, Output
<1>3. N \in Nat /\ \A i \in 1..N : sent[i] \in Message
  OBVIOUS
<1>4. \A m \in Message, out \in Output : ReadMessage(out, m) \in Output
  BY MessageRead
<1>5. step \in [1..N -> [Output -> Output]]
  <2> HIDE DEF N
  <2> QED BY <1>3, <1>4
<1>6. PICK it : IsIter(it, N, Output, NothingRead, step)
  <2> HIDE DEF step, N
  <2> QED BY <1>2, <1>3, <1>5, IterExists
<1>7. \A s \in SUBSET (1..N) : s # {} => Max(s) \in 1..N
  <2> HIDE DEF N
  <2> QED BY <1>3, MaxOfInitial
<1>8. it = F(it)
  <2>1. ASSUME NEW s \in SUBSET (1..N), s # {}
        PROVE  it[s] = ReadMessage(it[s \ {Max(s)}], sent[Max(s)])
    <3>1. it[s \ {Max(s)}] \in Output
      BY <1>6 DEF IsIter
    <3>2. it[s] = step[Max(s)][it[s \ {Max(s)}]]
      BY <1>6, <2>1 DEF IsIter
    <3> QED BY <1>7, <2>1, <3>1, <3>2
  <2> QED BY <2>1, <1>6 DEF IsIter
<1>9. h = F(h)
  BY <1>8
<1>10. TakesSteps(h, N, Output, NothingRead, step)
  <2> HIDE DEF h
  <2>1. h[{}] = NothingRead
    BY <1>9
  <2>2. ASSUME NEW s \in SUBSET (1..N), s # {}, h[s \ {Max(s)}] \in Output
        PROVE  h[s] = step[Max(s)][h[s \ {Max(s)}]]
    <3>1. h[s] = ReadMessage(h[s \ {Max(s)}], sent[Max(s)])
      BY <1>9, <2>2
    <3> QED BY <1>7, <2>2, <3>1
  <2> QED BY <2>1, <2>2 DEF TakesSteps
<1>11. PICK acc : IsRun(acc, N, Output, NothingRead, step) /\ acc[N] = h[1..N]
  <2> HIDE DEF h, step, N
  <2> QED BY <1>2, <1>3, <1>5, <1>10, FoldRun
<1>12. \A i \in 0..N : acc[i] \in Output
  BY <1>11 DEF IsRun
<1>13. ASSUME NEW i \in 1..N PROVE acc[i] = ReadMessage(acc[i - 1], sent[i])
  <2>1. acc[i - 1] \in Output
    BY <1>3, <1>12
  <2> QED BY <1>11, <2>1 DEF IsRun
<1>14. acc[0] = NothingRead
  BY <1>11 DEF IsRun
<1> HIDE DEF h, step
<1> QED BY <1>1, <1>11, <1>12, <1>13, <1>14

\* The messages up to the n-th that are of these kinds and come before the
\* channel is closed.
Read(sent, n, kinds) ==
  {i \in 1..n : sent[i].kind \in kinds /\ \A j \in 1..i : sent[j].kind # "close"}

\* The values vs are those of the messages at the indices is, in order.
Values(vs, is, sent) ==
  \E w : Ranking(w, is, Len(vs)) /\ \A n \in 1..Len(vs) : vs[n] = sent[w[n]].value

LEMMA ValuesNext ==
  ASSUME NEW sent, NEW k \in Nat, NEW is, is \subseteq 1..k, NEW vs \in Seq(Int),
         Values(vs, is, sent), sent[k + 1].value \in Int
  PROVE  Values(Append(vs, sent[k + 1].value), is \cup {k + 1}, sent)
<1>1. PICK w : Ranking(w, is, Len(vs)) /\ \A n \in 1..Len(vs) : vs[n] = sent[w[n]].value
  BY DEF Values
<1>2. PICK c \in Nat : c = Len(vs)
  OBVIOUS
<1>3. PICK v : v = [n \in 1..c + 1 |-> IF n = c + 1 THEN k + 1 ELSE w[n]]
  OBVIOUS
<1>4. Ranking(v, is \cup {k + 1}, c + 1)
  BY <1>1, <1>2, <1>3, RankingNext
<1>5. PICK us \in Seq(Int) : us = Append(vs, sent[k + 1].value)
  BY AppendProperties
<1>6. /\ Len(us) = c + 1 /\ us[c + 1] = sent[k + 1].value
      /\ \A n \in 1..c : us[n] = vs[n]
  BY <1>2, <1>5, AppendProperties
<1>7. ASSUME NEW n \in 1..c + 1 PROVE us[n] = sent[v[n]].value
  <2>1. CASE n = c + 1
    BY <2>1, <1>3, <1>6
  <2>2. CASE n \in 1..c
    BY <2>2, <1>1, <1>2, <1>3, <1>6
  <2> QED BY <2>1, <2>2
<1> QED BY <1>4, <1>5, <1>6, <1>7 DEF Values

\* The state of reading after n messages.
Reports == {"status", "signal"}
Status(m) == IF m.kind = "status" THEN m.value ELSE -1
ReadSoFar(out, sent, n) ==
  /\ out \in Output
  /\ out.closed <=> \E j \in 1..n : sent[j].kind = "close"
  /\ Values(out.stdout, Read(sent, n, {"data"}), sent)
  /\ Values(out.stderr, Read(sent, n, {"stderr", "signal"}), sent)
  /\ Read(sent, n, Reports) = {} => out.status = -1
  /\ \A i \in Read(sent, n, Reports) :
       (\A j \in Read(sent, n, Reports) : j <= i) => out.status = Status(sent[i])

LEMMA ReadNext ==
  ASSUME NEW sent, NEW n \in Nat, NEW kinds, "close" \notin kinds
  PROVE  /\ (\E j \in 1..n : sent[j].kind = "close") =>
              Read(sent, n + 1, kinds) = Read(sent, n, kinds)
         /\ sent[n + 1].kind \notin kinds => Read(sent, n + 1, kinds) = Read(sent, n, kinds)
         /\ ~(\E j \in 1..n : sent[j].kind = "close") /\ sent[n + 1].kind \in kinds =>
              Read(sent, n + 1, kinds) = Read(sent, n, kinds) \cup {n + 1}
<1>1. 1..n + 1 = (1..n) \cup {n + 1}
  OBVIOUS
<1>2. \A j \in 1..n : j \in 1..n + 1
  OBVIOUS
<1>3. (\E j \in 1..n : sent[j].kind = "close") => n + 1 \notin Read(sent, n + 1, kinds)
  BY <1>2 DEF Read
<1>4. sent[n + 1].kind \notin kinds => n + 1 \notin Read(sent, n + 1, kinds)
  BY DEF Read
<1>5. ~(\E j \in 1..n : sent[j].kind = "close") /\ sent[n + 1].kind \in kinds =>
        n + 1 \in Read(sent, n + 1, kinds)
  BY <1>1 DEF Read
<1>6. \A i \in 1..n : i \in Read(sent, n + 1, kinds) <=> i \in Read(sent, n, kinds)
  BY <1>1 DEF Read
<1>7. Read(sent, n + 1, kinds) \subseteq 1..n + 1 /\ Read(sent, n, kinds) \subseteq 1..n
  BY DEF Read
<1> QED BY <1>1, <1>3, <1>4, <1>5, <1>6, <1>7

\* One more message is read.
LEMMA ReadingStep ==
  ASSUME NEW sent \in Seq(Message), NEW n \in Nat, n < Len(sent),
         NEW out, ReadSoFar(out, sent, n), NEW r, r = ReadMessage(out, sent[n + 1])
  PROVE  ReadSoFar(r, sent, n + 1)
<1> DEFINE m == sent[n + 1]
           data == Read(sent, n, {"data"})
           errors == Read(sent, n, {"stderr", "signal"})
           reports == Read(sent, n, Reports)
           ended == \E j \in 1..n : sent[j].kind = "close"
<1>1. m \in Message /\ m.value \in Int
  <2>1. n + 1 \in 1..Len(sent)
    OBVIOUS
  <2>2. m \in Message
    BY <2>1
  <2> QED BY <2>2 DEF Message
<1>2. out \in Output /\ (out.closed <=> ended)
  BY DEF ReadSoFar
<1>3. data \subseteq 1..n /\ errors \subseteq 1..n /\ reports \subseteq 1..n
  BY DEF Read
<1>4. (\E j \in 1..n + 1 : sent[j].kind = "close") <=> ended \/ m.kind = "close"
  OBVIOUS
<1>5. out.stdout \in Seq(Int) /\ out.stderr \in Seq(Int)
  BY <1>2 DEF Output
<1>6. CASE ended
  <2>1. r = out
    BY <1>1, <1>2, <1>6, MessageRead
  <2>2. /\ Read(sent, n + 1, {"data"}) = data
        /\ Read(sent, n + 1, {"stderr", "signal"}) = errors
        /\ Read(sent, n + 1, Reports) = reports
    BY <1>6, ReadNext DEF Reports
  <2> HIDE DEF data, errors, reports, m
  <2> QED BY <1>2, <1>4, <1>6, <2>1, <2>2 DEF ReadSoFar, data, errors, reports
<1>7. CASE ~ended
  <2>1. /\ r \in Output
        /\ r.stdout = IF m.kind = "data" THEN Append(out.stdout, m.value) ELSE out.stdout
        /\ r.stderr = IF m.kind \in {"stderr", "signal"} THEN Append(out.stderr, m.value)
                      ELSE out.stderr
        /\ r.status = IF m.kind = "status" THEN m.value
                      ELSE IF m.kind = "signal" THEN -1 ELSE out.status
        /\ r.closed <=> m.kind = "close"
    <3> HIDE DEF m, ended
    <3> QED BY <1>1, <1>2, <1>7, MessageRead DEF m
  <2>2. Values(r.stdout, Read(sent, n + 1, {"data"}), sent)
    <3>1. CASE m.kind = "data"
      <4>1. Read(sent, n + 1, {"data"}) = data \cup {n + 1}
        BY <1>7, <3>1, ReadNext
      <4>2. r.stdout = Append(out.stdout, sent[n + 1].value)
        BY <2>1, <3>1
      <4>3. Values(Append(out.stdout, sent[n + 1].value), data \cup {n + 1}, sent)
        <5> HIDE DEF data
        <5>1. Values(out.stdout, data, sent)
          BY DEF ReadSoFar, data
        <5> QED BY <1>1, <1>3, <1>5, <5>1, ValuesNext
      <4> QED BY <4>1, <4>2, <4>3
    <3>2. CASE m.kind # "data"
      <4>1. Read(sent, n + 1, {"data"}) = data
        BY <3>2, ReadNext
      <4>2. r.stdout = out.stdout
        BY <2>1, <3>2
      <4> QED BY <4>1, <4>2 DEF ReadSoFar
    <3> QED BY <3>1, <3>2
  <2>3. Values(r.stderr, Read(sent, n + 1, {"stderr", "signal"}), sent)
    <3>1. CASE m.kind \in {"stderr", "signal"}
      <4>1. Read(sent, n + 1, {"stderr", "signal"}) = errors \cup {n + 1}
        BY <1>7, <3>1, ReadNext
      <4>2. r.stderr = Append(out.stderr, sent[n + 1].value)
        BY <2>1, <3>1
      <4>3. Values(Append(out.stderr, sent[n + 1].value), errors \cup {n + 1}, sent)
        <5> HIDE DEF errors
        <5>1. Values(out.stderr, errors, sent)
          BY DEF ReadSoFar, errors
        <5> QED BY <1>1, <1>3, <1>5, <5>1, ValuesNext
      <4> QED BY <4>1, <4>2, <4>3
    <3>2. CASE m.kind \notin {"stderr", "signal"}
      <4>1. Read(sent, n + 1, {"stderr", "signal"}) = errors
        BY <3>2, ReadNext
      <4>2. r.stderr = out.stderr
        BY <2>1, <3>2
      <4> QED BY <4>1, <4>2 DEF ReadSoFar
    <3> QED BY <3>1, <3>2
  <2>4. /\ Read(sent, n + 1, Reports) = {} => r.status = -1
        /\ \A i \in Read(sent, n + 1, Reports) :
             (\A j \in Read(sent, n + 1, Reports) : j <= i) => r.status = Status(sent[i])
    <3>1. CASE m.kind \in Reports
      <4>1. Read(sent, n + 1, Reports) = reports \cup {n + 1}
        BY <1>7, <3>1, ReadNext DEF Reports
      <4>2. r.status = Status(m)
        BY <2>1, <3>1 DEF Reports, Status
      <4>3. ASSUME NEW i \in reports \cup {n + 1}, \A j \in reports \cup {n + 1} : j <= i
            PROVE  i = n + 1
        <5>1. n + 1 <= i
          BY <4>3
        <5> HIDE DEF reports
        <5> QED BY <1>3, <5>1
      <4> QED BY <4>1, <4>2, <4>3
    <3>2. CASE m.kind \notin Reports
      <4>1. Read(sent, n + 1, Reports) = reports
        BY <3>2, ReadNext DEF Reports
      <4>2. r.status = out.status
        BY <2>1, <3>2 DEF Reports
      <4> QED BY <4>1, <4>2 DEF ReadSoFar
    <3> QED BY <3>1, <3>2
  <2> HIDE DEF m
  <2> QED BY <1>4, <1>7, <2>1, <2>2, <2>3, <2>4 DEF ReadSoFar
<1> QED BY <1>6, <1>7

\* All that is read of a command, for any messages.
LEMMA Collected ==
  ASSUME NEW sent \in Seq(Message)
  PROVE  ReadSoFar(Collect(sent), sent, Len(sent))
<1>1. PICK acc : /\ acc[0] = NothingRead /\ acc[Len(sent)] = Collect(sent)
                 /\ \A i \in 0..Len(sent) : acc[i] \in Output
                 /\ \A i \in 1..Len(sent) : acc[i] = ReadMessage(acc[i - 1], sent[i])
  BY CollectRun
<1>2. PICK N \in Nat : N = Len(sent)
  OBVIOUS
<1> DEFINE S == {n \in Nat : n <= N => ReadSoFar(acc[n], sent, n)}
<1>3. 0 \in S
  <2>1. 1..0 = {} /\ Len(<<>>) = 0
    OBVIOUS
  <2>2. \A kinds : Read(sent, 0, kinds) = {}
    BY <2>1 DEF Read
  <2>3. Values(<<>>, {}, sent)
    <3>1. PICK w : w = [n \in 1..0 |-> n]
      OBVIOUS
    <3> QED BY <2>1, <3>1, RankingEmpty DEF Values
  <2>4. NothingRead \in Output
    BY DEF NothingRead, Output
  <2>5. /\ NothingRead.stdout = <<>> /\ NothingRead.stderr = <<>>
        /\ NothingRead.status = -1 /\ NothingRead.closed = FALSE
    BY DEF NothingRead
  <2>6. ReadSoFar(NothingRead, sent, 0)
    BY <2>1, <2>2, <2>3, <2>4, <2>5 DEF ReadSoFar
  <2> QED BY <1>1, <2>6
<1>4. ASSUME NEW n \in Nat, n \in S PROVE n + 1 \in S
  <2> SUFFICES ASSUME n + 1 <= N PROVE ReadSoFar(acc[n + 1], sent, n + 1)
    OBVIOUS
  <2>1. n < Len(sent) /\ n <= N /\ n + 1 \in 1..Len(sent) /\ (n + 1) - 1 = n
    BY <1>2
  <2>2. ReadSoFar(acc[n], sent, n)
    BY <1>4, <2>1
  <2>3. acc[n + 1] = ReadMessage(acc[(n + 1) - 1], sent[n + 1])
    BY <1>1, <2>1
  <2>4. acc[n + 1] = ReadMessage(acc[n], sent[n + 1])
    BY <2>1, <2>3
  <2> QED BY <2>1, <2>2, <2>4, ReadingStep
<1>5. Nat \subseteq S
  <2> HIDE DEF S
  <2> QED BY <1>3, <1>4, NatSetInduction
<1>6. ReadSoFar(acc[N], sent, N)
  BY <1>5
<1> QED BY <1>1, <1>2, <1>6

\* A command is answered with what its messages come to.
Answered ==
  \/ output = NoOutput
  \/ output = [kind |-> "failed"]
  \/ \E m \in Messages : output = [kind |-> "answered", sent |-> m, got |-> Collect(m)]

LEMMA AnsweredHolds == Spec => []Answered
<1>1. Init => Answered
  BY DEF Init, Answered
<1>2. Answered /\ [Next]_vars => Answered'
  <2> SUFFICES ASSUME Answered, [Next]_vars PROVE Answered'
    OBVIOUS
  <2>1. CASE UNCHANGED output
    BY <2>1 DEF Answered
  <2>2. CASE \E m \in Messages : Exec(m)
    BY <2>2 DEF Exec, Answer, Answered
  <2>3. CASE ExecFails
    BY <2>3 DEF ExecFails, Answer, Answered
  <2>4. CASE Cancel \/ Disconnect \/ HandshakeLost
    BY <2>4 DEF Cancel, Disconnect, HandshakeLost, End, Answered
  <2>5. CASE Authenticate
    <3>1. output' \in {output, NoOutput}
      BY <2>5 DEF Authenticate, HandshakeRefused, Discover, BadPassphrase, StartKeys,
         LoadFails, KeyAccepted, KeyRejected, NoMoreKeys, NoPassword, BadPassword,
         PasswordAccepted, PasswordRejected, ShellFails, ShellOpens, End, Go
    <3> QED BY <3>1 DEF Answered
  <2>6. CASE Check \/ UserAnswers
    <3>1. UNCHANGED output
      BY <2>6 DEF Check, UserAnswers, CheckServerKey, Learn, Confirm, Attempting
    <3> QED BY <2>1, <3>1
  <2>7. CASE \/ \E s \in Passwords \ {None} : SetSecret(s)
             \/ \E k \in KeyFile \cup {None}, p \in Passphrases : SetPrivateKey(k, p)
             \/ \E k \in HostKey : Connect(k)
             \/ UNCHANGED vars
    <3>1. UNCHANGED output
      BY <2>7 DEF SetSecret, SetPrivateKey, NewCredentials, Connect, vars
    <3> QED BY <2>1, <3>1
  <2> QED BY <2>2, <2>3, <2>4, <2>5, <2>6, <2>7 DEF Next
<1> QED BY <1>1, <1>2, PTL DEF Spec

\* The n-th value of a sequence, chosen by what comes up to it.
ChosenValues(sent, is) ==
  [n \in 1..Cardinality(is) |->
     sent[CHOOSE i \in is : Cardinality({j \in is : j <= i}) = n].value]

LEMMA ValuesChosen ==
  ASSUME NEW sent, NEW is, NEW vs \in Seq(Int), Values(vs, is, sent)
  PROVE  vs = ChosenValues(sent, is)
<1> USE DEF ChosenValues
<1>1. PICK w : Ranking(w, is, Len(vs)) /\ \A n \in 1..Len(vs) : vs[n] = sent[w[n]].value
  BY DEF Values
<1>2. Cardinality(is) = Len(vs)
  BY <1>1 DEF Ranking
<1>3. ASSUME NEW n \in 1..Len(vs)
      PROVE  vs[n] = sent[CHOOSE i \in is : Cardinality({j \in is : j <= i}) = n].value
  <2>1. (CHOOSE i \in is : Cardinality(UpTo(is, i)) = n) = w[n]
    BY <1>1, RankingChoice
  <2> QED BY <1>1, <2>1, Zenon DEF UpTo
<1>4. vs = [n \in 1..Len(vs) |-> vs[n]]
  OBVIOUS
<1> QED BY <1>2, <1>3, <1>4

\* The output of a command is what came before the channel closed, in order,
\* and its exit status that of the last report (run_russh_exec), for every
\* sequence of messages.
THEOREM OutputIsWhatCame == Spec => []OutputAgrees
<1>1. Answered => OutputAgrees
  <2> SUFFICES ASSUME Answered, output.kind = "answered" PROVE OutputAgrees
    BY Zenon DEF OutputAgrees
  <2>0. output.sent \in Messages /\ output.got = Collect(output.sent)
    BY DEF Answered, NoOutput, None
  <2> DEFINE sent == output.sent
  <2>1. sent \in Seq(Message) /\ DOMAIN sent = 1..Len(sent) /\ Len(sent) \in Nat
    BY <2>0, MessagesAssumption DEF Message
  <2> DEFINE closed == {i \in DOMAIN sent : sent[i].kind = "close"}
             read == {i \in DOMAIN sent : \A j \in closed : i < j}
             is(kinds) == {i \in read : sent[i].kind \in kinds}
             got == output.got
             reports == is(Reports)
  <2>2. \A kinds : is(kinds) = Read(sent, Len(sent), kinds)
    <3>1. ASSUME NEW i \in 1..Len(sent)
          PROVE  (\A j \in closed : i < j) <=> \A j \in 1..i : sent[j].kind # "close"
      BY <2>1
    <3> QED BY <2>1, <3>1 DEF Read
  <2>3. ReadSoFar(got, sent, Len(sent))
    BY <2>0, <2>1, Collected
  <2>4. /\ got.stdout \in Seq(Int) /\ got.stderr \in Seq(Int)
        /\ Values(got.stdout, is({"data"}), sent)
        /\ Values(got.stderr, is({"stderr", "signal"}), sent)
    BY <2>2, <2>3 DEF ReadSoFar, Output
  <2>5. got.stdout = ChosenValues(sent, is({"data"}))
    BY <2>4, ValuesChosen
  <2>6. got.stderr = ChosenValues(sent, is({"stderr", "signal"}))
    BY <2>4, ValuesChosen
  <2>7. /\ reports = {} => got.status = -1
        /\ \A i \in reports : (\A j \in reports : j <= i) => got.status = Status(sent[i])
    <3>1. reports = Read(sent, Len(sent), Reports)
      BY <2>2
    <3> HIDE DEF reports, got
    <3> QED BY <2>3, <3>1 DEF ReadSoFar
  <2>8. reports \subseteq 1..Len(sent)
    BY <2>1
  <2>9. \A i \in reports : sent[i].kind \in Reports
    OBVIOUS
  <2>10. got.status =
           IF \E i \in reports : sent[i].kind = "status" /\ \A j \in reports : j <= i
           THEN sent[CHOOSE i \in reports : \A j \in reports : j <= i].value
           ELSE -1
    <3> HIDE DEF reports, got
    <3>1. CASE reports = {}
      BY <2>7, <3>1
    <3>2. CASE reports # {}
      <4>1. PICK i \in reports : \A j \in reports : j <= i
        <5>1. Max(reports) \in reports /\ \A j \in reports : Max(reports) >= j
          BY <2>1, <2>8, <3>2, MaxOfInitial
        <5>2. \A j \in reports : j \in Int
          BY <2>8
        <5> QED BY <5>1, <5>2
      <4>2. \A k \in reports : (\A j \in reports : j <= k) => k = i
        BY <2>8, <4>1
      <4>3. (CHOOSE k \in reports : \A j \in reports : j <= k) = i
        BY <4>1, <4>2
      <4>4. got.status = Status(sent[i])
        BY <2>7, <4>1
      <4>5. CASE sent[i].kind = "status"
        BY <4>1, <4>3, <4>4, <4>5 DEF Status
      <4>6. CASE sent[i].kind # "status"
        <5>1. got.status = -1
          BY <4>4, <4>6 DEF Status
        <5> QED BY <4>2, <4>6, <5>1
      <4> QED BY <4>5, <4>6
    <3> QED BY <3>1, <3>2
  <2> QED BY <2>5, <2>6, <2>10, Zenon DEF OutputAgrees, Reports, ChosenValues
<1> QED BY <1>1, AnsweredHolds, PTL
=============================================================================
