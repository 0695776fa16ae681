---------------------------- MODULE RusshProvider ---------------------------
(***************************************************************************)
(* Connecting with the russh provider                                      *)
(* (rust-core/src/providers/russh.rs): the host key check against          *)
(* known_hosts with the user asked about an unknown key, public keys in    *)
(* order and then the password, the shell, the SFTP probe; and the output  *)
(* of a command.  The handshake runs in a task of its own, which outlives  *)
(* an attempt that is cancelled: every attempt has its handler.            *)
(***************************************************************************)
EXTENDS SshIdentity, Integers, FiniteSets

CONSTANTS HostKey,      \* keys a server may present: <<algorithm, number>>
          Disks,        \* what the key files may hold
          Records,      \* what known_hosts may hold for the host at first
          Configs,      \* the ~/.ssh/config files the user may have
          Messages,     \* what a server may send on the channel of a command
          MaxAttempts   \* bound: connection attempts

None == "none"
BadText == "not UTF-8"
Passphrases == {None, "right", BadText}
Passwords == {None, "password", BadText}
Contents == {"missing", "plain", "locked"}

ASSUME AttemptsAssumption == MaxAttempts \in Nat \ {0}
ASSUME DisksAssumption == Disks \subseteq [KeyFile -> Contents]
ASSUME RecordsAssumption == Records \subseteq SUBSET HostKey
ASSUME ConfigsAssumption == Configs \subseteq Seq(ConfigLine)
ASSUME MessagesAssumption == Messages \subseteq Seq([kind : STRING, value : Int])

VARIABLES disk,       \* what each key file holds
          known,      \* the keys of known_hosts for this host
          gate,       \* the handler whose question is before the user, or 0
          handlers,   \* one per attempt: the key presented, where the check is
          attempt,    \* the number of attempts so far
          pc,         \* where the current attempt is
          keyPath, passphrase, secret,  \* the credentials of the provider
          config,     \* ~/.ssh/config as the attempt has read it
          candidates, \* the keys of the attempt
          tried,      \* what the attempt has tried, in order
          outcome,    \* how the last attempt ended
          output,     \* the answer to the command of this connection
          recorded,   \* history: known_hosts at the beginning
          approved    \* history: the keys the user has accepted

vars == <<disk, known, gate, handlers, attempt, pc, keyPath, passphrase, secret,
          config, candidates, tried, outcome, output, recorded, approved>>
trust == <<known, gate, handlers, approved>>
credentials == <<keyPath, passphrase, secret>>
fixed == <<disk, recorded>>

Stages == {"idle", "handshake", "found", "keys", "password", "shell", "connected"}
Progress == {"connecting", "asking", "agreed", "trusted", "refused"}
Attempts == 1..MaxAttempts

Try(what, id, ok, explicit) ==
  [what |-> what, id |-> id, ok |-> ok, explicit |-> explicit]

Tries == [what : {"load", "key", "password"}, id : KeyFile \cup {None},
          ok : BOOLEAN, explicit : BOOLEAN]

TypeOK ==
  /\ disk \in [KeyFile -> Contents]
  /\ known \subseteq HostKey /\ recorded \subseteq HostKey /\ approved \subseteq HostKey
  /\ gate \in 0..attempt
  /\ attempt \in 0..MaxAttempts
  /\ handlers \in [1..attempt -> [key : HostKey, at : Progress]]
  /\ pc \in Stages /\ (pc # "idle" => attempt > 0)
  /\ keyPath \in KeyFile \cup {None}
  /\ passphrase \in Passphrases /\ secret \in Passwords
  /\ candidates \in Seq(KeyFile)
  /\ tried \in Seq(Tries)

NoConfig == <<>>
NoOutput == [kind |-> None]

Init ==
  /\ disk \in Disks
  /\ known \in Records
  /\ recorded = known /\ approved = {}
  /\ gate = 0 /\ handlers = <<>> /\ attempt = 0
  /\ pc = "idle"
  /\ keyPath = None /\ passphrase = None /\ secret = None
  /\ config = NoConfig /\ candidates = <<>> /\ tried = <<>>
  /\ outcome = None /\ output = NoOutput

(***************************************************************************)
(* The driver                                                              *)
(***************************************************************************)
\* Credentials replace those before them.  The driver takes them between two
\* operations; nothing reads them while connected, so a change made then comes
\* to the same as one made after the disconnect.  What the last attempt tried
\* is forgotten.
NewCredentials ==
  /\ pc = "idle"
  /\ candidates' = <<>> /\ tried' = <<>> /\ outcome' = None
  /\ UNCHANGED <<trust, attempt, pc, config, output, fixed>>

SetSecret(s) ==
  /\ secret' = s /\ UNCHANGED <<keyPath, passphrase>>
  /\ NewCredentials

SetPrivateKey(k, p) ==
  /\ keyPath' = k /\ passphrase' = p /\ UNCHANGED secret
  /\ NewCredentials

\* Mutant: the handler of the attempt before is used again.
ConnectReusesHandler(k) ==
  /\ pc = "idle" /\ attempt < MaxAttempts
  /\ attempt' = attempt + 1
  /\ handlers' = IF handlers = <<>> THEN <<[key |-> k, at |-> "connecting"]>> ELSE handlers
  /\ pc' = "handshake"
  /\ candidates' = <<>> /\ tried' = <<>> /\ outcome' = None
  /\ UNCHANGED <<known, gate, credentials, config, output, approved, fixed>>

\* The server may present another key than the last time.
Connect(k) ==
  /\ pc = "idle" /\ attempt < MaxAttempts
  /\ attempt' = attempt + 1
  /\ handlers' = Append(handlers, [key |-> k, at |-> "connecting"])
  /\ pc' = "handshake"
  /\ candidates' = <<>> /\ tried' = <<>> /\ outcome' = None
  /\ UNCHANGED <<known, gate, credentials, config, output, approved, fixed>>

End(reason) ==
  /\ pc' = "idle" /\ outcome' = reason
  /\ config' = NoConfig /\ output' = NoOutput
  /\ UNCHANGED <<attempt, credentials, candidates, fixed>>

Cancel ==
  /\ pc \notin {"idle", "connected"}
  /\ End("cancelled")
  /\ UNCHANGED <<trust, tried>>

Disconnect ==
  /\ pc = "connected"
  /\ End(None)
  /\ UNCHANGED <<trust, tried>>

(***************************************************************************)
(* check_server_key, in the task of the handshake                          *)
(***************************************************************************)
Attempting == UNCHANGED <<attempt, pc, credentials, config, candidates, tried,
                          outcome, output, fixed>>
Conflicts(k, K) == \E r \in K : r # k /\ r[1] = k[1]

\* Mutant: the handshake that asked before is left waiting.
AskKeepsAsking(i) ==
  /\ gate' = i
  /\ handlers' = [handlers EXCEPT ![i].at = "asking"]

\* The sender stored for the user's answer replaces the one before it, whose
\* receiver then fails: that key counts as refused.
Ask(i) ==
  /\ gate' = i
  /\ handlers' = [j \in DOMAIN handlers |->
                    IF j = i THEN [handlers[j] EXCEPT !.at = "asking"]
                    ELSE IF handlers[j].at = "asking"
                    THEN [handlers[j] EXCEPT !.at = "refused"] ELSE handlers[j]]

\* Mutant: a key that contradicts the one on record is asked about as well.
CheckServerKeyAsks(i) ==
  LET k == handlers[i].key IN
  /\ handlers[i].at = "connecting"
  /\ \/ /\ k \in known
        /\ handlers' = [handlers EXCEPT ![i].at = "trusted"]
        /\ UNCHANGED gate
     \/ /\ k \notin known
        /\ Ask(i)
  /\ UNCHANGED <<known, approved>> /\ Attempting

CheckServerKey(i) ==
  LET k == handlers[i].key IN
  /\ handlers[i].at = "connecting"
  /\ \/ /\ k \in known \/ Conflicts(k, known)
        /\ handlers' = [handlers EXCEPT ![i].at =
                          IF Conflicts(k, known) THEN "refused" ELSE "trusted"]
        /\ UNCHANGED gate
     \/ /\ k \notin known /\ ~Conflicts(k, known)
        /\ Ask(i)
  /\ UNCHANGED <<known, approved>> /\ Attempting

Confirm(accept) ==
  /\ gate # 0
  /\ gate' = 0
  /\ handlers' = [handlers EXCEPT ![gate].at = IF accept THEN "agreed" ELSE "refused"]
  /\ approved' = IF accept THEN approved \cup {handlers[gate].key} ELSE approved
  /\ UNCHANGED known /\ Attempting

\* learn_known_hosts; that it could not write the file is ignored.
Learn(i) ==
  /\ handlers[i].at = "agreed"
  /\ handlers' = [handlers EXCEPT ![i].at = "trusted"]
  /\ \/ known' = known \cup {handlers[i].key}
     \/ UNCHANGED known
  /\ UNCHANGED <<gate, approved>> /\ Attempting

(***************************************************************************)
(* connect, after the handshake                                            *)
(***************************************************************************)
Explicit == keyPath # None
Existing == {f \in KeyFile : disk[f] # "missing"}
Go(stage) == pc' = stage /\ UNCHANGED <<attempt, credentials, outcome, output, fixed>>
Keep == UNCHANGED <<trust, tried>>

\* The check has failed, or the network has.
HandshakeRefused ==
  /\ pc = "handshake" /\ handlers[attempt].at = "refused"
  /\ End("connect") /\ Keep

HandshakeLost ==
  /\ pc = "handshake"
  /\ End("connect") /\ Keep

\* An explicit key overrides the discovery.
Discover ==
  /\ pc = "handshake" /\ handlers[attempt].at = "trusted"
  /\ \/ /\ Explicit
        /\ candidates' = <<keyPath>> /\ UNCHANGED config
     \/ /\ ~Explicit
        /\ \E c \in Configs : config' = c /\ candidates' = KeysInDir(c, Existing)
  /\ Go("found") /\ Keep

BadPassphrase ==
  /\ pc = "found" /\ passphrase = BadText
  /\ End("passphrase") /\ Keep

StartKeys ==
  /\ pc = "found" /\ passphrase # BadText
  /\ config' = NoConfig
  /\ Go("keys") /\ Keep /\ UNCHANGED candidates

Loads(f) == disk[f] = "plain" \/ (disk[f] = "locked" /\ passphrase = "right")
Candidate == candidates[Len(tried) + 1]
MoreKeys == pc = "keys" /\ Len(tried) < Len(candidates)
Tried(t) == tried' = Append(tried, t) /\ UNCHANGED trust

\* Mutant: an explicit key that does not load is skipped as well.
LoadFailsSkips ==
  /\ MoreKeys /\ ~Loads(Candidate)
  /\ Tried(Try("load", Candidate, FALSE, Explicit))
  /\ Go("keys") /\ UNCHANGED <<config, candidates>>

\* A key that does not load is skipped, an explicit one ends the attempt.
LoadFails ==
  /\ MoreKeys /\ ~Loads(Candidate)
  /\ Tried(Try("load", Candidate, FALSE, Explicit))
  /\ IF Explicit THEN End("load") ELSE Go("keys") /\ UNCHANGED <<config, candidates>>

\* Mutant: the remaining keys are tried nevertheless.
KeyAcceptedGoesOn ==
  /\ MoreKeys /\ Loads(Candidate)
  /\ Tried(Try("key", Candidate, TRUE, Explicit))
  /\ Go(IF Len(tried) + 1 = Len(candidates) THEN "shell" ELSE "keys")
  /\ UNCHANGED <<config, candidates>>

KeyAccepted ==
  /\ MoreKeys /\ Loads(Candidate)
  /\ Tried(Try("key", Candidate, TRUE, Explicit))
  /\ Go("shell") /\ UNCHANGED <<config, candidates>>

KeyRejected ==
  /\ MoreKeys /\ Loads(Candidate)
  /\ Tried(Try("key", Candidate, FALSE, Explicit))
  /\ Go("keys") /\ UNCHANGED <<config, candidates>>

\* Mutant: the password is sent as soon as a key has been rejected.
NoMoreKeysEarly ==
  /\ pc = "keys" /\ (candidates # <<>> => tried # <<>>)
  /\ Go("password") /\ Keep /\ UNCHANGED <<config, candidates>>

NoMoreKeys ==
  /\ pc = "keys" /\ Len(tried) = Len(candidates)
  /\ Go("password") /\ Keep /\ UNCHANGED <<config, candidates>>

PasswordTry(ok) == Try("password", None, ok, FALSE)
\* Mutant: a password that was not given is named as well.
ReasonNamesBoth(password) ==
  CASE tried = <<>> /\ ~password -> "nothing usable"
    [] tried = <<>> /\ password -> "password"
    [] OTHER -> "public key and password"

Reason(password) == CASE tried = <<>> /\ ~password -> "nothing usable"
                      [] tried = <<>> /\ password -> "password"
                      [] tried # <<>> /\ ~password -> "public key"
                      [] OTHER -> "public key and password"

NoPassword ==
  /\ pc = "password" /\ secret = None
  /\ End(Reason(FALSE)) /\ Keep

BadPassword ==
  /\ pc = "password" /\ secret = BadText
  /\ End("password text") /\ Keep

PasswordAccepted ==
  /\ pc = "password" /\ secret \notin {None, BadText}
  /\ Tried(PasswordTry(TRUE))
  /\ Go("shell") /\ UNCHANGED <<config, candidates>>

\* Rejected, or the connection fails under the request.
PasswordRejected ==
  /\ pc = "password" /\ secret \notin {None, BadText}
  /\ Tried(PasswordTry(FALSE))
  /\ \/ End(Reason(TRUE)) \/ End("auth")

ShellFails ==
  /\ pc = "shell"
  /\ End("channel") /\ Keep

ShellOpens ==
  /\ pc = "shell"
  /\ Go("connected") /\ Keep /\ UNCHANGED <<config, candidates>>

(***************************************************************************)
(* exec: the messages of the channel until it closes or ends               *)
(***************************************************************************)
ReadMessage(acc, m) ==
  IF acc.closed THEN acc
  ELSE CASE m.kind = "data"   -> [acc EXCEPT !.stdout = Append(@, m.value)]
         [] m.kind = "stderr" -> [acc EXCEPT !.stderr = Append(@, m.value)]
         [] m.kind = "status" -> [acc EXCEPT !.status = m.value]
         [] m.kind = "signal" -> [acc EXCEPT !.stderr = Append(@, m.value), !.status = -1]
         [] m.kind = "close"  -> [acc EXCEPT !.closed = TRUE]
         [] OTHER             -> acc
NothingRead == [kind |-> "output", stdout |-> <<>>, stderr |-> <<>>,
                status |-> -1, closed |-> FALSE]

\* Mutant: what comes after the close counts as well.
CollectAll(messages) ==
  LET read(acc, m) == IF m.kind = "close" THEN acc ELSE ReadMessage(acc, m)
  IN  FoldLeft(read, NothingRead, messages)

Collect(messages) == FoldLeft(ReadMessage, NothingRead, messages)

Answer(out) ==
  /\ pc = "connected" /\ output = NoOutput
  /\ output' = out
  /\ UNCHANGED <<attempt, pc, credentials, config, candidates, tried, outcome, trust, fixed>>

Exec(messages) ==
  Answer([kind |-> "answered", sent |-> messages, got |-> Collect(messages)])

\* The channel is not opened, the command is refused, or no end comes in time.
ExecFails == Answer([kind |-> "failed"])

(***************************************************************************)
(* The specification                                                       *)
(***************************************************************************)
Check == \E i \in DOMAIN handlers : CheckServerKey(i) \/ Learn(i)
UserAnswers == \E accept \in BOOLEAN : Confirm(accept)
Authenticate ==
  \/ HandshakeRefused \/ Discover \/ BadPassphrase \/ StartKeys
  \/ LoadFails \/ KeyAccepted \/ KeyRejected \/ NoMoreKeys
  \/ NoPassword \/ BadPassword \/ PasswordAccepted \/ PasswordRejected
  \/ ShellFails \/ ShellOpens

Next ==
  \/ \E s \in Passwords \ {None} : SetSecret(s)
  \/ \E k \in KeyFile \cup {None}, p \in Passphrases : SetPrivateKey(k, p)
  \/ \E k \in HostKey : Connect(k)
  \/ Cancel \/ Disconnect
  \/ Check \/ UserAnswers
  \/ Authenticate \/ HandshakeLost
  \/ \E m \in Messages : Exec(m)
  \/ ExecFails

Spec == Init /\ [][Next]_vars

\* What the program does by itself: the runtime polls its tasks.
LocalSteps ==
  \/ \E i \in DOMAIN handlers : Learn(i)
  \/ HandshakeRefused \/ Discover \/ BadPassphrase \/ StartKeys
  \/ LoadFails \/ NoMoreKeys \/ NoPassword \/ BadPassword

\* What waits for the server: its key, and its answers to what is tried.
ServerAnswers ==
  \/ \E i \in DOMAIN handlers : CheckServerKey(i)
  \/ KeyAccepted \/ KeyRejected \/ PasswordAccepted \/ PasswordRejected
  \/ ShellFails \/ ShellOpens

\* Only LocalSteps is fair by the code.  That the server goes on answering is
\* taken for granted: connect sets itself no time limit, and with a server that
\* falls silent an attempt lasts until it is cancelled or the network fails.
\* So is that the user answers what is asked.
FairSpec == Spec /\ WF_vars(LocalSteps) /\ WF_vars(ServerAnswers) /\ WF_vars(UserAnswers)

(***************************************************************************)
(* Properties                                                              *)
(***************************************************************************)
\* Past the handshake, the server has presented a key that was on record when
\* the program began or that the user accepted, and none that contradicts what
\* was on record then, whatever the user answered and however many handshakes
\* of cancelled attempts are still under way.  What is added to known_hosts
\* was accepted (check_server_key, learn_known_hosts).
TrustedServer ==
  /\ pc \notin {"idle", "handshake"} =>
       LET k == handlers[attempt].key IN
         k \in recorded \cup approved /\ ~Conflicts(k, recorded)
  /\ known \subseteq recorded \cup approved

\* "An explicit key load failure is fatal so users see path/passphrase
\* problems instead of silently falling back to password auth"
\* (try_publickey_auth): nothing is tried after it, and the attempt ends.
ExplicitKeyIsFinal ==
  \A i \in DOMAIN tried :
    (tried[i].what = "load" /\ tried[i].explicit) => i = Len(tried) /\ pc = "idle"

\* The password is sent only after every candidate key has been tried, each
\* once and in order, and none was accepted; an explicit key is the only
\* candidate (connect, try_publickey_auth, keys_in_dir).
PasswordComesLast ==
  \A i \in DOMAIN tried :
    IF tried[i].what = "password" THEN i = Len(tried) /\ i = Len(candidates) + 1
    ELSE /\ tried[i].id = candidates[i]
         /\ \A j \in 1..i - 1 : tried[j].id # tried[i].id
         /\ tried[i].explicit => Len(candidates) = 1

\* The shell is opened exactly when the last thing tried was accepted, and
\* nothing is tried once something was accepted (connect).
AcceptedMeansLast ==
  /\ \A i \in DOMAIN tried : tried[i].ok => i = Len(tried)
  /\ pc \in {"shell", "connected"} => tried # <<>> /\ Last(tried).ok
  /\ pc \in {"keys", "password"} => \A i \in DOMAIN tried : ~tried[i].ok

\* The reason given to the user names what was tried and rejected, and
\* nothing else (connect, the detail of ConnectFailed).
HonestReason ==
  LET used(what) == \E i \in DOMAIN tried : tried[i].what \in what
      keys == used({"load", "key"})
      password == used({"password"})
  IN  /\ outcome = "nothing usable" => ~keys /\ ~password
      /\ outcome = "public key" => keys /\ ~password
      /\ outcome = "password" => ~keys /\ password
      /\ outcome = "public key and password" => keys /\ password

\* The keys discovered are those of the reference reading of ~/.ssh/config:
\* a negated pattern excludes a host, a directive belongs to the last Host
\* line, each existing file is tried once (keys_in_dir).
DiscoveryAgrees ==
  (pc = "found" /\ config # NoConfig) =>
    IsIdentityList(candidates, config, Existing)

\* The output of a command is what came before the channel closed, in order;
\* its exit status is that of the last report, -1 if there was none or the
\* last one was a signal (run_russh_exec).
OutputAgrees ==
  output.kind = "answered" =>
    LET sent == output.sent
        closed == {i \in DOMAIN sent : sent[i].kind = "close"}
        read == {i \in DOMAIN sent : \A j \in closed : i < j}
        values(kinds) == LET is == {i \in read : sent[i].kind \in kinds}
                         IN  [n \in 1..Cardinality(is) |->
                                sent[CHOOSE i \in is :
                                       Cardinality({j \in is : j <= i}) = n].value]
        reports == {i \in read : sent[i].kind \in {"status", "signal"}}
    IN  /\ output.got.stdout = values({"data"})
        /\ output.got.stderr = values({"stderr", "signal"})
        /\ output.got.status =
             IF \E i \in reports : sent[i].kind = "status" /\ \A j \in reports : j <= i
             THEN sent[CHOOSE i \in reports : \A j \in reports : j <= i].value
             ELSE -1

\* If the server presents its key and answers every request, and the user
\* answers what is asked, every attempt ends, connected or not, also when the
\* question of a cancelled attempt's handshake takes the place of the one asked
\* (HostKeyGate::confirm, connect).
AttemptEnds == pc = "handshake" ~> pc \in {"idle", "connected"}
=============================================================================
