--------------------------- MODULE SessionDriver ---------------------------
(***************************************************************************)
(* One session of rust-core/src/session.rs: the handle held by the C++     *)
(* side, the driver task that owns the provider and the state machine, the *)
(* SSH provider it drives (rust-core/src/providers/russh.rs) and the       *)
(* reader tasks the provider spawns.                                       *)
(*                                                                         *)
(* Every connection attempt has a number, so the model can tell which      *)
(* attempt a reader, a queued event, a host-key prompt or a file provider  *)
(* belongs to; the code cannot, since all of them share one channel, one   *)
(* gate and one provider object.                                           *)
(*                                                                         *)
(* Left out: terminal data and error texts, which change no control state  *)
(* here, and the moment the callbacks are registered: the client registers *)
(* them before its first command, as AppController::connectToServer does.  *)
(***************************************************************************)
EXTENDS Integers, Sequences, FiniteSets

CONSTANTS
  Ops,           \* the commands the client issues
  MaxQueue,      \* bound: commands waiting in the channel
  MaxRequests,   \* bound: request ids drawn
  MaxAttempts    \* bound: connection attempts

Requests    == {"Fs", "Exec"}
Credentials == {"SetSecret", "SetPrivateKey"}
Commands    == {"Connect", "Disconnect", "Send"} \cup Credentials \cup Requests

ASSUME OpsAssumption == Ops \subseteq Commands
ASSUME BoundsAssumption ==
  /\ MaxQueue \in Nat
  /\ MaxRequests \in Nat
  /\ MaxAttempts \in Nat

VARIABLES
  handle,     \* "open", then "joining" inside shutdown_and_join, then "closed"
  nextId,     \* next_request_id: the last id drawn
  accepted,   \* the last id whose command entered the channel
  sent,       \* the credentials the client has sent so far
  cmdq,       \* the command channel
  pc,         \* where the driver task is
  cur,        \* the command it is executing
  cancelled,  \* the cancel signal reached the operation it is awaiting
  state,      \* RsSessionState of the driver
  files,      \* the attempt whose file provider the driver holds, 0 if none
  creds,      \* the credentials the provider holds
  phase,      \* how far the connect future has come
  attempt,    \* the number of the latest connection attempt
  gate,       \* the attempt whose host-key sender is stored, 0 if none
  conn,       \* the attempt whose connection the provider holds, 0 if none
  readers,    \* the attempts whose reader task runs
  orphans,    \* abandoned attempts whose handshake may still ask for the key
  provq,      \* the channel of provider events
  shown,      \* the last state the event callback reported
  answered    \* the request id of the last result the callbacks reported

clientVars   == <<handle, nextId, accepted, sent>>
providerVars == <<creds, phase, attempt, gate, conn, readers, orphans>>
outputVars   == <<shown, answered>>
vars == <<handle, nextId, accepted, sent, cmdq, pc, cur, cancelled, state,
          files, creds, phase, attempt, gate, conn, readers, orphans, provq,
          shown, answered>>

States   == {"Idle", "Connecting", "Connected", "Disconnecting",
             "Disconnected", "Failed"}

\* A command in the channel: its request id when it is a request, and for
\* Connect the credentials that were sent before it.
Command(kind, id, need) == [kind |-> kind, id |-> id, need |-> need]
NoCommand == Command("None", 0, {})
Shutdown  == Command("Shutdown", 0, {})
CommandType ==
  [kind: Commands \cup {"Shutdown", "None"}, id: Nat,
   need: SUBSET Credentials]

\* An event a reader reported: its kind and the attempt the reader belongs to.
EventType == [kind: {"Disconnected", "Error"}, of: Nat]

(***************************************************************************)
(* pc of the driver:                                                       *)
(*   start   create_provider has not returned                              *)
(*   select  at the select! of the loop                                    *)
(*   arm     a command is dequeued, cancel.notified() not yet created      *)
(*   run     awaiting the operation of cur, racing it against cancel       *)
(*   abort   awaiting provider.disconnect() after a cancelled connect      *)
(*   close   awaiting provider.disconnect() for Disconnect                 *)
(*   bye     awaiting the bounded disconnect of Shutdown                   *)
(*   done    the task has ended                                            *)
(* phase of the connect future: dial (transport and key exchange), prompt  *)
(* (parked on the host-key decision), refused or trusted (the decision is  *)
(* known; trusted stands for authentication and the shell request), shell  *)
(* (the reader runs, SFTP is being probed).                                *)
(***************************************************************************)
TypeOK ==
  /\ handle \in {"open", "joining", "closed"}
  /\ nextId \in Nat
  /\ accepted \in Nat
  /\ sent \subseteq Credentials
  /\ cmdq \in Seq(CommandType)
  /\ pc \in {"start", "select", "arm", "run", "abort", "close", "bye", "done"}
  /\ cur \in CommandType
  /\ cancelled \in BOOLEAN
  /\ state \in States
  /\ files \in 0..attempt
  /\ creds \subseteq Credentials
  /\ phase \in {"idle", "dial", "prompt", "refused", "trusted", "shell"}
  /\ attempt \in Nat
  /\ gate \in 0..attempt
  /\ conn \in 0..attempt
  /\ readers \subseteq 1..attempt
  /\ orphans \subseteq 1..attempt
  /\ provq \in Seq(EventType)
  /\ shown \in States
  /\ answered \in Nat

Init ==
  /\ handle = "open"
  /\ nextId = 0
  /\ accepted = 0
  /\ sent = {}
  /\ cmdq = <<>>
  /\ pc = "start"
  /\ cur = NoCommand
  /\ cancelled = FALSE
  /\ state = "Idle"
  /\ files = 0
  /\ creds = {}
  /\ phase = "idle"
  /\ attempt = 0
  /\ gate = 0
  /\ conn = 0
  /\ readers = {}
  /\ orphans = {}
  /\ provq = <<>>
  /\ shown = "Idle"
  /\ answered = 0
-----------------------------------------------------------------------------
\* The callbacks: silent once shutdown_and_join has deactivated the emitters.
Show(s)   == shown' = IF handle = "closed" THEN shown ELSE s
Answer(c) == answered' = IF handle = "closed" THEN answered ELSE c.id

\* set_state: the driver's state and the callback that reports it.
SetState(s) == state' = s /\ Show(s)

\* The channel is closed once the driver task has ended.
Queued(c) == cmdq' = IF pc = "done" THEN cmdq ELSE Append(cmdq, c)

QueuedConnects == Cardinality({i \in DOMAIN cmdq : cmdq[i].kind = "Connect"})
-----------------------------------------------------------------------------
(* The client: calls on the handle, from the UI thread. *)

\* connect, disconnect, send, set_secret and set_private_key.  With the
\* channel closed they return an error and change nothing.
Submit(k) ==
  /\ handle = "open"
  /\ pc # "done"
  /\ k \notin Requests
  /\ Len(cmdq) < MaxQueue
  /\ k = "Connect" => attempt + QueuedConnects < MaxAttempts
  /\ sent' = IF k \in Credentials THEN sent \cup {k} ELSE sent
  /\ Queued(Command(k, 0, IF k = "Connect" THEN sent ELSE {}))
  /\ UNCHANGED <<handle, nextId, accepted, pc, cur, cancelled, state, files,
                 provq>>
  /\ UNCHANGED <<providerVars, outputVars>>

\* submit_fs and exec: the id is drawn even when the channel turns out closed,
\* and then 0 is returned.
Request(k) ==
  /\ handle = "open"
  /\ k \in Requests
  /\ nextId < MaxRequests
  /\ Len(cmdq) < MaxQueue
  /\ nextId' = nextId + 1
  /\ accepted' = IF pc = "done" THEN accepted ELSE nextId + 1
  /\ Queued(Command(k, nextId + 1, {}))
  /\ UNCHANGED <<handle, sent, pc, cur, cancelled, state, files, provq>>
  /\ UNCHANGED <<providerVars, outputVars>>

\* cancel: notify_waiters wakes the operation being awaited and stores nothing,
\* so at any other time the call is lost.
Cancel ==
  /\ handle = "open"
  /\ pc = "run"
  /\ cancelled' = TRUE
  /\ UNCHANGED <<cmdq, pc, cur, state, files, provq>>
  /\ UNCHANGED <<clientVars, providerVars, outputVars>>

\* confirm_host_key: takes the stored sender, whichever attempt stored it.
ConfirmHostKey(accept) ==
  /\ handle = "open"
  /\ gate # 0
  /\ gate' = 0
  /\ phase' = IF phase = "prompt" /\ gate = attempt
                THEN IF accept THEN "trusted" ELSE "refused"
                ELSE phase
  /\ UNCHANGED <<cmdq, pc, cur, cancelled, state, files, creds, attempt, conn,
                 readers, orphans, provq>>
  /\ UNCHANGED <<clientVars, outputVars>>

\* shutdown_and_join, up to the join: queue Shutdown and signal cancel.
Destroy ==
  /\ handle = "open"
  /\ handle' = "joining"
  /\ Queued(Shutdown)
  /\ cancelled' = (cancelled \/ pc = "run")
  /\ UNCHANGED <<nextId, accepted, sent, pc, cur, state, files, provq>>
  /\ UNCHANGED <<providerVars, outputVars>>

\* The rest of shutdown_and_join: the driver was joined, or three seconds have
\* passed and it is detached; the emitters are deactivated in both cases.
CloseHandle ==
  /\ handle = "joining"
  /\ handle' = "closed"
  /\ UNCHANGED <<nextId, accepted, sent, cmdq, pc, cur, cancelled, state,
                 files, provq>>
  /\ UNCHANGED <<providerVars, outputVars>>

Joined        == pc = "done" /\ CloseHandle
JoinTimedOut  == pc # "done" /\ CloseHandle
-----------------------------------------------------------------------------
(* The driver task, between two awaits. *)

CreateProvider ==
  /\ pc = "start"
  /\ pc' = "select"
  /\ UNCHANGED <<cmdq, cur, cancelled, state, files, provq>>
  /\ UNCHANGED <<clientVars, providerVars, outputVars>>

\* The task ends at once and its receiver drops what was queued.
CreateProviderFails ==
  /\ pc = "start"
  /\ pc' = "done"
  /\ cmdq' = <<>>
  /\ SetState("Failed")
  /\ UNCHANGED <<cur, cancelled, files, provq, answered>>
  /\ UNCHANGED <<clientVars, providerVars>>

\* The first branch of the biased select!: a command is ready.
Take(k) ==
  /\ pc = "select"
  /\ cmdq # <<>>
  /\ Head(cmdq).kind = k
  /\ cmdq' = Tail(cmdq)

\* (mutant) A credential sent after the first connection is dropped.
TakeCredentialOnce ==
  \E k \in Credentials :
    /\ Take(k)
    /\ creds' = IF state = "Idle" THEN creds \cup {k} ELSE creds
    /\ UNCHANGED <<pc, cur, cancelled, state, files, provq, phase, attempt,
                   gate, conn, readers, orphans>>
    /\ UNCHANGED <<clientVars, outputVars>>

TakeCredential ==
  \E k \in Credentials :
    /\ Take(k)
    /\ creds' = creds \cup {k}
    /\ UNCHANGED <<pc, cur, cancelled, state, files, provq, phase, attempt,
                   gate, conn, readers, orphans>>
    /\ UNCHANGED <<clientVars, outputVars>>

\* Connect while connected reports InvalidState and nothing else.
TakeConnectRefused ==
  /\ Take("Connect")
  /\ state \in {"Connecting", "Connected"}
  /\ UNCHANGED <<pc, cur, cancelled, state, files, provq>>
  /\ UNCHANGED <<clientVars, providerVars, outputVars>>

TakeConnect ==
  /\ Take("Connect")
  /\ state \notin {"Connecting", "Connected"}
  /\ pc' = "arm"
  /\ cur' = Head(cmdq)
  /\ attempt' = attempt + 1
  /\ SetState("Connecting")
  /\ UNCHANGED <<cancelled, files, provq, creds, phase, gate, conn, readers,
                 orphans, answered>>
  /\ UNCHANGED clientVars

\* Send while not connected reports NotConnected and nothing else.
TakeSend ==
  /\ Take("Send")
  /\ IF state = "Connected"
       THEN pc' = "arm" /\ cur' = Head(cmdq)
       ELSE UNCHANGED <<pc, cur>>
  /\ UNCHANGED <<cancelled, state, files, provq>>
  /\ UNCHANGED <<clientVars, providerVars, outputVars>>

\* (mutant) Disconnect does not look at the state.
TakeDisconnectAlways ==
  /\ Take("Disconnect")
  /\ pc' = "close"
  /\ cur' = Head(cmdq)
  /\ files' = 0
  /\ SetState("Disconnecting")
  /\ UNCHANGED <<cancelled, provq, answered>>
  /\ UNCHANGED <<clientVars, providerVars>>

TakeDisconnect ==
  /\ Take("Disconnect")
  /\ IF state \in {"Connected", "Connecting"}
       THEN /\ pc' = "close"
            /\ cur' = Head(cmdq)
            /\ files' = 0
            /\ SetState("Disconnecting")
       ELSE UNCHANGED <<pc, cur, files, state, shown>>
  /\ UNCHANGED <<cancelled, provq, answered>>
  /\ UNCHANGED <<clientVars, providerVars>>

\* A file operation runs in every state: only the file provider is looked at.
TakeFs ==
  /\ Take("Fs")
  /\ pc' = "arm"
  /\ cur' = Head(cmdq)
  /\ UNCHANGED <<cancelled, state, files, provq>>
  /\ UNCHANGED <<clientVars, providerVars, outputVars>>

\* (mutant) Exec while not connected is dropped like Send.
TakeExecSilent ==
  /\ Take("Exec")
  /\ IF state = "Connected"
       THEN pc' = "arm" /\ cur' = Head(cmdq)
       ELSE UNCHANGED <<pc, cur>>
  /\ UNCHANGED <<cancelled, state, files, provq, outputVars>>
  /\ UNCHANGED <<clientVars, providerVars>>

TakeExec ==
  /\ Take("Exec")
  /\ IF state = "Connected"
       THEN pc' = "arm" /\ cur' = Head(cmdq) /\ UNCHANGED answered
       ELSE Answer(Head(cmdq)) /\ UNCHANGED <<pc, cur>>
  /\ UNCHANGED <<cancelled, state, files, provq, shown>>
  /\ UNCHANGED <<clientVars, providerVars>>

\* (mutant) Shutdown leaves the loop only when there is something to close.
TakeShutdownStays ==
  /\ Take("Shutdown")
  /\ pc' = IF state \in {"Connected", "Connecting"} THEN "bye" ELSE "select"
  /\ UNCHANGED <<cur, cancelled, state, files, provq>>
  /\ UNCHANGED <<clientVars, providerVars, outputVars>>

\* Leaving the loop drops the receivers and the provider.
TakeShutdown ==
  /\ Take("Shutdown")
  /\ pc' = IF state \in {"Connected", "Connecting"} THEN "bye" ELSE "done"
  /\ UNCHANGED <<cur, cancelled, state, files, provq>>
  /\ UNCHANGED <<clientVars, providerVars, outputVars>>

\* The second branch: everything in the provider channel becomes one batch, and
\* the last event decides the state.
Drain ==
  /\ pc = "select"
  /\ cmdq = <<>>
  /\ provq # <<>>
  /\ provq' = <<>>
  /\ SetState(IF provq[Len(provq)].kind = "Error" THEN "Failed"
                                                  ELSE "Disconnected")
  /\ UNCHANGED <<cmdq, pc, cur, cancelled, files, answered>>
  /\ UNCHANGED <<clientVars, providerVars>>

\* cancel.notified() is created and the operation is polled for the first time.
Arm ==
  /\ pc = "arm"
  /\ pc' = "run"
  /\ phase' = IF cur.kind = "Connect" THEN "dial" ELSE phase
  /\ UNCHANGED <<cmdq, cur, cancelled, state, files, provq, creds, attempt,
                 gate, conn, readers, orphans>>
  /\ UNCHANGED <<clientVars, outputVars>>

\* The awaited operation is over, in whatever way.
Resume ==
  /\ pc' = "select"
  /\ cur' = NoCommand
  /\ cancelled' = FALSE

\* (mutant) File operations are awaited without racing them against cancel.
OpCancelledNotFs ==
  /\ pc = "run"
  /\ cancelled
  /\ cur.kind \notin {"Connect", "Fs"}
  /\ IF cur.kind \in Requests THEN Answer(cur) ELSE UNCHANGED answered
  /\ Resume
  /\ UNCHANGED <<cmdq, state, files, provq, shown>>
  /\ UNCHANGED <<clientVars, providerVars>>

\* A cancelled send, file operation or command; requests get their result.
OpCancelled ==
  /\ pc = "run"
  /\ cancelled
  /\ cur.kind # "Connect"
  /\ IF cur.kind \in Requests THEN Answer(cur) ELSE UNCHANGED answered
  /\ Resume
  /\ UNCHANGED <<cmdq, state, files, provq, shown>>
  /\ UNCHANGED <<clientVars, providerVars>>

\* A cancelled connect: the future is dropped where it stands.  A reader it
\* has spawned stays, and so do a stored host-key sender and the task in which
\* the SSH library performs the handshake.
ConnectCancelled ==
  /\ pc = "run"
  /\ cancelled
  /\ cur.kind = "Connect"
  /\ pc' = "abort"
  /\ phase' = "idle"
  /\ cancelled' = FALSE
  /\ orphans' = IF phase = "dial" THEN orphans \cup {attempt} ELSE orphans
  /\ UNCHANGED <<cmdq, cur, state, files, provq, creds, attempt, gate, conn,
                 readers>>
  /\ UNCHANGED <<clientVars, outputVars>>

\* (mutant) Without a file provider the operation is dropped.
FsUnavailableSilent ==
  /\ pc = "run"
  /\ cur.kind = "Fs"
  /\ files = 0
  /\ Resume
  /\ UNCHANGED <<cmdq, state, files, provq>>
  /\ UNCHANGED <<clientVars, providerVars, outputVars>>

\* Without a file provider run_fs_op answers ProviderUnavailable at once.
FsUnavailable ==
  /\ pc = "run"
  /\ cur.kind = "Fs"
  /\ files = 0
  /\ Answer(cur)
  /\ Resume
  /\ UNCHANGED <<cmdq, state, files, provq, shown>>
  /\ UNCHANGED <<clientVars, providerVars>>

\* The provider's exec is bounded by the timeout of the request.
ExecDone ==
  /\ pc = "run"
  /\ cur.kind = "Exec"
  /\ Answer(cur)
  /\ Resume
  /\ UNCHANGED <<cmdq, state, files, provq, shown>>
  /\ UNCHANGED <<clientVars, providerVars>>

\* (mutant) The old file provider is kept when the new connection has none.
ConnectOkKeepsFiles ==
  /\ phase = "shell"
  /\ phase' = "idle"
  /\ conn' = attempt
  /\ files' \in {files, attempt}
  /\ SetState("Connected")
  /\ Resume
  /\ UNCHANGED <<cmdq, provq, creds, attempt, gate, readers, orphans,
                 answered>>
  /\ UNCHANGED clientVars

\* The SFTP probe, bounded by two seconds, found a file service or none: the
\* fields of an earlier connection are overwritten and the driver picks up the
\* file provider.
ConnectOk ==
  /\ phase = "shell"
  /\ phase' = "idle"
  /\ conn' = attempt
  /\ files' \in {0, attempt}
  /\ SetState("Connected")
  /\ Resume
  /\ UNCHANGED <<cmdq, provq, creds, attempt, gate, readers, orphans,
                 answered>>
  /\ UNCHANGED clientVars

\* The disconnect of Shutdown ended or its two seconds are over.
ByeDone ==
  /\ pc = "bye"
  /\ pc' = "done"
  /\ cmdq' = <<>>
  /\ UNCHANGED <<cur, cancelled, state, files, provq>>
  /\ UNCHANGED <<clientVars, providerVars, outputVars>>
-----------------------------------------------------------------------------
(* Steps that need the remote side: nothing bounds how long they take. *)

FsDone ==
  /\ pc = "run"
  /\ cur.kind = "Fs"
  /\ files # 0
  /\ Answer(cur)
  /\ Resume
  /\ UNCHANGED <<cmdq, state, files, provq, shown>>
  /\ UNCHANGED <<clientVars, providerVars>>

SendDone ==
  /\ pc = "run"
  /\ cur.kind = "Send"
  /\ Resume
  /\ UNCHANGED <<cmdq, state, files, provq>>
  /\ UNCHANGED <<clientVars, providerVars, outputVars>>

\* check_server_key knows the key, or asks through the gate: a sender stored
\* by an earlier attempt is replaced.
HostKeyKnown ==
  /\ phase = "dial"
  /\ phase' = "trusted"
  /\ UNCHANGED <<cmdq, pc, cur, cancelled, state, files, provq, creds,
                 attempt, gate, conn, readers, orphans>>
  /\ UNCHANGED <<clientVars, outputVars>>

\* (mutant) A stored sender is not replaced.
HostKeyPromptKeeps ==
  /\ phase = "dial"
  /\ phase' = "prompt"
  /\ gate' = IF gate = 0 THEN attempt ELSE gate
  /\ UNCHANGED <<cmdq, pc, cur, cancelled, state, files, provq, creds,
                 attempt, conn, readers, orphans>>
  /\ UNCHANGED <<clientVars, outputVars>>

HostKeyPrompt ==
  /\ phase = "dial"
  /\ phase' = "prompt"
  /\ gate' = attempt
  /\ UNCHANGED <<cmdq, pc, cur, cancelled, state, files, provq, creds,
                 attempt, conn, readers, orphans>>
  /\ UNCHANGED <<clientVars, outputVars>>

\* The handshake of an abandoned attempt reaches check_server_key.  Its sender
\* replaces the stored one; if a live prompt loses its sender that way, its
\* receiver fails and the key counts as refused.
OrphanPrompt ==
  \E a \in orphans :
    /\ pc # "done"
    /\ orphans' = orphans \ {a}
    /\ gate' = a
    /\ phase' = IF phase = "prompt" THEN "refused" ELSE phase
    /\ UNCHANGED <<cmdq, pc, cur, cancelled, state, files, provq, creds,
                   attempt, conn, readers>>
    /\ UNCHANGED <<clientVars, outputVars>>

\* The shell is up and its reader spawned; the provider's fields are not set.
OpenShell ==
  /\ phase = "trusted"
  /\ phase' = "shell"
  /\ readers' = readers \cup {attempt}
  /\ UNCHANGED <<cmdq, pc, cur, cancelled, state, files, provq, creds,
                 attempt, gate, conn, orphans>>
  /\ UNCHANGED <<clientVars, outputVars>>

\* A transport, host-key, authentication or channel error.
ConnectErr ==
  /\ phase \in {"dial", "refused", "trusted"}
  /\ phase' = "idle"
  /\ SetState("Failed")
  /\ Resume
  /\ UNCHANGED <<cmdq, files, provq, creds, attempt, gate, conn, readers,
                 orphans, answered>>
  /\ UNCHANGED clientVars

\* (mutant) The connection is counted down instead of cleared.
DisconnectDoneCounts ==
  /\ pc \in {"abort", "close"}
  /\ conn' = conn - 1
  /\ readers' = readers \ {conn}
  /\ SetState("Disconnected")
  /\ Resume
  /\ UNCHANGED <<cmdq, files, provq, creds, phase, attempt, gate, orphans,
                 answered>>
  /\ UNCHANGED clientVars

\* provider.disconnect() returned: the held connection is gone and its reader
\* aborted.  Unlike the one of Shutdown these two waits have no bound.
DisconnectDone ==
  /\ pc \in {"abort", "close"}
  /\ conn' = 0
  /\ readers' = readers \ {conn}
  /\ SetState("Disconnected")
  /\ Resume
  /\ UNCHANGED <<cmdq, files, provq, creds, phase, attempt, gate, orphans,
                 answered>>
  /\ UNCHANGED clientVars

\* A reader meets the end of the stream or an error, reports it and ends.
ReaderEnds ==
  \E a \in readers, k \in {"Disconnected", "Error"} :
    /\ pc # "done"
    /\ readers' = readers \ {a}
    /\ provq' = Append(provq, [kind |-> k, of |-> a])
    /\ UNCHANGED <<cmdq, pc, cur, cancelled, state, files, creds, phase,
                   attempt, gate, conn, orphans>>
    /\ UNCHANGED <<clientVars, outputVars>>
-----------------------------------------------------------------------------
Client ==
  \/ \E k \in Ops : Submit(k) \/ Request(k)
  \/ Cancel
  \/ \E accept \in BOOLEAN : ConfirmHostKey(accept)
  \/ Destroy
  \/ Joined
  \/ JoinTimedOut

\* What the runtime schedules as soon as it can, and what a timer bounds.
DriverStep ==
  \/ CreateProvider \/ CreateProviderFails
  \/ TakeCredential \/ TakeConnectRefused \/ TakeConnect \/ TakeSend
  \/ TakeDisconnect \/ TakeFs \/ TakeExec \/ TakeShutdown
  \/ Drain
  \/ Arm
  \/ OpCancelled \/ ConnectCancelled
  \/ FsUnavailable \/ ExecDone \/ ConnectOk
  \/ ByeDone

\* What the driver awaits from the remote side.
RemoteAnswer ==
  \/ FsDone \/ SendDone
  \/ HostKeyKnown \/ HostKeyPrompt \/ OpenShell \/ ConnectErr
  \/ DisconnectDone

\* What the remote side does unasked.
RemoteEvent == OrphanPrompt \/ ReaderEnds

Next == Client \/ DriverStep \/ RemoteAnswer \/ RemoteEvent

Spec == Init /\ [][Next]_vars

(***************************************************************************)
(* Fairness.  The Tokio runtime polls a ready task and fires its timers:   *)
(* LocalFairness.  That the remote side answers, and that the user answers *)
(* the modal host-key dialog, is assumed only where a property says so.    *)
(***************************************************************************)
LocalFairness  == WF_vars(DriverStep) /\ WF_vars(Joined \/ JoinTimedOut)
RemoteFairness == WF_vars(RemoteAnswer)
UserFairness   == WF_vars(\E accept \in BOOLEAN : ConfirmHostKey(accept))

LocalSpec == Spec /\ LocalFairness
FairSpec  == Spec /\ LocalFairness /\ RemoteFairness /\ UserFairness
-----------------------------------------------------------------------------
(* Safety. *)

IsRequest(c) == c.kind \in Requests

\* Request n is in execution or in the channel.
Owed(n) ==
  \/ IsRequest(cur) /\ cur.id = n
  \/ \E i \in DOMAIN cmdq : IsRequest(cmdq[i]) /\ cmdq[i].id = n

\* While the driver runs and the handle is not closed, the requests without a
\* result are exactly the one in execution and the ones in the channel, in the
\* order of their ids: drive() answers every Fs and Exec command on every path,
\* a cancelled, refused or unavailable one included, and never twice.
NoRequestLost ==
  pc # "done" /\ handle # "closed" =>
    /\ \A n \in (answered + 1)..accepted : Owed(n)
    /\ IsRequest(cur) => cur.id \in (answered + 1)..accepted
    /\ \A i \in DOMAIN cmdq : IsRequest(cmdq[i]) =>
         /\ cmdq[i].id \in (answered + 1)..accepted
         /\ IsRequest(cur) => cur.id < cmdq[i].id
         /\ \A j \in 1..(i - 1) : IsRequest(cmdq[j]) => cmdq[j].id < cmdq[i].id

\* Connected always means the provider holds a connection, and a file provider
\* the driver holds then belongs to that same connection, whatever cancelled,
\* failed or dropped attempts came before (take_file_provider, disconnect).
ConnectedHasTransport ==
  state = "Connected" /\ pc \in {"select", "arm", "run"} =>
    /\ conn # 0
    /\ files \in {0, conn}

\* A connect parked on the host-key decision can be answered: the stored sender
\* is its own, although abandoned attempts use the same slot (HostKeyGate).
GateAnswerable == phase = "prompt" => gate = attempt

\* A connection attempt authenticates with every credential the client sent
\* before it asked to connect (SetSecret and SetPrivateKey travel as commands).
CredentialsApplied == cur.kind = "Connect" => cur.need \subseteq creds

\* event.rs: Disconnected is "cleanly disconnected", Failed is "terminated due
\* to an error": in neither does the shell of the held connection live on.
DisconnectedIsClosed ==
  pc = "select" /\ state \in {"Disconnected", "Failed"} => conn \notin readers

\* The driver implements the promise of SessionLifecycle: legal edges only, and
\* results in order, once each, and none after the handle is closed.
Lifecycle == INSTANCE SessionLifecycle WITH open <- handle # "closed"
ImplementsLifecycle == Lifecycle!Spec
-----------------------------------------------------------------------------
(* Liveness. *)

\* A cancel that met an operation ends it, even when the remote side never
\* answers (run_cancellable and run_until_cancel).
CancelEndsOperation == cancelled ~> ~cancelled

\* With a remote side that answers and a user who answers the dialog, every
\* accepted request gets its result, unless the session is destroyed or the
\* provider could not be created: the biased select! serves the channel in
\* order and each operation it awaits ends.
RequestsAnswered ==
  RemoteFairness /\ UserFairness =>
    \A n \in 1..MaxRequests :
      accepted >= n ~> answered >= n \/ handle # "open" \/ pc = "done"

\* After shutdown_and_join has begun and with a remote side that answers, the
\* driver ends, detached or not, or it stays parked on a host-key prompt.
DriverEndsOrPrompts ==
  RemoteFairness => (handle # "open" ~> pc = "done" \/ phase = "prompt")

\* ffi.rs: when rscore_session_destroy has returned, the driver task has been
\* joined, and HostKeyGate::confirm ends with the session; at the least the
\* driver does not outlive the call for good.
TeardownEndsDriver == handle = "closed" ~> pc = "done"
=============================================================================
