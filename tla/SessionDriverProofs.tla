------------------------ MODULE SessionDriverProofs ------------------------
(***************************************************************************)
(* Proofs about SessionDriver, for every set of client operations and      *)
(* every value of the bounds: requests are neither lost nor answered       *)
(* twice, a connected session has a transport, a host-key prompt can be    *)
(* answered, a connect applies the credentials sent before it, and the     *)
(* driver implements SessionLifecycle.                                     *)
(*                                                                         *)
(* None of these is inductive by itself.  What they have in common is      *)
(* Control, which ties the driver's place in its loop to the command it    *)
(* executes and to its state: nothing is in execution at the select!, the  *)
(* transient states Connecting and Disconnecting exist only while their    *)
(* operation is awaited, and a connect future exists only while it is run. *)
(***************************************************************************)
EXTENDS SessionDriver, SequenceTheorems, TLAPS

Transient == {"Connecting", "Disconnecting"}
Operations == {"Connect", "Send", "Fs", "Exec"}

\* What the place of the driver in its loop says of the rest of the session.
Control ==
  /\ pc = "start" => state = "Idle"
  /\ pc \in {"start", "select"} => cur = NoCommand
  /\ pc = "select" => state \notin Transient
  /\ pc \in {"arm", "run"} =>
       /\ cur.kind \in Operations
       /\ cur.kind = "Connect" => state = "Connecting" /\ attempt # 0
       /\ cur.kind # "Connect" => state \notin Transient
  /\ pc = "abort" => state = "Connecting" /\ cur.kind = "Connect"
  /\ pc = "close" => state = "Disconnecting" /\ cur.kind = "Disconnect"
  /\ phase # "idle" => pc = "run" /\ cur.kind = "Connect"
  /\ cancelled => pc = "run"
  /\ state = "Idle" => attempt = 0
  /\ provq # <<>> => attempt # 0
  /\ handle # "closed" => shown = state

\* The ids of the requests: every one drawn while the driver runs is accepted.
Numbering ==
  /\ pc # "done" => accepted = nextId
  /\ answered <= accepted

\* Every credential the client sent is applied or still queued, and those sent
\* before a queued connect are queued before it.
CredentialsQueued ==
  /\ pc # "done" =>
       sent \subseteq creds \cup {cmdq[i].kind : i \in DOMAIN cmdq}
  /\ \A i \in DOMAIN cmdq : cmdq[i].kind = "Connect" =>
       cmdq[i].need \subseteq creds \cup {cmdq[j].kind : j \in 1..(i - 1)}

Basic == TypeOK /\ Control

IInv ==
  /\ TypeOK
  /\ Control
  /\ Numbering
  /\ NoRequestLost
  /\ ConnectedHasTransport
  /\ GateAnswerable
  /\ CredentialsApplied
  /\ CredentialsQueued
-----------------------------------------------------------------------------
(* Sequences. *)

\* A queue after a command or an event is put at its end.
LEMMA AppendFacts ==
  ASSUME NEW S, NEW s \in Seq(S), NEW e \in S
  PROVE  /\ Append(s, e) \in Seq(S)
         /\ Len(Append(s, e)) = Len(s) + 1
         /\ DOMAIN Append(s, e) = 1..(Len(s) + 1)
         /\ \A i \in DOMAIN s : Append(s, e)[i] = s[i]
         /\ Append(s, e)[Len(s) + 1] = e
  OBVIOUS

\* The first element of a queue, and the queue once it is taken.
LEMMA TailFacts ==
  ASSUME NEW S, NEW s \in Seq(S), s # <<>>
  PROVE  /\ Head(s) \in S
         /\ Head(s) = s[1]
         /\ Len(s) \in Nat \ {0}
         /\ DOMAIN s = 1..Len(s)
         /\ Tail(s) \in Seq(S)
         /\ DOMAIN Tail(s) = 1..(Len(s) - 1)
         /\ \A i \in 1..(Len(s) - 1) : Tail(s)[i] = s[i + 1]
  OBVIOUS
-----------------------------------------------------------------------------
\* Commands built by the client are of the type of the channel.
LEMMA CommandTypes ==
  /\ NoCommand \in CommandType
  /\ Shutdown \in CommandType
  /\ \A k \in Commands, n \in Nat, need \in SUBSET Credentials :
       Command(k, n, need) \in CommandType
  BY DEF NoCommand, Shutdown, Command, CommandType

\* A session that was just created satisfies the invariant.
LEMMA InitIInv == Init => IInv
<1> SUFFICES ASSUME Init PROVE IInv
  OBVIOUS
<1> USE DEF Init
<1>1. TypeOK
  <2>1. cmdq \in Seq(CommandType) /\ provq \in Seq(EventType)
    BY EmptySeq
  <2>2. files \in 0..attempt /\ gate \in 0..attempt /\ conn \in 0..attempt
    OBVIOUS
  <2> QED
    BY <2>1, <2>2, CommandTypes DEF TypeOK, States
<1>2. Control
  BY DEF Control, Transient
<1>3. Numbering /\ CredentialsQueued
  BY DEF Numbering, CredentialsQueued
<1>4. NoRequestLost
  BY DEF NoRequestLost, IsRequest, Requests, NoCommand, Command
<1>5. ConnectedHasTransport /\ GateAnswerable
  BY DEF ConnectedHasTransport, GateAnswerable
<1>6. CredentialsApplied
  BY DEF CredentialsApplied, NoCommand, Command
<1> QED
  BY <1>1, <1>2, <1>3, <1>4, <1>5, <1>6 DEF IInv

\* Every step keeps the types.
LEMMA TypeStep == Basic /\ [Next]_vars => TypeOK'
<1> SUFFICES ASSUME TypeOK, Control, [Next]_vars PROVE TypeOK'
  BY DEF Basic
<1> USE DEF clientVars, providerVars, outputVars, SetState, Show, Answer, Resume, Queued
<1>0. /\ cur.id \in Nat
      /\ pc = "run" /\ cur.kind = "Connect" => attempt # 0
      /\ phase # "idle" => attempt # 0
  <2>1. cur.id \in Nat
    BY DEF TypeOK, CommandType
  <2>2. pc = "run" /\ cur.kind = "Connect" => attempt # 0
    BY DEF Control
  <2> QED
    BY <2>1, <2>2 DEF Control
<1>1. ASSUME NEW k \in Ops, Submit(k) PROVE TypeOK'
  <2>1. sent' \in SUBSET Credentials
    BY <1>1 DEF Submit, TypeOK
  <2>2. cmdq' \in Seq(CommandType)
    <3>1. Command(k, 0, IF k = "Connect" THEN sent ELSE {}) \in CommandType
      BY OpsAssumption, CommandTypes DEF TypeOK
    <3> QED
      BY <1>1, <3>1 DEF Submit, TypeOK
  <2> QED
    BY <1>1, <2>1, <2>2 DEF Submit, TypeOK
<1>2. ASSUME NEW k \in Ops, Request(k) PROVE TypeOK'
  <2>1. cmdq' \in Seq(CommandType)
    <3>1. Command(k, nextId + 1, {}) \in CommandType
      BY OpsAssumption, CommandTypes DEF TypeOK
    <3> QED
      BY <1>2, <3>1 DEF Request, TypeOK
  <2> QED
    BY <1>2, <2>1 DEF Request, TypeOK
<1>3. ASSUME NEW accept \in BOOLEAN, ConfirmHostKey(accept) PROVE TypeOK'
  BY <1>3 DEF ConfirmHostKey, TypeOK
<1>4. ASSUME CreateProvider PROVE TypeOK'
  BY <1>4 DEF CreateProvider, TypeOK
<1>5. ASSUME CreateProviderFails PROVE TypeOK'
  BY <1>5, EmptySeq DEF CreateProviderFails, TypeOK, States
<1>6. ASSUME TakeCredential PROVE TypeOK'
  BY <1>6 DEF TakeCredential, Take, TypeOK
<1>7. ASSUME TakeConnectRefused PROVE TypeOK'
  BY <1>7 DEF TakeConnectRefused, Take, TypeOK
<1>8. ASSUME TakeConnect PROVE TypeOK'
  BY <1>8, TailFacts DEF TakeConnect, Take, TypeOK, States
<1>9. ASSUME TakeSend PROVE TypeOK'
  BY <1>9 DEF TakeSend, Take, TypeOK
<1>10. ASSUME TakeDisconnect PROVE TypeOK'
  BY <1>10 DEF TakeDisconnect, Take, TypeOK, States
<1>11. ASSUME TakeFs PROVE TypeOK'
  BY <1>11 DEF TakeFs, Take, TypeOK
<1>12. ASSUME TakeExec PROVE TypeOK'
  <2>1. Head(cmdq).id \in Nat /\ Head(cmdq) \in CommandType
    <3>1. cmdq # <<>> /\ cmdq \in Seq(CommandType)
      BY <1>12 DEF TakeExec, Take, TypeOK
    <3>2. Head(cmdq) \in CommandType
      BY <3>1, TailFacts
    <3> QED
      BY <3>2 DEF CommandType
  <2> QED
    BY <1>12, <2>1 DEF TakeExec, Take, TypeOK
<1>13. ASSUME TakeShutdown PROVE TypeOK'
  BY <1>13 DEF TakeShutdown, Take, TypeOK
<1>14. ASSUME Drain PROVE TypeOK'
  BY <1>14, EmptySeq DEF Drain, TypeOK, States
<1>15. ASSUME Arm PROVE TypeOK'
  BY <1>15 DEF Arm, TypeOK
<1>16. ASSUME OpCancelled PROVE TypeOK'
  BY <1>16, <1>0, CommandTypes DEF OpCancelled, TypeOK
<1>17. ASSUME ConnectCancelled PROVE TypeOK'
  <2>1. orphans' \in SUBSET (1..attempt)
    BY <1>17, <1>0 DEF ConnectCancelled, TypeOK
  <2> QED
    BY <1>17, <2>1 DEF ConnectCancelled, TypeOK
<1>18. ASSUME FsUnavailable PROVE TypeOK'
  BY <1>18, <1>0, CommandTypes DEF FsUnavailable, TypeOK
<1>19. ASSUME ExecDone PROVE TypeOK'
  BY <1>19, <1>0, CommandTypes DEF ExecDone, TypeOK
<1>20. ASSUME ConnectOk PROVE TypeOK'
  <2>1. files' \in 0..attempt /\ conn' \in 0..attempt
    BY <1>20, <1>0 DEF ConnectOk, TypeOK
  <2> QED
    BY <1>20, <2>1, CommandTypes DEF ConnectOk, TypeOK, States
<1>21. ASSUME ByeDone PROVE TypeOK'
  BY <1>21, EmptySeq DEF ByeDone, TypeOK
<1>22. ASSUME FsDone PROVE TypeOK'
  BY <1>22, <1>0, CommandTypes DEF FsDone, TypeOK
<1>23. ASSUME SendDone PROVE TypeOK'
  BY <1>23, CommandTypes DEF SendDone, TypeOK
<1>24. ASSUME HostKeyKnown PROVE TypeOK'
  BY <1>24 DEF HostKeyKnown, TypeOK
<1>25. ASSUME HostKeyPrompt PROVE TypeOK'
  BY <1>25 DEF HostKeyPrompt, TypeOK
<1>26. ASSUME OpenShell PROVE TypeOK'
  BY <1>26, <1>0 DEF OpenShell, TypeOK
<1>27. ASSUME ConnectErr PROVE TypeOK'
  BY <1>27, CommandTypes DEF ConnectErr, TypeOK, States
<1>28. ASSUME DisconnectDone PROVE TypeOK'
  <2>1. conn' \in 0..attempt /\ readers' \in SUBSET (1..attempt)
    BY <1>28 DEF DisconnectDone, TypeOK
  <2> QED
    BY <1>28, <2>1, CommandTypes DEF DisconnectDone, TypeOK, States
<1>29. ASSUME OrphanPrompt PROVE TypeOK'
  BY <1>29 DEF OrphanPrompt, TypeOK
<1>30. ASSUME ReaderEnds PROVE TypeOK'
  <2>1. PICK a \in readers, k \in {"Disconnected", "Error"} :
          /\ readers' = readers \ {a}
          /\ provq' = Append(provq, [kind |-> k, of |-> a])
    BY <1>30 DEF ReaderEnds
  <2>2. provq' \in Seq(EventType)
    <3>1. [kind |-> k, of |-> a] \in EventType
      BY DEF EventType, TypeOK
    <3> QED
      BY <2>1, <3>1 DEF TypeOK
  <2> QED
    BY <1>30, <2>1, <2>2 DEF ReaderEnds, TypeOK
<1>31. ASSUME Cancel PROVE TypeOK'
  BY <1>31 DEF Cancel, TypeOK
<1>32. ASSUME Destroy PROVE TypeOK'
  <2>1. cmdq' \in Seq(CommandType)
    BY <1>32, CommandTypes DEF Destroy, TypeOK
  <2> QED
    BY <1>32, <2>1 DEF Destroy, TypeOK
<1>33. ASSUME CloseHandle PROVE TypeOK'
  BY <1>33 DEF CloseHandle, TypeOK
<1>34. CASE UNCHANGED vars
  BY <1>34 DEF vars, TypeOK
<1> QED
  BY <1>1, <1>2, <1>3, <1>4, <1>5, <1>6, <1>7, <1>8, <1>9, <1>10, <1>11, <1>12, <1>13, <1>14, <1>15, <1>16, <1>17, <1>18, <1>19, <1>20, <1>21, <1>22, <1>23, <1>24, <1>25, <1>26, <1>27, <1>28, <1>29, <1>30, <1>31, <1>32, <1>33, <1>34 DEF Next, Client, Joined, JoinTimedOut, DriverStep, RemoteAnswer, RemoteEvent

\* Every step keeps the driver in step with its command and its state.
LEMMA ControlStep == Basic /\ [Next]_vars => Control'
<1> SUFFICES ASSUME TypeOK, Control, [Next]_vars PROVE Control'
  BY DEF Basic
<1> USE DEF clientVars, providerVars, outputVars, SetState, Show, Answer, Resume
<1>1. ASSUME NEW k \in Ops, Submit(k) PROVE Control'
  BY <1>1 DEF Submit, Control, Transient
<1>2. ASSUME NEW k \in Ops, Request(k) PROVE Control'
  BY <1>2 DEF Request, Control, Transient
<1>3. ASSUME NEW accept \in BOOLEAN, ConfirmHostKey(accept) PROVE Control'
  BY <1>3 DEF ConfirmHostKey, Control, Transient
<1>4. ASSUME CreateProvider PROVE Control'
  BY <1>4 DEF CreateProvider, Control, Transient
<1>5. ASSUME CreateProviderFails PROVE Control'
  BY <1>5 DEF CreateProviderFails, Control, Transient
<1>6. ASSUME TakeCredential PROVE Control'
  BY <1>6 DEF TakeCredential, Take, Control, Transient
<1>7. ASSUME TakeConnectRefused PROVE Control'
  BY <1>7 DEF TakeConnectRefused, Take, Control, Transient
<1>8. ASSUME TakeConnect PROVE Control'
  <2>1. attempt' # 0
    BY <1>8 DEF TakeConnect, TypeOK
  <2> QED
    BY <1>8, <2>1 DEF TakeConnect, Take, Control, Operations, Transient
<1>9. ASSUME TakeSend PROVE Control'
  BY <1>9 DEF TakeSend, Take, Control, Operations, Transient
<1>10. ASSUME TakeDisconnect PROVE Control'
  BY <1>10 DEF TakeDisconnect, Take, Control, Transient
<1>11. ASSUME TakeFs PROVE Control'
  BY <1>11 DEF TakeFs, Take, Control, Operations, Transient
<1>12. ASSUME TakeExec PROVE Control'
  BY <1>12 DEF TakeExec, Take, Control, Operations, Transient
<1>13. ASSUME TakeShutdown PROVE Control'
  BY <1>13 DEF TakeShutdown, Take, Control, Transient
<1>14. ASSUME Drain PROVE Control'
  BY <1>14 DEF Drain, Control, Transient
<1>15. ASSUME Arm PROVE Control'
  BY <1>15 DEF Arm, Control, Transient
<1>16. ASSUME OpCancelled PROVE Control'
  BY <1>16 DEF OpCancelled, Control, Transient
<1>17. ASSUME ConnectCancelled PROVE Control'
  BY <1>17 DEF ConnectCancelled, Control, Transient
<1>18. ASSUME FsUnavailable PROVE Control'
  BY <1>18 DEF FsUnavailable, Control, Transient
<1>19. ASSUME ExecDone PROVE Control'
  BY <1>19 DEF ExecDone, Control, Transient
<1>20. ASSUME ConnectOk PROVE Control'
  BY <1>20 DEF ConnectOk, Control, Transient
<1>21. ASSUME ByeDone PROVE Control'
  BY <1>21 DEF ByeDone, Control, Transient
<1>22. ASSUME FsDone PROVE Control'
  BY <1>22 DEF FsDone, Control, Transient
<1>23. ASSUME SendDone PROVE Control'
  BY <1>23 DEF SendDone, Control, Transient
<1>24. ASSUME HostKeyKnown PROVE Control'
  BY <1>24 DEF HostKeyKnown, Control, Transient
<1>25. ASSUME HostKeyPrompt PROVE Control'
  BY <1>25 DEF HostKeyPrompt, Control, Transient
<1>26. ASSUME OpenShell PROVE Control'
  BY <1>26 DEF OpenShell, Control, Transient
<1>27. ASSUME ConnectErr PROVE Control'
  BY <1>27 DEF ConnectErr, Control, Transient
<1>28. ASSUME DisconnectDone PROVE Control'
  BY <1>28 DEF DisconnectDone, Control, Transient
<1>29. ASSUME OrphanPrompt PROVE Control'
  BY <1>29 DEF OrphanPrompt, Control, Transient
<1>30. ASSUME ReaderEnds PROVE Control'
  <2>1. attempt # 0
    BY <1>30 DEF ReaderEnds, TypeOK
  <2> QED
    BY <1>30, <2>1 DEF ReaderEnds, Control, Transient
<1>31. ASSUME Cancel PROVE Control'
  BY <1>31 DEF Cancel, Control, Transient
<1>32. ASSUME Destroy PROVE Control'
  BY <1>32 DEF Destroy, Control, Transient
<1>33. ASSUME CloseHandle PROVE Control'
  BY <1>33 DEF CloseHandle, Control, Transient
<1>34. CASE UNCHANGED vars
  BY <1>34 DEF vars, Control, Transient
<1> QED
  BY <1>1, <1>2, <1>3, <1>4, <1>5, <1>6, <1>7, <1>8, <1>9, <1>10, <1>11, <1>12, <1>13, <1>14, <1>15, <1>16, <1>17, <1>18, <1>19, <1>20, <1>21, <1>22, <1>23, <1>24, <1>25, <1>26, <1>27, <1>28, <1>29, <1>30, <1>31, <1>32, <1>33, <1>34
     DEF Next, Client, Joined, JoinTimedOut, DriverStep, RemoteAnswer, RemoteEvent

\* Only a connect that ends well makes the session connected, and it replaces
\* the connection and the file provider together.
LEMMA TransportStep ==
  Basic /\ ConnectedHasTransport /\ [Next]_vars => ConnectedHasTransport'
<1> SUFFICES ASSUME TypeOK, Control, ConnectedHasTransport, [Next]_vars
             PROVE  ConnectedHasTransport'
  BY DEF Basic
<1> USE DEF clientVars, providerVars, outputVars, SetState, Show, Answer, Resume
<1>1. ASSUME ConnectOk PROVE ConnectedHasTransport'
  BY <1>1 DEF ConnectOk, Control, ConnectedHasTransport
<1>2. ASSUME TakeConnect PROVE ConnectedHasTransport'
  BY <1>2 DEF TakeConnect, ConnectedHasTransport
<1>3. ASSUME NEW k \in Ops, Submit(k) PROVE ConnectedHasTransport'
  BY <1>3 DEF Submit, ConnectedHasTransport
<1>4. ASSUME NEW k \in Ops, Request(k) PROVE ConnectedHasTransport'
  BY <1>4 DEF Request, ConnectedHasTransport
<1>5. ASSUME NEW accept \in BOOLEAN, ConfirmHostKey(accept) PROVE ConnectedHasTransport'
  BY <1>5 DEF ConfirmHostKey, ConnectedHasTransport
<1>6. ASSUME TakeCredential \/ TakeConnectRefused \/ TakeSend \/
             TakeDisconnect \/ TakeFs \/ TakeExec
     PROVE  ConnectedHasTransport'
  BY <1>6 DEF TakeCredential, TakeConnectRefused, TakeSend, TakeDisconnect,
              TakeFs, TakeExec, Take, ConnectedHasTransport
<1>7. ASSUME TakeShutdown
     PROVE  ConnectedHasTransport'
  BY <1>7 DEF TakeShutdown, Take, ConnectedHasTransport
<1>8. ASSUME CreateProvider \/ CreateProviderFails \/ Drain \/ Arm \/
             OpCancelled \/ ConnectCancelled
     PROVE  ConnectedHasTransport'
  BY <1>8 DEF CreateProvider, CreateProviderFails, Drain, Arm, OpCancelled,
              ConnectCancelled, Control, ConnectedHasTransport
<1>9. ASSUME FsUnavailable \/ ExecDone \/ ByeDone \/ FsDone \/ SendDone
             \/ HostKeyKnown
     PROVE  ConnectedHasTransport'
  BY <1>9 DEF FsUnavailable, ExecDone, ByeDone, FsDone, SendDone,
              HostKeyKnown, ConnectedHasTransport
<1>10. ASSUME HostKeyPrompt \/ OpenShell \/ ConnectErr \/ DisconnectDone
              \/ OrphanPrompt \/ ReaderEnds
     PROVE  ConnectedHasTransport'
  BY <1>10 DEF HostKeyPrompt, OpenShell, ConnectErr, DisconnectDone,
              OrphanPrompt, ReaderEnds, ConnectedHasTransport
<1>11. ASSUME Cancel \/ Destroy \/ CloseHandle
     PROVE  ConnectedHasTransport'
  BY <1>11 DEF Cancel, Destroy, CloseHandle, ConnectedHasTransport
<1>12. CASE UNCHANGED vars
  BY <1>12 DEF vars, ConnectedHasTransport
<1> QED
  BY <1>1, <1>2, <1>3, <1>4, <1>5, <1>6, <1>7, <1>8, <1>9, <1>10, <1>11,
     <1>12
     DEF Next, Client, Joined, JoinTimedOut, DriverStep, RemoteAnswer, RemoteEvent

\* A prompt stores its own sender, and whoever replaces it ends the prompt.
LEMMA GateStep ==
  Basic /\ GateAnswerable /\ [Next]_vars => GateAnswerable'
<1> SUFFICES ASSUME TypeOK, Control, GateAnswerable, [Next]_vars
             PROVE  GateAnswerable'
  BY DEF Basic
<1> USE DEF clientVars, providerVars, outputVars, SetState, Show, Answer, Resume
<1>1. ASSUME TakeConnect PROVE GateAnswerable'
  BY <1>1 DEF TakeConnect, Take, Control, GateAnswerable
<1>2. ASSUME HostKeyPrompt PROVE GateAnswerable'
  BY <1>2 DEF HostKeyPrompt, GateAnswerable
<1>3. ASSUME OrphanPrompt PROVE GateAnswerable'
  BY <1>3 DEF OrphanPrompt, GateAnswerable
<1>4. ASSUME NEW k \in Ops, Submit(k) PROVE GateAnswerable'
  BY <1>4 DEF Submit, GateAnswerable
<1>5. ASSUME NEW k \in Ops, Request(k) PROVE GateAnswerable'
  BY <1>5 DEF Request, GateAnswerable
<1>6. ASSUME NEW accept \in BOOLEAN, ConfirmHostKey(accept) PROVE GateAnswerable'
  BY <1>6 DEF ConfirmHostKey, GateAnswerable
<1>7. ASSUME TakeCredential \/ TakeConnectRefused \/ TakeSend \/
             TakeDisconnect \/ TakeFs \/ TakeExec
     PROVE  GateAnswerable'
  BY <1>7 DEF TakeCredential, TakeConnectRefused, TakeSend, TakeDisconnect,
              TakeFs, TakeExec, Take, GateAnswerable
<1>8. ASSUME TakeShutdown
     PROVE  GateAnswerable'
  BY <1>8 DEF TakeShutdown, Take, GateAnswerable
<1>9. ASSUME CreateProvider \/ CreateProviderFails \/ Drain \/ Arm \/
             OpCancelled \/ ConnectCancelled
     PROVE  GateAnswerable'
  BY <1>9 DEF CreateProvider, CreateProviderFails, Drain, Arm, OpCancelled,
              ConnectCancelled, GateAnswerable
<1>10. ASSUME FsUnavailable \/ ExecDone \/ ConnectOk \/ ByeDone \/ FsDone
              \/ SendDone
     PROVE  GateAnswerable'
  BY <1>10 DEF FsUnavailable, ExecDone, ConnectOk, ByeDone, FsDone, SendDone,
              GateAnswerable
<1>11. ASSUME HostKeyKnown \/ OpenShell \/ ConnectErr \/ DisconnectDone \/
              ReaderEnds \/ Cancel
     PROVE  GateAnswerable'
  BY <1>11 DEF HostKeyKnown, OpenShell, ConnectErr, DisconnectDone,
              ReaderEnds, Cancel, GateAnswerable
<1>12. ASSUME Destroy \/ CloseHandle
     PROVE  GateAnswerable'
  BY <1>12 DEF Destroy, CloseHandle, GateAnswerable
<1>13. CASE UNCHANGED vars
  BY <1>13 DEF vars, GateAnswerable
<1> QED
  BY <1>1, <1>2, <1>3, <1>4, <1>5, <1>6, <1>7, <1>8, <1>9, <1>10, <1>11,
     <1>12, <1>13
     DEF Next, Client, Joined, JoinTimedOut, DriverStep, RemoteAnswer, RemoteEvent

-----------------------------------------------------------------------------
(* Requests.  The requests between ans and acc are the one in execution, c, *)
(* and those in the channel q, in the order of their ids.                   *)

InOrder(ans, acc, c, q) ==
  /\ \A n \in (ans + 1)..acc :
       \/ IsRequest(c) /\ c.id = n
       \/ \E i \in DOMAIN q : IsRequest(q[i]) /\ q[i].id = n
  /\ IsRequest(c) => c.id \in (ans + 1)..acc
  /\ \A i \in DOMAIN q : IsRequest(q[i]) =>
       /\ q[i].id \in (ans + 1)..acc
       /\ IsRequest(c) => c.id < q[i].id
       /\ \A j \in 1..(i - 1) : IsRequest(q[j]) => q[j].id < q[i].id

\* The two ways to say that the queued requests are in the order of their ids.
LEMMA NoRequestLostInOrder ==
  NoRequestLost <=>
    (pc # "done" /\ handle # "closed" => InOrder(answered, accepted, cur, cmdq))
  BY DEF NoRequestLost, InOrder, Owed

\* An idle driver executes no request.
LEMMA NoCommandIsNoRequest == ~IsRequest(NoCommand)
  BY DEF IsRequest, NoCommand, Command, Requests

\* What is not a request may be queued, dequeued and executed.
LEMMA InOrderOther ==
  ASSUME NEW ans \in Nat, NEW acc \in Nat, NEW c, NEW d, NEW q,
         InOrder(ans, acc, c, q), ~IsRequest(c), ~IsRequest(d)
  PROVE  InOrder(ans, acc, d, q)
  BY DEF InOrder

\* A command that is no request leaves the order of the requests alone.
LEMMA InOrderQueueOther ==
  ASSUME NEW ans \in Nat, NEW acc \in Nat, NEW c,
         NEW q \in Seq(CommandType), NEW e \in CommandType,
         InOrder(ans, acc, c, q), ~IsRequest(e)
  PROVE  InOrder(ans, acc, c, Append(q, e))
<1> DEFINE r == Append(q, e)
<1>1. /\ DOMAIN q = 1..Len(q) /\ Len(q) \in Nat
      /\ DOMAIN r = 1..(Len(q) + 1)
      /\ \A i \in DOMAIN q : r[i] = q[i]
      /\ r[Len(q) + 1] = e
  BY AppendFacts
<1> HIDE DEF r
<1>2. \A n \in (ans + 1)..acc :
        \/ IsRequest(c) /\ c.id = n
        \/ \E i \in DOMAIN r : IsRequest(r[i]) /\ r[i].id = n
  BY <1>1 DEF InOrder
<1>3. ASSUME NEW i \in DOMAIN r, IsRequest(r[i])
      PROVE  /\ r[i].id \in (ans + 1)..acc
             /\ IsRequest(c) => c.id < r[i].id
             /\ \A j \in 1..(i - 1) : IsRequest(r[j]) => r[j].id < r[i].id
  <2>1. i \in DOMAIN q /\ q[i] = r[i] /\ \A j \in 1..(i - 1) : q[j] = r[j]
    BY <1>1, <1>3
  <2> QED
    BY <1>3, <2>1 DEF InOrder
<1> QED
  BY <1>2, <1>3 DEF InOrder, r

\* A request is queued with the next id.
LEMMA InOrderQueue ==
  ASSUME NEW ans \in Nat, NEW acc \in Nat, ans <= acc, NEW c \in CommandType,
         NEW q \in Seq(CommandType), NEW e \in CommandType,
         InOrder(ans, acc, c, q), IsRequest(e), e.id = acc + 1
  PROVE  InOrder(ans, acc + 1, c, Append(q, e))
<1> DEFINE r == Append(q, e)
<1>1. /\ DOMAIN q = 1..Len(q) /\ Len(q) \in Nat
      /\ DOMAIN r = 1..(Len(q) + 1)
      /\ \A i \in DOMAIN q : r[i] = q[i]
      /\ r[Len(q) + 1] = e
  BY AppendFacts
<1> HIDE DEF r
<1>2. \A n \in (ans + 1)..(acc + 1) :
        \/ IsRequest(c) /\ c.id = n
        \/ \E i \in DOMAIN r : IsRequest(r[i]) /\ r[i].id = n
  <2> TAKE n \in (ans + 1)..(acc + 1)
  <2>1. CASE n = acc + 1
    BY <1>1, <2>1
  <2>2. CASE n # acc + 1
    BY <1>1, <2>2 DEF InOrder
  <2> QED
    BY <2>1, <2>2
<1>3. IsRequest(c) => c.id \in (ans + 1)..(acc + 1)
  BY DEF InOrder
<1>4. ASSUME NEW i \in DOMAIN r, IsRequest(r[i])
      PROVE  /\ r[i].id \in (ans + 1)..(acc + 1)
             /\ IsRequest(c) => c.id < r[i].id
             /\ \A j \in 1..(i - 1) : IsRequest(r[j]) => r[j].id < r[i].id
  <2>1. CASE i = Len(q) + 1
    <3>1. r[i].id = acc + 1
      BY <1>1, <2>1
    <3>2. IsRequest(c) => c.id < acc + 1
      BY DEF InOrder
    <3>3. ASSUME NEW j \in 1..(i - 1), IsRequest(r[j]) PROVE r[j].id < acc + 1
      <4>1. j \in DOMAIN q /\ q[j] = r[j]
        BY <1>1, <2>1
      <4>2. q[j].id \in (ans + 1)..acc
        BY <3>3, <4>1 DEF InOrder
      <4> QED
        BY <4>1, <4>2
    <3> QED
      BY <3>1, <3>2, <3>3
  <2>2. CASE i # Len(q) + 1
    <3>1. i \in DOMAIN q /\ q[i] = r[i] /\ IsRequest(q[i])
      BY <1>1, <1>4, <2>2
    <3>2. \A j \in 1..(i - 1) : q[j] = r[j]
      BY <1>1, <3>1
    <3>3. q[i].id \in (ans + 1)..acc
      BY <3>1 DEF InOrder
    <3>4. IsRequest(c) => c.id < q[i].id
      BY <3>1 DEF InOrder
    <3>5. \A j \in 1..(i - 1) : IsRequest(q[j]) => q[j].id < q[i].id
      BY <3>1 DEF InOrder
    <3>6. r[i].id \in (ans + 1)..(acc + 1)
      BY <3>1, <3>3
    <3> QED
      BY <3>1, <3>2, <3>4, <3>5, <3>6
  <2> QED
    BY <2>1, <2>2
<1> QED
  BY <1>2, <1>3, <1>4 DEF InOrder, r

\* The head of the channel comes into execution.
LEMMA InOrderTake ==
  ASSUME NEW ans \in Nat, NEW acc \in Nat, NEW c,
         NEW q \in Seq(CommandType), q # <<>>,
         InOrder(ans, acc, c, q), ~IsRequest(c)
  PROVE  InOrder(ans, acc, Head(q), Tail(q))
<1> DEFINE h == Head(q)
           r == Tail(q)
<1>1. /\ h = q[1] /\ Len(q) \in Nat \ {0} /\ DOMAIN q = 1..Len(q)
      /\ DOMAIN r = 1..(Len(q) - 1)
      /\ \A i \in 1..(Len(q) - 1) : r[i] = q[i + 1]
  BY TailFacts
<1> HIDE DEF h, r
<1>2. \A n \in (ans + 1)..acc :
        \/ IsRequest(h) /\ h.id = n
        \/ \E i \in DOMAIN r : IsRequest(r[i]) /\ r[i].id = n
  <2> TAKE n \in (ans + 1)..acc
  <2>1. PICK i \in DOMAIN q : IsRequest(q[i]) /\ q[i].id = n
    BY DEF InOrder
  <2>2. CASE i = 1
    BY <1>1, <2>1, <2>2
  <2>3. CASE i # 1
    <3>1. i - 1 \in DOMAIN r /\ r[i - 1] = q[i]
      BY <1>1, <2>3
    <3> QED
      BY <2>1, <3>1
  <2> QED
    BY <2>2, <2>3
<1>3. IsRequest(h) => h.id \in (ans + 1)..acc
  BY <1>1 DEF InOrder
<1>4. ASSUME NEW i \in DOMAIN r, IsRequest(r[i])
      PROVE  /\ r[i].id \in (ans + 1)..acc
             /\ IsRequest(h) => h.id < r[i].id
             /\ \A j \in 1..(i - 1) : IsRequest(r[j]) => r[j].id < r[i].id
  <2>1. i + 1 \in DOMAIN q /\ q[i + 1] = r[i]
    BY <1>1
  <2> QED
    <3>1. q[i + 1].id \in (ans + 1)..acc
      BY <1>4, <2>1 DEF InOrder
    <3>2. \A j \in 1..i : IsRequest(q[j]) => q[j].id < q[i + 1].id
      BY <1>1, <1>4, <2>1 DEF InOrder
    <3>3. IsRequest(h) => h.id < q[i + 1].id
      BY <1>1, <3>2
    <3>4. \A j \in 1..(i - 1) : r[j] = q[j + 1] /\ j + 1 \in 1..i
      BY <1>1
    <3> QED
      BY <2>1, <3>1, <3>2, <3>3, <3>4
<1> QED
  BY <1>2, <1>3, <1>4 DEF InOrder, h, r

\* Something that is no request is taken off the channel and done with.
LEMMA InOrderSkip ==
  ASSUME NEW ans \in Nat, NEW acc \in Nat, NEW c, NEW d,
         NEW q \in Seq(CommandType), q # <<>>,
         InOrder(ans, acc, c, q), ~IsRequest(c), ~IsRequest(Head(q)), ~IsRequest(d)
  PROVE  InOrder(ans, acc, d, Tail(q))
<1>1. InOrder(ans, acc, Head(q), Tail(q))
  BY InOrderTake
<1> QED
  BY <1>1, InOrderOther

\* The request in execution is the oldest one without a result.
LEMMA InOrderAnswer ==
  ASSUME NEW ans \in Nat, NEW acc \in Nat, NEW c \in CommandType,
         NEW q \in Seq(CommandType),
         InOrder(ans, acc, c, q), IsRequest(c)
  PROVE  /\ c.id = ans + 1
         /\ c.id <= acc
         /\ InOrder(c.id, acc, NoCommand, q)
<1>1. c.id \in (ans + 1)..acc
  BY DEF InOrder
<1>2. c.id = ans + 1
  <2>1. ans + 1 \in (ans + 1)..acc
    BY <1>1
  <2>2. CASE \E i \in DOMAIN q : IsRequest(q[i]) /\ q[i].id = ans + 1
    BY <1>1, <2>2 DEF InOrder
  <2> QED
    BY <2>1, <2>2 DEF InOrder
<1>3. InOrder(c.id, acc, NoCommand, q)
  <2>1. \A n \in (c.id + 1)..acc :
          \E i \in DOMAIN q : IsRequest(q[i]) /\ q[i].id = n
    <3> TAKE n \in (c.id + 1)..acc
    <3>1. n \in (ans + 1)..acc /\ n # c.id
      BY <1>1, <1>2
    <3> QED
      BY <3>1 DEF InOrder
  <2>2. \A i \in DOMAIN q : IsRequest(q[i]) =>
          /\ q[i].id \in (c.id + 1)..acc
          /\ \A j \in 1..(i - 1) : IsRequest(q[j]) => q[j].id < q[i].id
    <3> SUFFICES ASSUME NEW i \in DOMAIN q, IsRequest(q[i])
                 PROVE  /\ q[i].id \in (c.id + 1)..acc
                        /\ \A j \in 1..(i - 1) : IsRequest(q[j]) => q[j].id < q[i].id
      OBVIOUS
    <3>1. q[i].id \in (ans + 1)..acc /\ c.id < q[i].id
      BY DEF InOrder
    <3>2. \A j \in 1..(i - 1) : IsRequest(q[j]) => q[j].id < q[i].id
      BY DEF InOrder
    <3> QED
      BY <1>1, <3>1, <3>2
  <2> QED
    BY <2>1, <2>2, NoCommandIsNoRequest DEF InOrder
<1> QED
  BY <1>1, <1>2, <1>3

\* No step loses a request, answers one out of turn or answers one twice.
LEMMA PipelineStep ==
  Basic /\ Numbering /\ NoRequestLost /\ [Next]_vars => (Numbering /\ NoRequestLost)'
<1> SUFFICES ASSUME TypeOK, Control, Numbering, NoRequestLost, [Next]_vars
             PROVE  (Numbering /\ NoRequestLost)'
  BY DEF Basic
<1> USE DEF clientVars, providerVars, outputVars, SetState, Show, Answer, Resume
<1> DEFINE Counted == pc # "done" /\ handle # "closed"
           Ordered == InOrder(answered, accepted, cur, cmdq)
<1>a. /\ Counted => Ordered
      /\ (Counted' => Ordered') => NoRequestLost'
  BY DEF NoRequestLost, InOrder, Owed
<1>b. /\ answered \in Nat /\ accepted \in Nat /\ nextId \in Nat
      /\ cmdq \in Seq(CommandType) /\ cur \in CommandType
  BY DEF TypeOK
<1>c. ASSUME UNCHANGED <<nextId, accepted, answered>>,
             pc' # "done" => pc # "done"
      PROVE  Numbering'
  BY <1>c DEF Numbering
<1>d. ASSUME UNCHANGED <<nextId, accepted, answered, cmdq>>,
             cur' = cur \/ (~IsRequest(cur) /\ ~IsRequest(cur')),
             Counted' => Counted
      PROVE  Counted' => Ordered'
  BY <1>a, <1>b, <1>d, InOrderOther
<1>e. ASSUME UNCHANGED <<nextId, accepted, cmdq, handle>>, pc # "done",
             IsRequest(cur), cur' = NoCommand,
             answered' = IF handle = "closed" THEN answered ELSE cur.id
      PROVE  Numbering' /\ (Counted' => Ordered')
  BY <1>a, <1>b, <1>e, InOrderAnswer DEF Numbering
<1>f. ASSUME NEW e \in CommandType, ~IsRequest(e), pc # "done" => cmdq' = Append(cmdq, e),
             UNCHANGED <<nextId, accepted, answered, cur, pc>>, Counted' => Counted
      PROVE  Counted' => Ordered'
  BY <1>a, <1>b, <1>f, InOrderQueueOther
<1>g. ASSUME UNCHANGED <<nextId, accepted, answered, handle>>, pc = "select", cmdq # <<>>,
             cmdq' = Tail(cmdq),
             cur' = Head(cmdq) \/ (~IsRequest(Head(cmdq)) /\ ~IsRequest(cur'))
      PROVE  Numbering' /\ (Counted' => Ordered')
  <2>1. ~IsRequest(cur)
    BY <1>g, NoCommandIsNoRequest DEF Control
  <2>2. Counted' => Ordered'
    BY <1>a, <1>b, <1>g, <2>1, InOrderTake, InOrderSkip
  <2> QED
    BY <1>g, <2>2 DEF Numbering
<1> HIDE DEF Ordered
<1>h. ASSUME UNCHANGED <<nextId, accepted, answered, cmdq, cur>>,
             pc' # "done" => pc # "done", handle' # "closed" => handle # "closed"
      PROVE  Numbering' /\ (Counted' => Ordered')
  <2>1. Numbering'
    BY <1>c, <1>h
  <2>2. Counted' => Ordered'
    BY <1>d, <1>h
  <2> QED
    BY <2>1, <2>2
<1> DEFINE Goal == Numbering' /\ NoRequestLost'
<1>1. ASSUME NEW k \in Ops, Submit(k) PROVE Goal
  <2> DEFINE e == Command(k, 0, IF k = "Connect" THEN sent ELSE {})
  <2>1. e \in CommandType /\ ~IsRequest(e)
    BY <1>1, OpsAssumption, CommandTypes DEF Submit, TypeOK, IsRequest, Command
  <2>2. pc # "done" => cmdq' = Append(cmdq, e)
    BY <1>1 DEF Submit, Queued
  <2> HIDE DEF e
  <2>3. Counted' => Ordered'
    BY <1>f, <1>1, <2>1, <2>2 DEF Submit
  <2> QED
    BY <1>a, <1>c, <1>1, <2>3 DEF Submit
<1>2. ASSUME NEW k \in Ops, Request(k) PROVE Goal
  <2> DEFINE e == Command(k, nextId + 1, {})
  <2>1. e \in CommandType /\ IsRequest(e) /\ e.id = nextId + 1
    <3>1. k \in Requests /\ k \in Commands /\ nextId + 1 \in Nat
      BY <1>b, <1>2, OpsAssumption DEF Request
    <3> QED
      BY <3>1, CommandTypes DEF IsRequest, Command
  <2> HIDE DEF e
  <2>2. CASE pc = "done"
    BY <1>a, <1>b, <1>2, <2>2 DEF Request, Numbering
  <2>3. CASE pc # "done"
    <3>1. /\ accepted' = accepted + 1 /\ nextId' = accepted'
          /\ cmdq' = Append(cmdq, e)
          /\ e.id = accepted + 1
          /\ UNCHANGED <<handle, pc, cur, answered>>
      BY <1>2, <2>1, <2>3 DEF Request, Queued, Numbering, e
    <3>2. Counted' => Ordered'
      BY <1>a, <1>b, <2>1, <3>1, InOrderQueue DEF Numbering, Ordered
    <3>3. Numbering'
      BY <1>b, <3>1 DEF Numbering
    <3> QED
      BY <1>a, <3>2, <3>3
  <2> QED
    BY <2>2, <2>3
<1>3. ASSUME Destroy PROVE Goal
  <2>1. Shutdown \in CommandType /\ ~IsRequest(Shutdown)
    BY CommandTypes DEF IsRequest, Requests, Shutdown, Command
  <2>2. Counted' => Ordered'
    BY <1>f, <1>3, <2>1 DEF Destroy, Queued
  <2> QED
    BY <1>a, <1>c, <1>3, <2>2 DEF Destroy
<1>4. ASSUME NEW accept \in BOOLEAN, ConfirmHostKey(accept) PROVE Goal
  <2>1. /\ UNCHANGED <<nextId, accepted, answered, cmdq, cur>>
        /\ pc' # "done" => pc # "done"
        /\ handle' # "closed" => handle # "closed"
    BY <1>4 DEF ConfirmHostKey
  <2> QED
    BY <1>a, <1>h, <2>1
<1>5. ASSUME CreateProvider \/ Drain \/ Arm \/ ConnectCancelled PROVE Goal
  <2>1. /\ UNCHANGED <<nextId, accepted, answered, cmdq, cur>>
        /\ pc' # "done" => pc # "done"
        /\ handle' # "closed" => handle # "closed"
    BY <1>5 DEF CreateProvider, Drain, Arm, ConnectCancelled
  <2> QED
    BY <1>a, <1>h, <2>1
<1>6. ASSUME HostKeyKnown \/ HostKeyPrompt \/ OpenShell PROVE Goal
  <2>1. /\ UNCHANGED <<nextId, accepted, answered, cmdq, cur>>
        /\ pc' # "done" => pc # "done"
        /\ handle' # "closed" => handle # "closed"
    BY <1>6 DEF HostKeyKnown, HostKeyPrompt, OpenShell
  <2> QED
    BY <1>a, <1>h, <2>1
<1>7. ASSUME OrphanPrompt \/ ReaderEnds \/ Cancel \/ CloseHandle PROVE Goal
  <2>1. /\ UNCHANGED <<nextId, accepted, answered, cmdq, cur>>
        /\ pc' # "done" => pc # "done"
        /\ handle' # "closed" => handle # "closed"
    BY <1>7 DEF OrphanPrompt, ReaderEnds, Cancel, CloseHandle
  <2> QED
    BY <1>a, <1>h, <2>1
<1>8. ASSUME CreateProviderFails \/ ByeDone PROVE Goal
  <2>1. UNCHANGED <<nextId, accepted, answered>> /\ pc' = "done"
    BY <1>8 DEF CreateProviderFails, ByeDone
  <2> QED
    BY <1>a, <1>c, <2>1
<1>9. ASSUME SendDone \/ ConnectOk \/ ConnectErr \/ DisconnectDone PROVE Goal
  <2>1. /\ UNCHANGED <<nextId, accepted, answered, cmdq, handle>>
        /\ pc # "done"
        /\ cur' = NoCommand
    BY <1>9 DEF SendDone, ConnectOk, ConnectErr, DisconnectDone, Control
  <2>2. ~IsRequest(cur)
    BY <1>9 DEF SendDone, ConnectOk, ConnectErr, DisconnectDone, Control,
             IsRequest, Requests
  <2> QED
    BY <1>a, <1>c, <1>d, <2>1, <2>2, NoCommandIsNoRequest
<1>10. ASSUME FsUnavailable \/ ExecDone \/ FsDone PROVE Goal
  <2>1. /\ UNCHANGED <<nextId, accepted, cmdq, handle>>
        /\ pc # "done" /\ IsRequest(cur) /\ cur' = NoCommand
        /\ answered' = IF handle = "closed" THEN answered ELSE cur.id
    BY <1>10 DEF FsUnavailable, ExecDone, FsDone, IsRequest, Requests
  <2> QED
    BY <1>a, <1>e, <2>1
<1>11. ASSUME OpCancelled PROVE Goal
  <2>1. CASE IsRequest(cur)
    BY <1>a, <1>e, <1>11, <2>1 DEF OpCancelled, IsRequest
  <2>2. CASE ~IsRequest(cur)
    BY <1>a, <1>c, <1>d, <1>11, <2>2, NoCommandIsNoRequest DEF OpCancelled, IsRequest
  <2> QED
    BY <2>1, <2>2
<1>12. ASSUME TakeCredential PROVE Goal
  <2>1. /\ UNCHANGED <<nextId, accepted, answered, handle>>
        /\ pc = "select" /\ cmdq # <<>> /\ cmdq' = Tail(cmdq)
    BY <1>12 DEF TakeCredential, Take
  <2>2. cur' = Head(cmdq) \/ (~IsRequest(Head(cmdq)) /\ cur' = cur)
    BY <1>12 DEF TakeCredential, Take, IsRequest, Requests, Credentials
  <2>3. ~IsRequest(cur)
    BY <2>1, NoCommandIsNoRequest DEF Control
  <2> QED
    BY <1>a, <1>g, <2>1, <2>2, <2>3
<1>13. ASSUME TakeConnectRefused PROVE Goal
  <2>1. /\ UNCHANGED <<nextId, accepted, answered, handle>>
        /\ pc = "select" /\ cmdq # <<>> /\ cmdq' = Tail(cmdq)
    BY <1>13 DEF TakeConnectRefused, Take
  <2>2. cur' = Head(cmdq) \/ (~IsRequest(Head(cmdq)) /\ cur' = cur)
    BY <1>13 DEF TakeConnectRefused, Take, IsRequest, Requests
  <2>3. ~IsRequest(cur)
    BY <2>1, NoCommandIsNoRequest DEF Control
  <2> QED
    BY <1>a, <1>g, <2>1, <2>2, <2>3
<1>14. ASSUME TakeConnect PROVE Goal
  <2>1. /\ UNCHANGED <<nextId, accepted, answered, handle>>
        /\ pc = "select" /\ cmdq # <<>> /\ cmdq' = Tail(cmdq)
    BY <1>14 DEF TakeConnect, Take
  <2>2. cur' = Head(cmdq) \/ (~IsRequest(Head(cmdq)) /\ cur' = cur)
    BY <1>14 DEF TakeConnect, Take, IsRequest, Requests
  <2>3. ~IsRequest(cur)
    BY <2>1, NoCommandIsNoRequest DEF Control
  <2> QED
    BY <1>a, <1>g, <2>1, <2>2, <2>3
<1>15. ASSUME TakeSend PROVE Goal
  <2>1. /\ UNCHANGED <<nextId, accepted, answered, handle>>
        /\ pc = "select" /\ cmdq # <<>> /\ cmdq' = Tail(cmdq)
    BY <1>15 DEF TakeSend, Take
  <2>2. cur' = Head(cmdq) \/ (~IsRequest(Head(cmdq)) /\ cur' = cur)
    BY <1>15 DEF TakeSend, Take, IsRequest, Requests
  <2>3. ~IsRequest(cur)
    BY <2>1, NoCommandIsNoRequest DEF Control
  <2> QED
    BY <1>a, <1>g, <2>1, <2>2, <2>3
<1>16. ASSUME TakeDisconnect PROVE Goal
  <2>1. /\ UNCHANGED <<nextId, accepted, answered, handle>>
        /\ pc = "select" /\ cmdq # <<>> /\ cmdq' = Tail(cmdq)
    BY <1>16 DEF TakeDisconnect, Take
  <2>2. cur' = Head(cmdq) \/ (~IsRequest(Head(cmdq)) /\ cur' = cur)
    BY <1>16 DEF TakeDisconnect, Take, IsRequest, Requests
  <2>3. ~IsRequest(cur)
    BY <2>1, NoCommandIsNoRequest DEF Control
  <2> QED
    BY <1>a, <1>g, <2>1, <2>2, <2>3
<1>17. ASSUME TakeFs PROVE Goal
  <2>1. /\ UNCHANGED <<nextId, accepted, answered, handle>>
        /\ pc = "select" /\ cmdq # <<>> /\ cmdq' = Tail(cmdq)
    BY <1>17 DEF TakeFs, Take
  <2>2. cur' = Head(cmdq) \/ (~IsRequest(Head(cmdq)) /\ cur' = cur)
    BY <1>17 DEF TakeFs, Take, IsRequest, Requests
  <2>3. ~IsRequest(cur)
    BY <2>1, NoCommandIsNoRequest DEF Control
  <2> QED
    BY <1>a, <1>g, <2>1, <2>2, <2>3
<1>18. ASSUME TakeShutdown PROVE Goal
  <2>1. /\ UNCHANGED <<nextId, accepted, answered, handle>>
        /\ pc = "select" /\ cmdq # <<>> /\ cmdq' = Tail(cmdq)
    BY <1>18 DEF TakeShutdown, Take
  <2>2. cur' = Head(cmdq) \/ (~IsRequest(Head(cmdq)) /\ cur' = cur)
    BY <1>18 DEF TakeShutdown, Take, IsRequest, Requests
  <2>3. ~IsRequest(cur)
    BY <2>1, NoCommandIsNoRequest DEF Control
  <2> QED
    BY <1>a, <1>g, <2>1, <2>2, <2>3
<1>19. ASSUME TakeExec PROVE Goal
  <2>1. CASE state = "Connected"
    BY <1>a, <1>g, <1>19, <2>1 DEF TakeExec, Take
  <2>2. CASE state # "Connected"
    <3> DEFINE h == Head(cmdq)
    <3>1. /\ cmdq # <<>> /\ cmdq' = Tail(cmdq) /\ pc = "select" /\ h.kind = "Exec"
          /\ answered' = IF handle = "closed" THEN answered ELSE h.id
          /\ UNCHANGED <<nextId, accepted, cur, pc, handle>>
      BY <1>19, <2>2 DEF TakeExec, Take
    <3>2. cur = NoCommand /\ ~IsRequest(cur) /\ IsRequest(h)
      BY <3>1, NoCommandIsNoRequest DEF Control, IsRequest, Requests
    <3>3. h \in CommandType /\ Tail(cmdq) \in Seq(CommandType)
      BY <1>b, <3>1, TailFacts
    <3> HIDE DEF h
    <3>4. Counted => InOrder(answered, accepted, h, Tail(cmdq))
      BY <1>a, <1>b, <3>1, <3>2, InOrderTake DEF Ordered, h
    <3>5. Counted => /\ h.id <= accepted
                     /\ InOrder(h.id, accepted, NoCommand, Tail(cmdq))
      BY <1>b, <3>2, <3>3, <3>4, InOrderAnswer
    <3>6. Counted' => Ordered'
      BY <3>1, <3>2, <3>5 DEF Ordered
    <3>7. Numbering'
      BY <3>1, <3>5 DEF Numbering
    <3> QED
      BY <1>a, <3>6, <3>7
  <2> QED
    BY <2>1, <2>2
<1>20. CASE UNCHANGED vars
  <2>1. /\ UNCHANGED <<nextId, accepted, answered, cmdq, cur>>
        /\ pc' # "done" => pc # "done"
        /\ handle' # "closed" => handle # "closed"
    BY <1>20 DEF vars
  <2> QED
    BY <1>a, <1>h, <2>1
<1> QED
  BY <1>1, <1>2, <1>3, <1>4, <1>5, <1>6, <1>7, <1>8, <1>9, <1>10, <1>11,
     <1>12, <1>13, <1>14, <1>15, <1>16, <1>17, <1>18, <1>19, <1>20
     DEF Next, Client, Joined, JoinTimedOut, DriverStep, RemoteAnswer, RemoteEvent

-----------------------------------------------------------------------------
(* Credentials. *)

\* A command is queued behind the credentials sent before it.
LEMMA CredentialsAppend ==
  ASSUME TypeOK, CredentialsQueued, pc # "done", UNCHANGED <<pc, creds>>,
         NEW e \in CommandType, cmdq' = Append(cmdq, e),
         sent' \subseteq sent \cup {e.kind}, e.kind = "Connect" => e.need = sent
  PROVE  CredentialsQueued'
<1> DEFINE r == Append(cmdq, e)
<1>1. /\ cmdq \in Seq(CommandType) /\ DOMAIN cmdq = 1..Len(cmdq) /\ Len(cmdq) \in Nat
      /\ DOMAIN r = 1..(Len(cmdq) + 1)
      /\ \A i \in DOMAIN cmdq : r[i] = cmdq[i]
      /\ r[Len(cmdq) + 1] = e
  BY AppendFacts DEF TypeOK
<1> HIDE DEF r
<1>2. sent \subseteq creds \cup {cmdq[i].kind : i \in 1..Len(cmdq)}
  BY <1>1 DEF CredentialsQueued
<1>3. sent' \subseteq creds \cup {r[i].kind : i \in DOMAIN r}
  BY <1>1, <1>2
<1>4. ASSUME NEW i \in DOMAIN r, r[i].kind = "Connect"
      PROVE  r[i].need \subseteq creds \cup {r[j].kind : j \in 1..(i - 1)}
  <2>1. \A j \in 1..(i - 1) : r[j] = cmdq[j]
    BY <1>1
  <2>2. CASE i = Len(cmdq) + 1
    BY <1>1, <1>2, <1>4, <2>1, <2>2
  <2>3. CASE i \in DOMAIN cmdq
    <3>1. cmdq[i].need \subseteq creds \cup {cmdq[j].kind : j \in 1..(i - 1)}
      BY <1>1, <1>4, <2>3 DEF CredentialsQueued
    <3> QED
      BY <1>1, <2>1, <2>3, <3>1
  <2> QED
    BY <1>1, <2>2, <2>3
<1> QED
  BY <1>3, <1>4 DEF CredentialsQueued, r

\* A credential leaves the channel only into the provider.
LEMMA CredentialsTail ==
  ASSUME TypeOK, CredentialsQueued, pc # "done", cmdq # <<>>, cmdq' = Tail(cmdq),
         sent' = sent, creds \subseteq creds',
         Head(cmdq).kind \in Credentials => Head(cmdq).kind \in creds'
  PROVE  /\ CredentialsQueued'
         /\ Head(cmdq).kind = "Connect" => Head(cmdq).need \subseteq creds
<1> DEFINE h == Head(cmdq)
<1>1. /\ h = cmdq[1] /\ h \in CommandType
      /\ Len(cmdq) \in Nat \ {0} /\ DOMAIN cmdq = 1..Len(cmdq)
      /\ cmdq' \in Seq(CommandType)
      /\ DOMAIN cmdq' = 1..(Len(cmdq) - 1)
      /\ \A i \in 1..(Len(cmdq) - 1) : cmdq'[i] = cmdq[i + 1]
  <2>1. cmdq \in Seq(CommandType)
    BY DEF TypeOK
  <2> QED
    BY <2>1, TailFacts
<1>a. \A i \in DOMAIN cmdq' : cmdq'[i].need \subseteq Credentials
  <2> SUFFICES ASSUME NEW i \in DOMAIN cmdq' PROVE cmdq'[i].need \subseteq Credentials
    OBVIOUS
  <2>1. cmdq'[i] \in CommandType
    BY <1>1
  <2> QED
    BY <2>1 DEF CommandType
<1> HIDE DEF h
<1>2. sent \subseteq creds' \cup {cmdq'[i].kind : i \in DOMAIN cmdq'}
  <2> SUFFICES ASSUME NEW k \in sent, k \notin creds'
               PROVE  \E i \in DOMAIN cmdq' : k = cmdq'[i].kind
    OBVIOUS
  <2>1. k \in Credentials /\ k # h.kind
    BY DEF TypeOK, h
  <2>2. PICK i \in DOMAIN cmdq : k = cmdq[i].kind
    BY DEF CredentialsQueued
  <2>3. i - 1 \in DOMAIN cmdq' /\ cmdq'[i - 1] = cmdq[i]
    BY <1>1, <2>1, <2>2
  <2> QED
    BY <2>2, <2>3
<1>3. ASSUME NEW i \in DOMAIN cmdq', cmdq'[i].kind = "Connect"
      PROVE  cmdq'[i].need \subseteq creds' \cup {cmdq'[j].kind : j \in 1..(i - 1)}
  <2> SUFFICES ASSUME NEW k \in cmdq'[i].need, k \notin creds'
               PROVE  \E j \in 1..(i - 1) : k = cmdq'[j].kind
    OBVIOUS
  <2>1. k \in Credentials /\ k # h.kind
    BY <1>a DEF h
  <2>2. i + 1 \in DOMAIN cmdq /\ cmdq'[i] = cmdq[i + 1] /\ (i + 1) - 1 = i
    BY <1>1
  <2>3. PICK j \in 1..i : k = cmdq[j].kind
    BY <1>3, <2>2 DEF CredentialsQueued
  <2>4. j - 1 \in 1..(i - 1) /\ cmdq'[j - 1] = cmdq[j]
    BY <1>1, <2>1, <2>3
  <2> QED
    BY <2>3, <2>4
<1>4. h.kind = "Connect" => h.need \subseteq creds
  BY <1>1 DEF CredentialsQueued
<1>5. CredentialsQueued'
  BY <1>2, <1>3 DEF CredentialsQueued
<1> QED
  BY <1>4, <1>5 DEF h

\* A connect comes into execution with its credentials applied.
LEMMA CredentialsStep ==
  Basic /\ CredentialsQueued /\ CredentialsApplied /\ [Next]_vars
    => (CredentialsQueued /\ CredentialsApplied)'
<1> SUFFICES ASSUME TypeOK, Control, CredentialsQueued, CredentialsApplied, [Next]_vars
             PROVE  (CredentialsQueued /\ CredentialsApplied)'
  BY DEF Basic
<1> USE DEF clientVars, providerVars, outputVars, SetState, Show, Answer, Resume
<1> DEFINE Goal == CredentialsQueued' /\ CredentialsApplied'
<1>a. ASSUME UNCHANGED <<sent, creds>>, cmdq' = cmdq \/ (cmdq' = <<>> /\ pc' = "done"),
             pc' # "done" => pc # "done", cur' = cur \/ cur' = NoCommand
      PROVE  Goal
  BY <1>a DEF CredentialsQueued, CredentialsApplied, NoCommand, Command
<1>b. ASSUME pc = "select", cmdq # <<>>, cmdq' = Tail(cmdq),
             UNCHANGED sent, creds \subseteq creds',
             Head(cmdq).kind \in Credentials => Head(cmdq).kind \in creds',
             cur' = cur \/ cur' = Head(cmdq)
      PROVE  Goal
  <2>1. CredentialsQueued' /\ (Head(cmdq).kind = "Connect" => Head(cmdq).need \subseteq creds)
    BY <1>b, CredentialsTail
  <2> QED
    BY <1>b, <2>1 DEF CredentialsApplied
<1>1. ASSUME NEW k \in Ops, Submit(k) PROVE Goal
  <2> DEFINE e == Command(k, 0, IF k = "Connect" THEN sent ELSE {})
  <2>1. e \in CommandType /\ e.kind = k /\ (k = "Connect" => e.need = sent)
    BY OpsAssumption, CommandTypes DEF TypeOK, Command
  <2>2. cmdq' = Append(cmdq, e) /\ pc # "done" /\ UNCHANGED <<pc, creds, cur>>
    BY <1>1 DEF Submit, Queued
  <2>3. sent' \subseteq sent \cup {k}
    BY <1>1 DEF Submit
  <2> HIDE DEF e
  <2> QED
    BY <2>1, <2>2, <2>3, CredentialsAppend DEF CredentialsApplied
<1>2. ASSUME NEW k \in Ops, Request(k) PROVE Goal
  <2> DEFINE e == Command(k, nextId + 1, {})
  <2>1. e \in CommandType /\ e.kind # "Connect"
    <3>1. k \in Commands /\ nextId + 1 \in Nat /\ k # "Connect"
      BY <1>2, OpsAssumption DEF TypeOK, Request, Requests
    <3> QED
      BY <3>1, CommandTypes DEF Command
  <2>2. /\ UNCHANGED <<pc, creds, cur, sent>>
        /\ IF pc = "done" THEN cmdq' = cmdq ELSE cmdq' = Append(cmdq, e)
    BY <1>2 DEF Request, Queued
  <2> HIDE DEF e
  <2> QED
    BY <1>a, <2>1, <2>2, CredentialsAppend DEF CredentialsApplied
<1>3. ASSUME Destroy PROVE Goal
  <2>1. Shutdown \in CommandType /\ Shutdown.kind # "Connect"
    BY CommandTypes DEF Shutdown, Command
  <2>2. /\ UNCHANGED <<pc, creds, cur, sent>>
        /\ IF pc = "done" THEN cmdq' = cmdq ELSE cmdq' = Append(cmdq, Shutdown)
    BY <1>3 DEF Destroy, Queued
  <2> QED
    BY <1>a, <2>1, <2>2, CredentialsAppend DEF CredentialsApplied
<1>4. ASSUME NEW accept \in BOOLEAN, ConfirmHostKey(accept) PROVE Goal
  BY <1>a, <1>4 DEF ConfirmHostKey
<1>5. ASSUME CreateProvider \/ CreateProviderFails \/ Drain \/ Arm PROVE Goal
  <2>1. /\ UNCHANGED <<sent, creds>>
        /\ cmdq' = cmdq \/ (cmdq' = <<>> /\ pc' = "done")
        /\ pc' # "done" => pc # "done"
        /\ cur' = cur \/ cur' = NoCommand
    BY <1>5 DEF CreateProvider, CreateProviderFails, Drain, Arm, Control
  <2> QED
    BY <1>a, <2>1
<1>6. ASSUME OpCancelled \/ ConnectCancelled \/ FsUnavailable \/ ExecDone PROVE Goal
  <2>1. /\ UNCHANGED <<sent, creds>>
        /\ cmdq' = cmdq \/ (cmdq' = <<>> /\ pc' = "done")
        /\ pc' # "done" => pc # "done"
        /\ cur' = cur \/ cur' = NoCommand
    BY <1>6 DEF OpCancelled, ConnectCancelled, FsUnavailable, ExecDone, Control
  <2> QED
    BY <1>a, <2>1
<1>7. ASSUME ConnectOk \/ ByeDone \/ FsDone \/ SendDone PROVE Goal
  <2>1. /\ UNCHANGED <<sent, creds>>
        /\ cmdq' = cmdq \/ (cmdq' = <<>> /\ pc' = "done")
        /\ pc' # "done" => pc # "done"
        /\ cur' = cur \/ cur' = NoCommand
    BY <1>7 DEF ConnectOk, ByeDone, FsDone, SendDone, Control
  <2> QED
    BY <1>a, <2>1
<1>8. ASSUME HostKeyKnown \/ HostKeyPrompt \/ OpenShell PROVE Goal
  <2>1. /\ UNCHANGED <<sent, creds>>
        /\ cmdq' = cmdq \/ (cmdq' = <<>> /\ pc' = "done")
        /\ pc' # "done" => pc # "done"
        /\ cur' = cur \/ cur' = NoCommand
    BY <1>8 DEF HostKeyKnown, HostKeyPrompt, OpenShell, Control
  <2> QED
    BY <1>a, <2>1
<1>9. ASSUME ConnectErr \/ DisconnectDone PROVE Goal
  <2>1. /\ UNCHANGED <<sent, creds>>
        /\ cmdq' = cmdq \/ (cmdq' = <<>> /\ pc' = "done")
        /\ pc' # "done" => pc # "done"
        /\ cur' = cur \/ cur' = NoCommand
    BY <1>9 DEF ConnectErr, DisconnectDone, Control
  <2> QED
    BY <1>a, <2>1
<1>10. ASSUME OrphanPrompt \/ ReaderEnds \/ Cancel \/ CloseHandle PROVE Goal
  <2>1. /\ UNCHANGED <<sent, creds>>
        /\ cmdq' = cmdq \/ (cmdq' = <<>> /\ pc' = "done")
        /\ pc' # "done" => pc # "done"
        /\ cur' = cur \/ cur' = NoCommand
    BY <1>10 DEF OrphanPrompt, ReaderEnds, Cancel, CloseHandle
  <2> QED
    BY <1>a, <2>1
<1>11. ASSUME TakeCredential PROVE Goal
  <2>1. /\ pc = "select" /\ cmdq # <<>> /\ cmdq' = Tail(cmdq)
        /\ UNCHANGED sent
        /\ creds \subseteq creds'
        /\ Head(cmdq).kind \in Credentials => Head(cmdq).kind \in creds'
        /\ cur' = cur \/ cur' = Head(cmdq)
    BY <1>11 DEF TakeCredential, Take, Credentials
  <2> QED
    BY <1>b, <2>1
<1>12. ASSUME TakeConnectRefused PROVE Goal
  <2>1. /\ pc = "select" /\ cmdq # <<>> /\ cmdq' = Tail(cmdq)
        /\ UNCHANGED sent
        /\ creds \subseteq creds'
        /\ Head(cmdq).kind \in Credentials => Head(cmdq).kind \in creds'
        /\ cur' = cur \/ cur' = Head(cmdq)
    BY <1>12 DEF TakeConnectRefused, Take, Credentials
  <2> QED
    BY <1>b, <2>1
<1>13. ASSUME TakeConnect PROVE Goal
  <2>1. /\ pc = "select" /\ cmdq # <<>> /\ cmdq' = Tail(cmdq)
        /\ UNCHANGED sent
        /\ creds \subseteq creds'
        /\ Head(cmdq).kind \in Credentials => Head(cmdq).kind \in creds'
        /\ cur' = cur \/ cur' = Head(cmdq)
    BY <1>13 DEF TakeConnect, Take, Credentials
  <2> QED
    BY <1>b, <2>1
<1>14. ASSUME TakeSend PROVE Goal
  <2>1. /\ pc = "select" /\ cmdq # <<>> /\ cmdq' = Tail(cmdq)
        /\ UNCHANGED sent
        /\ creds \subseteq creds'
        /\ Head(cmdq).kind \in Credentials => Head(cmdq).kind \in creds'
        /\ cur' = cur \/ cur' = Head(cmdq)
    BY <1>14 DEF TakeSend, Take, Credentials
  <2> QED
    BY <1>b, <2>1
<1>15. ASSUME TakeDisconnect PROVE Goal
  <2>1. /\ pc = "select" /\ cmdq # <<>> /\ cmdq' = Tail(cmdq)
        /\ UNCHANGED sent
        /\ creds \subseteq creds'
        /\ Head(cmdq).kind \in Credentials => Head(cmdq).kind \in creds'
        /\ cur' = cur \/ cur' = Head(cmdq)
    BY <1>15 DEF TakeDisconnect, Take, Credentials
  <2> QED
    BY <1>b, <2>1
<1>16. ASSUME TakeFs PROVE Goal
  <2>1. /\ pc = "select" /\ cmdq # <<>> /\ cmdq' = Tail(cmdq)
        /\ UNCHANGED sent
        /\ creds \subseteq creds'
        /\ Head(cmdq).kind \in Credentials => Head(cmdq).kind \in creds'
        /\ cur' = cur \/ cur' = Head(cmdq)
    BY <1>16 DEF TakeFs, Take, Credentials
  <2> QED
    BY <1>b, <2>1
<1>17. ASSUME TakeExec PROVE Goal
  <2>1. /\ pc = "select" /\ cmdq # <<>> /\ cmdq' = Tail(cmdq)
        /\ UNCHANGED sent
        /\ creds \subseteq creds'
        /\ Head(cmdq).kind \in Credentials => Head(cmdq).kind \in creds'
        /\ cur' = cur \/ cur' = Head(cmdq)
    BY <1>17 DEF TakeExec, Take, Credentials
  <2> QED
    BY <1>b, <2>1
<1>18. ASSUME TakeShutdown PROVE Goal
  <2>1. /\ pc = "select" /\ cmdq # <<>> /\ cmdq' = Tail(cmdq)
        /\ UNCHANGED sent
        /\ creds \subseteq creds'
        /\ Head(cmdq).kind \in Credentials => Head(cmdq).kind \in creds'
        /\ cur' = cur \/ cur' = Head(cmdq)
    BY <1>18 DEF TakeShutdown, Take, Credentials
  <2> QED
    BY <1>b, <2>1
<1>19. CASE UNCHANGED vars
  BY <1>a, <1>19 DEF vars
<1> QED
  BY <1>1, <1>2, <1>3, <1>4, <1>5, <1>6, <1>7, <1>8, <1>9, <1>10, <1>11,
     <1>12, <1>13, <1>14, <1>15, <1>16, <1>17, <1>18, <1>19
     DEF Next, Client, Joined, JoinTimedOut, DriverStep, RemoteAnswer, RemoteEvent

-----------------------------------------------------------------------------
(* The theorems. *)

\* Every step keeps the invariant.
LEMMA StepIInv == IInv /\ [Next]_vars => IInv'
  BY TypeStep, ControlStep, PipelineStep, TransportStep, GateStep, CredentialsStep
     DEF IInv, Basic

\* The invariant holds throughout.
LEMMA Inductive == Spec => []IInv
  BY InitIInv, StepIInv, PTL DEF Spec

\* Every variable keeps its type, and no reader, prompt, connection or file
\* provider belongs to an attempt that was not made.
THEOREM TypeCorrect == Spec => []TypeOK
<1>1. IInv => TypeOK
  BY DEF IInv
<1> QED
  BY <1>1, Inductive, PTL

\* drive() answers every queued request, once and in order, whatever it was
\* doing when the request or its cancellation arrived.
THEOREM RequestsKept == Spec => []NoRequestLost
<1>1. IInv => NoRequestLost
  BY DEF IInv
<1> QED
  BY <1>1, Inductive, PTL

\* A connected session has a connection, and its file provider is of that
\* connection, after any history of failed, cancelled and dropped attempts.
THEOREM ConnectedIsBacked == Spec => []ConnectedHasTransport
<1>1. IInv => ConnectedHasTransport
  BY DEF IInv
<1> QED
  BY <1>1, Inductive, PTL

\* The decision of the user reaches the attempt that waits for one.
THEOREM PromptIsAnswerable == Spec => []GateAnswerable
<1>1. IInv => GateAnswerable
  BY DEF IInv
<1> QED
  BY <1>1, Inductive, PTL

\* A connect in execution has every credential sent before it.
THEOREM CredentialsReachConnect == Spec => []CredentialsApplied
<1>1. IInv => CredentialsApplied
  BY DEF IInv
<1> QED
  BY <1>1, Inductive, PTL
-----------------------------------------------------------------------------
(* Refinement. *)

\* The legal edges, one by one.
LEMMA FollowsTable ==
  /\ Lifecycle!Follows["Idle"] = {"Connecting", "Failed"}
  /\ Lifecycle!Follows["Connecting"] = {"Connected", "Failed", "Disconnected"}
  /\ Lifecycle!Follows["Connected"] = {"Disconnecting", "Disconnected", "Failed"}
  /\ Lifecycle!Follows["Disconnecting"] = {"Disconnected"}
  /\ Lifecycle!Follows["Disconnected"] = {"Connecting", "Failed"}
  /\ Lifecycle!Follows["Failed"] = {"Connecting", "Disconnected"}
  BY DEF Lifecycle!Follows, Lifecycle!States

\* A new session is a new lifecycle.
LEMMA InitRefines == Init => Lifecycle!Init
  BY DEF Init, Lifecycle!Init

\* Every step of the driver reports along a legal edge, accepts one request,
\* delivers the next result, closes the handle or shows the client nothing.
LEMMA StepRefines == IInv /\ [Next]_vars => [Lifecycle!Next]_Lifecycle!vars
<1> SUFFICES ASSUME IInv, [Next]_vars PROVE [Lifecycle!Next]_Lifecycle!vars
  OBVIOUS
<1> USE DEF clientVars, providerVars, outputVars, Resume
<1> DEFINE Goal == [Lifecycle!Next]_Lifecycle!vars
<1>a. /\ Control /\ TypeOK /\ Numbering /\ NoRequestLost
      /\ answered \in Nat /\ accepted \in Nat /\ cur \in CommandType
      /\ cmdq \in Seq(CommandType)
  BY DEF IInv, TypeOK
<1>b. ASSUME UNCHANGED <<shown, accepted, answered, handle>> PROVE Goal
  BY <1>b DEF Lifecycle!vars
<1>c. ASSUME NEW s, s \in Lifecycle!Follows[state] \/ s = state, Show(s),
             UNCHANGED <<accepted, answered, handle>>
      PROVE  Goal
  BY <1>a, <1>c DEF Show, Control, Lifecycle!Next, Lifecycle!Report, Lifecycle!vars
<1>d. ASSUME pc # "done", IsRequest(cur), Answer(cur),
             UNCHANGED <<shown, accepted, handle>>
      PROVE  Goal
  <2>1. handle # "closed" => cur.id = answered + 1 /\ cur.id <= accepted
    BY <1>a, <1>d, NoRequestLostInOrder, InOrderAnswer
  <2> QED
    BY <1>a, <1>d, <2>1
       DEF Answer, Lifecycle!Next, Lifecycle!Deliver, Lifecycle!vars
<1>1. ASSUME NEW k \in Ops, Submit(k) PROVE Goal
  BY <1>b, <1>1 DEF Submit
<1>2. ASSUME NEW k \in Ops, Request(k) PROVE Goal
  <2>1. handle = "open" /\ handle' = handle /\ UNCHANGED <<shown, answered>>
    BY <1>2 DEF Request
  <2>2. accepted' = accepted \/ accepted' = accepted + 1
    BY <1>a, <1>2 DEF Request, Numbering
  <2> QED
    BY <2>1, <2>2 DEF Lifecycle!Next, Lifecycle!Accept, Lifecycle!vars
<1>3. ASSUME NEW accept \in BOOLEAN, ConfirmHostKey(accept) PROVE Goal
  BY <1>b, <1>3 DEF ConfirmHostKey
<1>4. ASSUME Destroy \/ CloseHandle PROVE Goal
  BY <1>4 DEF Destroy, CloseHandle, Lifecycle!Next, Lifecycle!Close, Lifecycle!vars
<1>5. ASSUME CreateProvider \/ Arm \/ ConnectCancelled \/ ByeDone PROVE Goal
  <2>1. UNCHANGED <<shown, accepted, answered, handle>>
    BY <1>5 DEF CreateProvider, Arm, ConnectCancelled, ByeDone
  <2> QED
    BY <1>b, <2>1
<1>6. ASSUME SendDone \/ HostKeyKnown \/ HostKeyPrompt \/ OpenShell PROVE Goal
  <2>1. UNCHANGED <<shown, accepted, answered, handle>>
    BY <1>6 DEF SendDone, HostKeyKnown, HostKeyPrompt, OpenShell
  <2> QED
    BY <1>b, <2>1
<1>7. ASSUME OrphanPrompt \/ ReaderEnds \/ Cancel PROVE Goal
  <2>1. UNCHANGED <<shown, accepted, answered, handle>>
    BY <1>7 DEF OrphanPrompt, ReaderEnds, Cancel
  <2> QED
    BY <1>b, <2>1
<1>8. ASSUME TakeCredential \/ TakeConnectRefused \/ TakeSend \/ TakeFs
             \/ TakeShutdown PROVE Goal
  <2>1. UNCHANGED <<shown, accepted, answered, handle>>
    BY <1>8 DEF TakeCredential, TakeConnectRefused, TakeSend, TakeFs, TakeShutdown, Take
  <2> QED
    BY <1>b, <2>1
<1>9. ASSUME CreateProviderFails PROVE Goal
  <2>1. state = "Idle" /\ Show("Failed") /\ UNCHANGED <<accepted, answered, handle>>
    BY <1>a, <1>9 DEF CreateProviderFails, SetState, Control
  <2> QED
    BY <1>c, <2>1, FollowsTable
<1>10. ASSUME TakeConnect PROVE Goal
  <2>1. state \in {"Idle", "Disconnected", "Failed"} /\ Show("Connecting")
        /\ UNCHANGED <<accepted, answered, handle>>
    BY <1>a, <1>10 DEF TakeConnect, Take, SetState, Control, Transient, TypeOK, States
  <2> QED
    BY <1>c, <2>1, FollowsTable
<1>11. ASSUME TakeDisconnect PROVE Goal
  <2>1. UNCHANGED <<accepted, answered, handle>>
    BY <1>11 DEF TakeDisconnect
  <2>2. CASE state \in {"Connected", "Connecting"}
    <3>1. state = "Connected" /\ Show("Disconnecting")
      BY <1>a, <1>11, <2>2 DEF TakeDisconnect, Take, SetState, Control, Transient
    <3> QED
      BY <1>c, <2>1, <3>1, FollowsTable
  <2>3. CASE state \notin {"Connected", "Connecting"}
    BY <1>b, <1>11, <2>1, <2>3 DEF TakeDisconnect
  <2> QED
    BY <2>2, <2>3
<1>12. ASSUME Drain PROVE Goal
  <2>1. PICK s \in {"Failed", "Disconnected"} : Show(s)
    BY <1>12 DEF Drain, SetState
  <2>2. state \in {"Connected", "Disconnected", "Failed"}
    BY <1>a, <1>12 DEF Drain, Control, Transient, TypeOK, States
  <2>3. s \in Lifecycle!Follows[state] \/ s = state
    BY <2>2, FollowsTable
  <2> QED
    BY <1>c, <1>12, <2>1, <2>3 DEF Drain
<1>13. ASSUME ConnectOk \/ ConnectErr PROVE Goal
  <2>1. PICK s \in {"Connected", "Failed"} : Show(s)
    BY <1>13 DEF ConnectOk, ConnectErr, SetState
  <2>2. state = "Connecting"
    BY <1>a, <1>13 DEF ConnectOk, ConnectErr, Control
  <2>3. UNCHANGED <<accepted, answered, handle>>
    BY <1>13 DEF ConnectOk, ConnectErr
  <2> QED
    BY <1>c, <2>1, <2>2, <2>3, FollowsTable
<1>14. ASSUME DisconnectDone PROVE Goal
  <2>1. state \in {"Connecting", "Disconnecting"} /\ Show("Disconnected")
        /\ UNCHANGED <<accepted, answered, handle>>
    BY <1>a, <1>14 DEF DisconnectDone, SetState, Control
  <2> QED
    BY <1>c, <2>1, FollowsTable
<1>15. ASSUME FsUnavailable \/ ExecDone \/ FsDone PROVE Goal
  <2>1. /\ UNCHANGED <<shown, accepted, handle>> /\ pc # "done"
        /\ IsRequest(cur) /\ Answer(cur)
    BY <1>15 DEF FsUnavailable, ExecDone, FsDone, IsRequest, Requests
  <2> QED
    BY <1>d, <2>1
<1>16. ASSUME OpCancelled PROVE Goal
  <2>1. CASE IsRequest(cur)
    BY <1>d, <1>16, <2>1 DEF OpCancelled, IsRequest
  <2>2. CASE ~IsRequest(cur)
    BY <1>b, <1>16, <2>2 DEF OpCancelled, IsRequest
  <2> QED
    BY <2>1, <2>2
<1>17. ASSUME TakeExec PROVE Goal
  <2>1. CASE state = "Connected"
    BY <1>b, <1>17, <2>1 DEF TakeExec
  <2>2. CASE state # "Connected"
    <3> DEFINE h == Head(cmdq)
    <3>1. /\ cmdq # <<>> /\ pc = "select" /\ h.kind = "Exec" /\ Answer(h)
          /\ UNCHANGED <<shown, accepted, handle>>
      BY <1>17, <2>2 DEF TakeExec, Take
    <3>2. ~IsRequest(cur) /\ IsRequest(h)
      BY <1>a, <3>1, NoCommandIsNoRequest DEF Control, IsRequest, Requests
    <3>3. h \in CommandType /\ Tail(cmdq) \in Seq(CommandType)
      BY <1>a, <3>1, TailFacts
    <3>4. handle # "closed" => InOrder(answered, accepted, h, Tail(cmdq))
      BY <1>a, <3>1, <3>2, InOrderTake, NoRequestLostInOrder
    <3> HIDE DEF h
    <3>5. handle # "closed" => h.id = answered + 1 /\ h.id <= accepted
      BY <1>a, <3>2, <3>3, <3>4, InOrderAnswer
    <3> QED
      BY <1>a, <3>1, <3>5
         DEF Answer, Lifecycle!Next, Lifecycle!Deliver, Lifecycle!vars
  <2> QED
    BY <2>1, <2>2
<1>18. CASE UNCHANGED vars
  BY <1>b, <1>18 DEF vars
<1> QED
  BY <1>1, <1>2, <1>3, <1>4, <1>5, <1>6, <1>7, <1>8, <1>9, <1>10, <1>11,
     <1>12, <1>13, <1>14, <1>15, <1>16, <1>17, <1>18
     DEF Next, Client, Joined, JoinTimedOut, DriverStep, RemoteAnswer, RemoteEvent

\* The driver implements the promise of SessionLifecycle: the client is told a
\* history of legal transitions, and gets its results in order, once each.
THEOREM DriverImplementsLifecycle == Spec => ImplementsLifecycle
  BY InitRefines, StepRefines, Inductive, PTL
     DEF Spec, ImplementsLifecycle, Lifecycle!Spec
=============================================================================
