----------------------------- MODULE UiSession -----------------------------
(***************************************************************************)
(* The controller of the application (app/cpp/AppController.cpp) with its  *)
(* list of servers, the one session it holds, and the queue of the UI      *)
(* thread through which everything a session reports reaches it.           *)
(*                                                                         *)
(* The session is known by its promise alone, SessionLifecycle, which      *)
(* SessionDriver implements; when it connects or ends is left to chance.   *)
(* Destroying it stops the callbacks, but not the batches they had posted: *)
(* a batch carries neither a session nor a server.                         *)
(*                                                                         *)
(* The model numbers the sessions and gives every row of the list a key,   *)
(* which stands for that row under one configuration: rows configured      *)
(* alike, which the code accepts, have different keys.  The code has only  *)
(* a pointer and an index.  Left out: the calls that only forward to the   *)
(* session (disconnect, cancel, send, confirm the host key), the contents  *)
(* of files, trees, terminal and package lists, and what is stored in      *)
(* settings and the credential store.                                      *)
(***************************************************************************)
EXTENDS Integers, Sequences, FiniteSets, SequencesExt

CONSTANTS
  Keys,          \* names of the rows, a new one for a changed configuration
  NoKey,         \* no row
  MaxServers,    \* bound: rows of the list
  MaxSessions,   \* bound: sessions created
  MaxRequests,   \* bound: requests per session
  MaxQueue       \* bound: batches posted and not yet ingested

ASSUME KeysAssumption == NoKey \notin Keys
ASSUME BoundsAssumption ==
  /\ MaxServers \in Nat
  /\ MaxSessions \in Nat
  /\ MaxRequests \in Nat
  /\ MaxQueue \in Nat

\* The requests, by what their results lead to: Fetch stands for listing and
\* reading, Change for everything after which one or two directories are listed
\* again; Lookup for package lists and searches, Install for the probe and the
\* package changes, which are followed by a list; Snapshot for resources.
FsKinds   == {"Fetch", "Change"}
ExecKinds == {"Lookup", "Install", "Snapshot"}
PackageKinds == {"Lookup", "Install"}
Kinds     == FsKinds \cup ExecKinds
Channel(kind) == IF kind \in FsKinds THEN "Fs" ELSE "Exec"

VARIABLES
  servers,      \* the rows of ServerListModel: key and status
  selected,     \* m_selectedIndex + 1, 0 if none
  current,      \* m_currentIndex + 1, 0 if none
  endpoint,     \* m_currentEndpoint, as the key it was computed from
  connState,    \* m_connectionState
  session,      \* m_session: the number of the session held, 0 if none
  created,      \* the sessions created so far
  pending,      \* m_fsPending and m_execPending: id and kind
  packageBusy,  \* m_packageBusy
  snapshotBusy, \* m_resourceSnapshotBusy
  shown,        \* the state the session last reported
  owed,         \* the kinds of the requests it accepted and has not answered
  answered,     \* the id of the last result the session reported
  queue         \* the batches posted to the UI thread

listVars    == <<servers, selected>>
requestVars == <<pending, packageBusy, snapshotBusy>>
coreVars    == <<shown, owed, answered>>
heldVars    == <<current, endpoint, session, created>>
vars == <<servers, selected, current, endpoint, connState, session, created,
          pending, packageBusy, snapshotBusy, shown, owed, answered, queue>>

\* The session's promise.
Core == INSTANCE SessionLifecycle
          WITH accepted <- answered + Len(owed), open <- session # 0

Row(key, status) == [key |-> key, status |-> status]

\* A batch: the session that posted it (which the code does not record), its
\* channel, and the state or the request id it carries.
StateBatch(s)      == [of |-> session, chan |-> "State", state |-> s, id |-> 0]
ResultBatch(c, id) == [of |-> session, chan |-> c, state |-> "Idle", id |-> id]
BatchType == [of: Nat, chan: {"State", "Fs", "Exec"}, state: Core!States, id: Nat]

TypeOK ==
  /\ servers \in Seq([key: Keys, status: Core!States])
  /\ selected \in 0..Len(servers)
  /\ current \in 0..Len(servers)
  /\ endpoint \in Keys \cup {NoKey}
  /\ connState \in Core!States
  /\ created \in Nat
  /\ session \in {0, created}
  /\ pending \subseteq [id: Nat, kind: Kinds]
  /\ packageBusy \in BOOLEAN
  /\ snapshotBusy \in BOOLEAN
  /\ shown \in Core!States
  /\ owed \in Seq(Kinds)
  /\ answered \in Nat
  /\ queue \in Seq(BatchType)

KeysUsed == {servers[i].key : i \in DOMAIN servers}

\* initialize: the rows saved in the settings, the first one selected.
Init ==
  /\ \E n \in 0..MaxServers : \E f \in [1..n -> Keys] :
       /\ \A i, j \in 1..n : f[i] = f[j] => i = j
       /\ servers = [i \in 1..n |-> Row(f[i], "Idle")]
  /\ selected = IF Len(servers) > 0 THEN 1 ELSE 0
  /\ current = 0
  /\ endpoint = NoKey
  /\ connState = "Idle"
  /\ session = 0
  /\ created = 0
  /\ pending = {}
  /\ packageBusy = FALSE
  /\ snapshotBusy = FALSE
  /\ shown = "Idle"
  /\ owed = <<>>
  /\ answered = 0
  /\ queue = <<>>
-----------------------------------------------------------------------------
(* The session: each report is one batch posted to the UI thread. *)

Reports ==
  /\ Len(queue) < MaxQueue
  /\ UNCHANGED <<owed, answered, connState, listVars, heldVars, requestVars>>
  /\ Core!Report
  /\ queue' = Append(queue, StateBatch(shown'))

Answers ==
  /\ Len(queue) < MaxQueue
  /\ owed # <<>>
  /\ owed' = Tail(owed)
  /\ answered' = answered + 1
  /\ UNCHANGED <<connState, listVars, heldVars, requestVars>>
  /\ Core!Deliver
  /\ queue' = Append(queue, ResultBatch(Channel(Head(owed)), answered + 1))
-----------------------------------------------------------------------------
(* What the handlers share. *)

\* clearPendingFs, m_execPending.clear() and the two busy flags.
ForgetRequests ==
  /\ pending' = {}
  /\ packageBusy' = FALSE
  /\ snapshotBusy' = FALSE

\* (mutant) The requests under way stay pending.
DropSessionKeepsPending ==
  /\ packageBusy' = FALSE
  /\ snapshotBusy' = FALSE
  /\ UNCHANGED pending
  /\ shown' = "Idle"
  /\ owed' = <<>>
  /\ answered' = 0

\* teardownSession, up to the index: the connection state and the status of the
\* row stay as they are.  With no session held there is nothing to drop.
DropSession ==
  /\ ForgetRequests
  /\ shown' = "Idle"
  /\ owed' = <<>>
  /\ answered' = 0

Teardown ==
  /\ session' = 0
  /\ current' = 0
  /\ DropSession

Connected == session # 0 /\ connState = "Connected"

\* The bridge returns an id for each request, which is remembered: keep is what
\* remains of the pending requests.
Ask(kinds, keep) ==
  /\ answered + Len(owed \o kinds) <= MaxRequests
  /\ owed' = owed \o kinds
  /\ pending' = keep \cup {[id |-> answered + Len(owed) + i, kind |-> kinds[i]] :
                             i \in DOMAIN kinds}
  /\ UNCHANGED <<shown, answered>>

SetStatus(list, i, s) == [list EXCEPT ![i].status = s]
-----------------------------------------------------------------------------
(* The user, on the UI thread. *)

SelectServer(i) ==
  /\ i \in DOMAIN servers
  /\ selected' = i
  /\ UNCHANGED <<servers, connState, heldVars, requestVars, coreVars, queue>>

\* The rest of connectToServer for a row without a session: the session of
\* another row is destroyed, with what Teardown forgets, and one is created.
Open(list, i) ==
  /\ servers' = list
  /\ selected' = i
  /\ created < MaxSessions
  /\ created' = created + 1
  /\ session' = created + 1
  /\ current' = i
  /\ endpoint' = list[i].key
  /\ DropSession
  /\ UNCHANGED <<connState, queue>>

\* The bridge returns no session; the one of another row is gone already.
OpenFails(list, i) ==
  /\ servers' = SetStatus(list, i, "Failed")
  /\ selected' = i
  /\ Teardown
  /\ UNCHANGED <<connState, endpoint, created, queue>>

\* A session held for this row is only told to connect again.
ConnectToServer(i) ==
  \/ /\ session # 0 /\ current = i
     /\ SelectServer(i)
  \/ /\ i \in DOMAIN servers
     /\ session = 0 \/ current # i
     /\ Open(servers, i) \/ OpenFails(servers, i)

ConnectToHost(k) ==
  /\ Len(servers) < MaxServers
  /\ k \notin KeysUsed
  /\ LET list == Append(servers, Row(k, "Idle"))
     IN  Open(list, Len(list)) \/ OpenFails(list, Len(list))

\* Editing a row ends the session made from it, also when the endpoint stays.
EditServer(i, k) ==
  /\ i \in DOMAIN servers
  /\ k = servers[i].key \/ k \notin KeysUsed
  /\ servers' = [servers EXCEPT ![i] = Row(k, "Idle")]
  /\ selected' = i
  /\ IF i = current
       THEN /\ Teardown
            /\ connState' = "Idle"
            /\ endpoint' = NoKey
       ELSE UNCHANGED <<current, session, endpoint, connState, coreVars,
                        requestVars>>
  /\ UNCHANGED <<created, queue>>

\* (mutant) The last row was removed and stays selected.
SelectedWithoutClamp(i, n) ==
  CASE selected = i -> i
    [] selected > i -> selected - 1
    [] OTHER        -> selected

\* (mutant) A selection below the removed row does not move up.
SelectedWithoutShift(i, n) ==
  IF selected = i /\ i = n THEN n - 1 ELSE selected

\* The selection after row i is removed from a list of n rows.
SelectedWithout(i, n) ==
  CASE selected = i -> IF i <= n - 1 THEN i ELSE n - 1
    [] selected > i -> selected - 1
    [] OTHER        -> selected

\* (mutant) The row of the session is not renumbered.
DeleteServerKeepsIndex(i) ==
  /\ i \in DOMAIN servers
  /\ servers' = RemoveAt(servers, i)
  /\ selected' = SelectedWithout(i, Len(servers))
  /\ IF i = current
       THEN /\ Teardown
            /\ connState' = "Idle"
            /\ endpoint' = NoKey
       ELSE UNCHANGED <<current, session, endpoint, connState, coreVars,
                        requestVars>>
  /\ UNCHANGED <<created, queue>>

DeleteServer(i) ==
  /\ i \in DOMAIN servers
  /\ servers' = RemoveAt(servers, i)
  /\ selected' = SelectedWithout(i, Len(servers))
  /\ IF i = current
       THEN /\ Teardown
            /\ connState' = "Idle"
            /\ endpoint' = NoKey
       ELSE /\ current' = IF current > i THEN current - 1 ELSE current
            /\ UNCHANGED <<session, endpoint, connState, coreVars, requestVars>>
  /\ UNCHANGED <<created, queue>>
-----------------------------------------------------------------------------
(* Requests, on the UI thread.  One that the bridge refuses (id 0) leaves no
   trace, so it is no action. *)

\* openPath, paste, renamePath, deletePath, makeDir, makeFile, uploadFile,
\* saveEditorPath, and expandDir for the directories of the tree.
RequestFile(kind) ==
  /\ kind \in FsKinds
  /\ Connected
  /\ Ask(<<kind>>, pending)
  /\ UNCHANGED <<connState, packageBusy, snapshotBusy, listVars, heldVars, queue>>

\* refreshEnvironment, searchPackages, installPackage, updatePackage and
\* removePackage.
RequestPackages(kind) ==
  /\ kind \in PackageKinds
  /\ Connected
  /\ ~packageBusy
  /\ packageBusy' = TRUE
  /\ Ask(<<kind>>, pending)
  /\ UNCHANGED <<connState, snapshotBusy, listVars, heldVars, queue>>

\* refreshResourceSnapshot while not connected shows the sample instead, and
\* with it drops the flag of a snapshot under way.
RefreshSnapshot ==
  \/ /\ Connected
     /\ ~snapshotBusy
     /\ snapshotBusy' = TRUE
     /\ Ask(<<"Snapshot">>, pending)
     /\ UNCHANGED <<connState, packageBusy, listVars, heldVars, queue>>
  \/ /\ ~Connected
     /\ snapshotBusy' = FALSE
     /\ UNCHANGED <<connState, pending, packageBusy, listVars, heldVars,
                    coreVars, queue>>

\* captureResourceOutput and parseResourceSnapshot: terminal output that looks
\* like a snapshot, or is too long for one, drops the flag before the result.
CaptureEnds ==
  /\ snapshotBusy
  /\ snapshotBusy' = FALSE
  /\ UNCHANGED <<connState, pending, packageBusy, listVars, heldVars, coreVars,
                 queue>>
-----------------------------------------------------------------------------
(* The batches, in the order they were posted. *)

Ingest(chan) ==
  /\ queue # <<>>
  /\ Head(queue).chan = chan
  /\ queue' = Tail(queue)

\* (mutant) The status goes to the selected row.
SetConnectionStateSelected(s) ==
  /\ connState' = s
  /\ servers' = IF current # 0 THEN SetStatus(servers, selected, s) ELSE servers
  /\ UNCHANGED <<selected, heldVars>>

\* setConnectionState, up to the part that depends on the state.
SetConnectionState(s) ==
  /\ connState' = s
  /\ servers' = IF current # 0 THEN SetStatus(servers, current, s) ELSE servers
  /\ UNCHANGED <<selected, heldVars>>

IngestState ==
  /\ Ingest("State")
  /\ SetConnectionState(Head(queue).state)

\* reloadFiles asks for the root of the tree when there is a session.
IngestConnected ==
  /\ IngestState
  /\ connState' = "Connected"
  /\ \/ session # 0 /\ Ask(<<"Fetch">>, pending)
     \/ UNCHANGED <<pending, coreVars>>
  /\ UNCHANGED <<packageBusy, snapshotBusy>>

\* (mutant) The requests under way stay pending.
IngestEndedKeepsPending ==
  /\ IngestState
  /\ connState' \in {"Disconnected", "Failed"}
  /\ packageBusy' = FALSE
  /\ snapshotBusy' = FALSE
  /\ UNCHANGED <<pending, coreVars>>

IngestEnded ==
  /\ IngestState
  /\ connState' \in {"Disconnected", "Failed"}
  /\ ForgetRequests
  /\ UNCHANGED coreVars

IngestTransient ==
  /\ IngestState
  /\ connState' \in {"Connecting", "Disconnecting"}
  /\ UNCHANGED <<requestVars, coreVars>>

\* The pending request a result batch is taken for: only the id is compared.
Matches(p, b) == p.id = b.id /\ Channel(p.kind) = b.chan

\* A result nobody waits for is skipped.
IngestUnknown ==
  \E c \in {"Fs", "Exec"} :
    /\ Ingest(c)
    /\ \A p \in pending : ~Matches(p, Head(queue))
    /\ UNCHANGED <<connState, listVars, heldVars, requestVars, coreVars>>

\* The directories that are listed again, at most: refreshDir, extraRefreshDir.
Refreshes(kind) == IF kind = "Change" THEN 2 ELSE 0

\* ingestFileResults: a success lists the changed directories again, as far as
\* the session is still connected and takes the requests; a failure does not.
IngestFile ==
  /\ Ingest("Fs")
  /\ \E p \in pending :
       /\ Matches(p, Head(queue))
       /\ \E n \in 0..Refreshes(p.kind) :
            /\ n > 0 => Connected
            /\ Ask([i \in 1..n |-> "Fetch"], pending \ {p})
  /\ UNCHANGED <<connState, packageBusy, snapshotBusy, listVars, heldVars>>

\* ingestExecResults for a snapshot.
IngestSnapshot ==
  /\ Ingest("Exec")
  /\ \E p \in pending :
       /\ Matches(p, Head(queue))
       /\ p.kind = "Snapshot"
       /\ pending' = pending \ {p}
  /\ snapshotBusy' = FALSE
  /\ UNCHANGED <<connState, packageBusy, listVars, heldVars, coreVars>>

\* ingestExecResults for packages: after a successful probe or change the list
\* is asked for, and the flag set again when the request is taken.
IngestPackages ==
  /\ Ingest("Exec")
  /\ \E p \in pending :
       /\ Matches(p, Head(queue))
       /\ p.kind \in PackageKinds
       /\ \/ /\ packageBusy' = FALSE
             /\ pending' = pending \ {p}
             /\ UNCHANGED coreVars
          \/ /\ p.kind = "Install"
             /\ Connected
             /\ packageBusy' = TRUE
             /\ Ask(<<"Lookup">>, pending \ {p})
  /\ UNCHANGED <<connState, snapshotBusy, listVars, heldVars>>
-----------------------------------------------------------------------------
Session == Reports \/ Answers

User ==
  \/ \E i \in DOMAIN servers :
       SelectServer(i) \/ ConnectToServer(i) \/ DeleteServer(i)
  \/ \E k \in Keys : ConnectToHost(k) \/ \E i \in DOMAIN servers : EditServer(i, k)
  \/ \E kind \in Kinds : RequestFile(kind) \/ RequestPackages(kind)
  \/ RefreshSnapshot

UiThread ==
  \/ IngestConnected \/ IngestEnded \/ IngestTransient
  \/ IngestUnknown \/ IngestFile \/ IngestSnapshot \/ IngestPackages
  \/ CaptureEnds

Next == Session \/ User \/ UiThread

Spec == Init /\ [][Next]_vars
-----------------------------------------------------------------------------
(* Safety. *)

\* m_currentIndex names the row whose configuration the session was created
\* with, through every insertion, edit and removal of rows (AppController.h:
\* "server bound to the active session"); without a session it names none.
BoundServer ==
  /\ session = 0 => current = 0
  /\ session # 0 =>
       current \in DOMAIN servers /\ servers[current].key = endpoint

\* Once the UI thread has caught up with a session that has reported a state,
\* the controller, the row of its server and the session agree, whatever was
\* left in the queue or in the row by sessions before it.
AgreesWhenQuiet ==
  session # 0 /\ queue = <<>> /\ shown # "Idle" =>
    /\ connState = shown
    /\ servers[current].status = shown

\* The session held still owes the result of every pending request, under the
\* same id and kind, or has posted it: nothing waits for a result that cannot
\* come.
PendingIsOwed ==
  \A p \in pending :
    \/ \E i \in DOMAIN owed : p = [id |-> answered + i, kind |-> owed[i]]
    \/ \E i \in DOMAIN queue : queue[i].of = session /\ Matches(p, queue[i])

\* The package pane is busy exactly while one package request is pending, and
\* the resource pane only while a snapshot is: neither stays busy for good, and
\* no second package change starts while one is under way.
BusyIsPending ==
  /\ packageBusy <=> \E p \in pending : p.kind \in PackageKinds
  /\ \A p, q \in pending :
       p.kind \in PackageKinds /\ q.kind \in PackageKinds => p = q
  /\ snapshotBusy => \E p \in pending : p.kind = "Snapshot"

IsRow(i, list, row) == i \in DOMAIN list /\ list[i] = row

\* A row that outlasts a removal keeps the selection and the session it had.
RemovalSpares ==
  Len(servers') < Len(servers) =>
    \A i \in DOMAIN servers :
      (\E j \in DOMAIN servers' : servers'[j] = servers[i]) =>
        /\ selected = i => IsRow(selected', servers', servers[i])
        /\ current = i  => IsRow(current', servers', servers[i]) /\ session' = session

\* Removing a row does not move the selection to another server, nor does it
\* end the session of another server.
RemovalSparesOthers == [][RemovalSpares]_vars

\* ServerListModel.h: each row shows "a per-row connection status"; a row that
\* says Connected is the one the session belongs to.
NoPhantomConnection ==
  \A i \in DOMAIN servers : servers[i].status = "Connected" => i = current

\* docs/file-management.md: the request id of a result "correlates with the call
\* that returned it", so a result ends a request of its own session only.
ResultOfItsCall ==
  [][\A p \in pending \ pending' :
       session' = session /\ queue' = Tail(queue) /\ Matches(p, Head(queue))
         => Head(queue).of = session]_vars
=============================================================================
