# Formal model of ResearchSSH-Next

TLA+ modules for the control flow of ResearchSSH-Next: the Rust session driver
and its teardown across the C ABI, the SSH and the file providers under it, and
above it the Qt controller with its server list, file pane, editor and terminal.
TLC checks them on small instances; TLAPS proves the main safety properties for
every value of the constants. `PROJECT.json` maps every definition to the source
lines it models and lists runs, mutants, findings, hazards and theorems.

To repeat a check: `tlc -config driver.cfg MCSessionDriver`, and likewise for the
other runs; `tlapm SessionDriverProofs.tla` for the proofs.

## 1. Inventory

The program is a Rust core (`rust-core/src`), a C ABI, a C++/Qt adapter
(`app/cpp`) and QML (`app/qml`).

| Component | State | Operations | Correct when | Module |
|---|---|---|---|---|
| Session handle and driver task (`session.rs`) | command channel, request counter, cancel signal, state, file provider, provider, provider channel | connect, disconnect, send, cancel, set credentials, fs and exec requests, confirm host key, destroy; `drive()` | requests answered once and in order; states move along legal edges; Connected has a connection; cancel and teardown end what is awaited | `SessionDriver`, `SessionLifecycle` |
| SSH provider (`providers/russh.rs`) | connection, reader task, SFTP session, credentials, known hosts | connect, send, disconnect, take_file_provider, exec | only a trusted server gets past the handshake; keys and password are tried in order and reported honestly; one reader per connection; output is complete | `RusshProvider`, `SshIdentity`; the reader and disconnect in `SessionDriver` |
| SFTP file operations (`providers/russh.rs`) | files of the server | list, stat, read, write, mkdir, remove, rename, copy | nothing outside the named paths changes unless others change links meanwhile; Ok means done; a failure is contained | `SftpFiles`, `FileTree`, `FileProviders` |
| Mock provider (`providers/mock.rs`) | two maps in memory | the same file operations | agrees with SFTP | `MockFiles`, `FileProviders` |
| FFI emitters, teardown (`ffi.rs`, `session.rs`) | active flag and mutex per emitter, two slots | register callbacks, emit, deactivate, bounded join | no callback after destroy returns; callbacks of one channel serial; destroy returns | `Teardown` |
| C++ bridge (`RustCoreBridge.cpp`) | session pointer | callbacks posted to the UI thread | nothing lost or reordered | the queue of `UiSession` and of `Workspace` |
| Application controller (`AppController.cpp`) | session, current and selected index, endpoint, connection state, pending file and exec requests, busy flags, clipboard | user slots, `ingest*` | the session stays bound to its row; no pane busy for good; results end their own request | `UiSession`; file requests and clipboard in `Workspace` |
| Server list (`ServerListModel.cpp`) | rows with status | add, update, remove, setStatus | status is that of the row's session | `UiSession` |
| Remote file tree (`RemoteFileTreeModel.cpp`) | nodes, loaded and loading | fetchMore, loadRoot, applyListing, markLoadFailed, clear | loading implies a pending listing; the tree shows what the server has | `RemoteTree`, `Workspace` |
| Editor (`EditorViewModel.cpp`, `CodeEditorPane.qml`) | documents; modified, saving, loading, missing | open, edit, save, close, removal and rename from outside | unsaved text survives answers; no document waits for good | `EditorPane`, `Workspace` |
| Terminal view (`TerminalViewModel.cpp`) | text, pending control sequence | appendBytes, clear | the text does not depend on how output is cut into chunks | `TerminalStream` |
| Package and resource panes | two busy flags | refresh, search, install, update, remove | one package change at a time | flags in `UiSession` |
| Credential store (`CredentialStore.cpp`) | secrets by endpoint | set, move, remove | secrets follow their server | not modelled |
| Runtime, secrets, error codes; highlighter; remaining QML; build files | no control state | | | not modelled |

How they interact. The UI thread calls the handle, which puts a command in an
unbounded channel; request ids are drawn by the handle before that. The driver
task takes commands one at a time (`select!`, biased to commands), awaits the
provider, and calls C callbacks from its own thread. The SSH library asks for
the host key on a task of its own, through the same event callback. Callbacks
copy and post a batch to the queue of the UI thread; `ingestRustEvents`,
`ingestFileResults` and `ingestExecResults` apply the batches, hand them to the
tree, the editor and the terminal, and may ask the session for more. `cancel`
bypasses the channel: it is a `Notify` that stores no permit.

What is hard: cancellation at every await point; readers, prompts and events of
earlier attempts that share one channel, one gate and one known_hosts with the
current attempt; teardown with a join that gives up after three seconds;
re-registered callbacks; mutexes taken by tasks and by the thread that destroys;
file operations of several requests, each of which may fail or meet files that
others have changed; batches in the queue of the UI thread that outlive their
session, whose ids start again at 1; indices into a list of servers that is
edited under them; listings, readings and savings whose answers arrive when the
pane or the document has moved on; control sequences cut anywhere.
`PROJECT.json` lists 40 hazards with their lines and the properties that cover
them, or why none does.

## 2. Modules

**`SessionLifecycle`** is the promise of one session: states along legal edges,
one result per accepted request in order, silence after the handle is closed.

**`SessionDriver`** is one session in detail. The client's actions are the calls
on the handle (`Submit`, `Request`, `Cancel`, `ConfirmHostKey`, `Destroy` and the
two ends of the join). `pc` is the await point of `drive()`; the `Take*` actions
are the arms of its command match, each with the calls up to the next await.
`Arm` is the creation of `cancel.notified()`: between a `Take*` and `Arm` a
cancel is lost, as `notify_waiters` loses it. `phase` follows the connect future
of `russh.rs` (dial, host-key prompt, authentication and shell, SFTP probe); a
cancelled connect leaves an orphan that may still prompt, and a reader if the
shell was open. Attempts are numbered in the model only. `send` data, error
texts and payloads are left out.

**`Teardown`** is the same teardown at a finer grain, with only what matters to
it: the emitters' flags and mutexes, the two slots, the driver, and tasks that
ask for host keys. `BeginDestroy`, `JoinOver`, `DeactivateEvents`, `LockSlot`
and `DeactivateSlot` are the statements of `shutdown_and_join` in order.

**`SshIdentity`** is the choice of private keys: patterns of `Host` lines, the
fold over the lines of `~/.ssh/config`, the default names; beside it
`IsIdentityList`, which says by quantifiers what that list should be.
**`RusshProvider`** is a connection attempt with it. Each attempt has a handler,
the task of the SSH library that checks the server's key (`CheckServerKey`),
asks (`Confirm`), and records (`Learn`); a cancelled attempt's handler goes on.
`Discover` to `ShellOpens` are the steps of `connect` and `try_publickey_auth`
after the handshake, `tried` lists what was loaded or offered. `Exec` folds
`Collect` over the messages of a command's channel.

**`Trees`** has paths and trees of any names and contents, **`FileTree`** those of a
server. **`SftpFiles`** runs the eight operations of
the SFTP provider request by request: `call` is the operation, `stack` its
activations (`remove` calls itself), `CutOff` its end at any request, refused or
dropped by the driver, and `Edit` are the changes somebody else makes between
two requests: a file is written, or what is at a path is removed or replaced by a
file, a directory or a link. `steady` records that no link came or went. **`MockFiles`** has the same operations on the mock's two maps,
one operator each. **`FileProviders`** states what both promise; `Effect` is the
abstract operation in one step.

**`UiSession`** is the controller, the list of servers and the queue of the UI
thread. It instantiates `SessionLifecycle` for the session it holds (`Core`), so
it relies on what `SessionDriver` is proved to implement and on nothing else:
`Reports` and `Answers` are `Core!Report` and `Core!Deliver` with the batch that
is posted. One action per slot of the controller (`ConnectToServer`,
`EditServer`, `DeleteServer`, `RequestFile`, ...) and per kind of batch
(`IngestConnected`, `IngestFile`, ...), each with what the handler does to
the end, follow-up requests included. Each row of the list has a key, the row
under one configuration; two rows configured alike, which the code accepts, have
two keys, and an edit may keep the key or bring a new one. Keys and the session
number a batch carries are there for the properties; the handlers never look at
them, as in the code. Requests are grouped by what their results lead to
(`Kinds`).

**`RemoteTree`** and **`EditorPane`** are the two data structures of the
workspace as operators: the nodes of the file tree, and the list of documents
with the effect of each answer on it. **`Workspace`** composes them with the
controller's file requests, the clipboard, and a driver that answers in order.
`queue` holds what has been asked and not taken in: first what is answered, in
the order the UI thread will take it, then what the driver has yet to serve.
The `Serve*` actions are the driver and the server, the `Take*` actions the
handlers of the results, and the others the slots of the pane and the editor. A
request whose `known` is FALSE has been forgotten by the controller
(`m_pendingFs` cleared), so its result is skipped.

**`TerminalStream`** is `appendBytes` with the filter of control sequences and
`clear`. `EndOf` is the scan of `sanitiseTerminalChunk`, which looks ahead in
what it has; `Parsed`, the reference, is a state machine that reads one
character after the other and never sees a chunk.

Where the models allow more than the code: a session reports and answers when it
likes within its promise; the user may call any slot at any time; in `UiSession`
a change of files may be followed by zero, one or two listings, and `OpenFails`
stands for a null pointer from `rscore_session_create` (an allocation or argument
failure); in `Workspace` a failed request may have done part of its work.
`ExecFails` is every way a command ends without output: no connection, a channel
that does not open, a request that is refused, a timeout.

What the models take for granted of the outside. `SftpFiles`: the server's
rename semantics; links name their targets in full, and a link to a link leads
nowhere; others write, remove and replace what is at a path but do not rename it, and
what they write holds nothing below it; one reading of a file is one step.
`RusshProvider`: the SSH library carries out what it is asked, a server presents one
key per handshake; names and patterns of `~/.ssh/config` are compared exactly, where
the code folds ASCII case (`russh.rs:573`).
`Workspace`: one session, whose ids are not 0; the states Connecting and
Disconnecting are merged with their neighbours; the open and the overwrite
dialogs are the user's choice; which document is active is left out, since any
can be made active at any time; a switch of servers belongs to `UiSession`.
`TerminalStream`: bytes are decoded already, and no notice of the program is
inserted.

The `MC` modules hold the sets, the symmetry and the trees of the runs; the
`Proofs` modules hold the proofs.

## 3. Runs

| Run | Checks | Shows |
|---|---|---|
| `driver` | `TypeOK`, `NoRequestLost`, `ConnectedHasTransport`, `GateAnswerable`, `CredentialsApplied`, `ImplementsLifecycle`, `CancelEndsOperation`, `RequestsAnswered`, `DriverEndsOrPrompts` | under every interleaving of calls, cancellation, prompts, reader events and teardown the session keeps its promise; a cancel that met an operation ends it, requests are answered, and after teardown the driver ends or is parked on a prompt |
| `teardown` | `TypeOK`, `NoCallbackAfterReturn`, `CallbacksSerial`, `DestroyReturns` | no callback after destroy, no two of one channel at once, no deadlock of slot and emitter mutexes |
| `russh_provider` | `TypeOK`, `TrustedServer`, `ExplicitKeyIsFinal`, `PasswordComesLast`, `AcceptedMeansLast`, `HonestReason`, `DiscoveryAgrees`, `OutputAgrees`, `AttemptEnds` | whom an attempt trusts, what it tries and in which order, what it says of its failure, and that it ends although the handshake of an earlier attempt goes on asking, if the server presents its key and answers and the user answers |
| `remote_files` | `TypeOK`, `OnlyNamedPathsChange`, `OkMeansEffect`, `FailureIsContained`, `RemovedIsGone`, `MockAgrees` | file operations stay within the paths they name as long as nobody else makes or removes a link, do what they answer, and leave no more than a part of it when they fail, at any request |
| `ui_session` | `TypeOK`, `BoundServer`, `AgreesWhenQuiet`, `PendingIsOwed`, `BusyIsPending`, `RemovalSparesOthers` | indices, rows and states agree through every edit of the list and every change of session, no request waits in vain and no pane stays busy, although stale batches arrive |
| `workspace` | `TypeOK`, `WaitersAreOwed`, `DisconnectedIsBare`, `TreeAgrees`, `ModifiedSurvives` | no directory and no document waits for an answer that will not come, nothing outlives the connection but unsaved text, the tree shows what the server has, unsaved text survives every answer but that of an opening of its own path |
| `terminal` | `CutsDontShow` | the text is that of the output without its cuts |
| `driver_stale_event` | `DisconnectedIsClosed`, violated | finding 1 |
| `driver_outlives_destroy` | `TeardownEndsDriver`, violated | finding 2 |
| `ui_phantom_status` | `NoPhantomConnection`, violated | finding 3 |
| `ui_stale_result` | `ResultOfItsCall`, violated | finding 4 |
| `workspace_lost_edit` | `UnsavedIsMarked`, violated | finding 5 |

Every property of a passing run has a mutant of the model, a plausible bug in
the code, that violates it (`PROJECT.json`, "mutants"; the mutated operators are
marked `(mutant)` or `Mutant:` in the modules).

Bounds.
- `driver`: two attempts, since every hazard of stale readers, prompts and file
  providers is between one attempt and a later one; two queued commands, so that
  a credential, a connect and a request can wait behind each other while one is
  executed; two requests, so that order matters. One credential in the command
  set, because both take the same path.
- `teardown`: a driver and two askers, so that two tasks of the same kind compete,
  and two registrations per slot, so that one replaces another under a callback.
- `russh_provider`: two attempts, so that one handshake overlaps another; three
  host keys, two of one algorithm and one of another, as the check treats these
  differently; a disk with a locked, a plain and a missing key and one with none, one file
  under a default name that the directory may or may not hold;
  blocks with up to two patterns, negated or not.
- `remote_files`: paths of three names, so that a delete recurses twice; two calls,
  so that one begins in what another left; one change by others, of any kind at any
  path that calls name, which may fall between any two requests: a file or a whole
  directory may become a file, an empty directory or a link, or go. One path (`Aim`),
  a directory in some of the trees, is what links made by others lead to; three trees,
  with and without links to files and to directories.
- `ui_session`: two rows, so that the row before or after the session's can go;
  three keys, so that a row can be edited while both exist and get a key no row
  has; two sessions, so that batches of the first meet the second; two batches in
  the queue and two requests, so that a stale result meets a pending request of
  the same id with another result behind it. `Keys` is symmetric: nothing
  distinguishes one key from another, and the run has no liveness property.
- `workspace`: five moves of the user or of a connection that breaks: connecting
  is one, and opening, typing, saving and deleting the same file are four. Follow-up
  requests of the program are not bounded; `MaxLength` only says how much may be
  under way when the user asks for something more.
- `workspace_lost_edit`: six moves and a home with one file, which is what its trace
  takes.
- `terminal`: outputs of five characters, which is enough for a command sequence
  with its two-character terminator after text, and for a sequence longer than
  the limit of four; one character of each kind the code treats in its own way.

`CHECK_DEADLOCK FALSE` stands where the system stops: a destroyed session, and
bounded calls, attempts, moves or output. The run of `UiSession` checks for
deadlock: the user can always select a row or refresh the snapshot.

Fairness. `LocalFairness` of `SessionDriver` is weak fairness of the driver's own
steps and of the end of the bounded join: the Tokio runtime polls ready tasks and
fires timers. That the remote side answers (`RemoteFairness`) and that the user
answers the modal host-key dialog (`UserFairness`) are assumptions of the single
properties that need them; `CancelEndsOperation` needs neither. The run that
looks for a violation of liveness assumes all three (`FairSpec`), so the
counterexample does not depend on anyone falling silent. In `Teardown` the UI
thread's steps are strongly fair, as a mutex that is freed again and again is
granted to it in the end, and callbacks return, as they only copy and post. In
`RusshProvider` the provider's own steps are weakly fair (`LocalSteps`), and
`AttemptEnds` assumes besides that the server presents its key and answers what is
tried (`ServerAnswers`) and that the user answers what is asked (`UserAnswers`).
Neither follows from the code: `connect` (`russh.rs:218-225`) has no time limit of
its own, and a handshake with a silent server ends by a cancel only. The other
modules have safety properties only.

## 4. Proofs

All theorems hold for every value of the constants, under the assumptions named
in the modules (bounds are naturals, initial trees are well formed, the home
directory is never renamed or removed, no entry is called `.` or `..`, tasks are
distinct, `NoKey` is no key).

`SessionDriverProofs`. `IInv` is the conjunction of `TypeOK`, the four safety
invariants of the run and three facts that make them inductive: `Control` ties
`pc` to the command in execution and to the state (Connecting and Disconnecting
exist only while their operation is awaited, a connect future only while it is
run); `Numbering` says that ids are accepted as drawn while the driver runs;
`CredentialsQueued` says that what a queued connect needs is applied or queued
before it. From it follow `TypeCorrect`, `RequestsKept`, `ConnectedIsBacked`,
`PromptIsAnswerable` and `CredentialsReachConnect`, and with it the refinement
`DriverImplementsLifecycle`: every step of the driver is a step of
`SessionLifecycle` or leaves its variables unchanged.

`TeardownProofs`. `Holding` says that a task inside a callback holds the mutex of
its emitter, that the emitter is active, and that an emitter reached through a
slot is still in it; `Deactivated` says how far the teardown has come. Together:
`DestroyIsFinal`, `SerialCallbacks`, `TypeCorrect`.

`UiSessionProofs` has four separate inductive invariants. `ListInv` adds
`KeysUnique` to `BoundServer` (a row is identified by its key, which removal
needs); it gives `TypeCorrect`, `SessionBoundToRow` and, with the lemma that only
`deleteServer` shortens the list, `RemovalIsLocal`. `TaskInv` needs no more than
types and gives `BusyFlagsMirrorRequests`. `OwedInv` adds `IdsUnique`: the ids of
pending requests differ and the session held drew them, so a result, stale or
not, ends at most one request, and any other keeps the result it waits for;
it gives `PendingResultsAreOwed`. `AgreeInv` adds to
`ListInv` that the last state in the queue is the one the session held reported
last, or that there is none and the controller and the row say it already
(`Settles`): states of older sessions are all ahead of it. It gives
`QuietControllerAgrees`.

`RusshProviderProofs` has three. `TrustInv` says what each handler may have
concluded from its key (`Vetted`), that only a handler that asks is at the gate
(`Asked`), that an attempt past the handshake has a handler that trusts
(`Trusting`), and that known_hosts grows only by accepted keys (`Records1`).
`Vetted` is stated against the records of the beginning, which is why it survives
the other handlers adding theirs; it gives `OnlyTrustedServers` for any keys and
any number of overlapping handshakes. `AuthInv` says that everything tried before the last thing was rejected
without ending the attempt (`Fruitless`), and the last thing too while the
attempt goes on trying; it gives
`ExplicitKeyFailureIsFinal`, `NothingTriedAfterAcceptance` and `ReasonsAreHonest`.
`KeysInv` says which keys are tried, and in which places: those of the list found,
as they come in it, and the password after them (`PasswordIsTheLastResort`).
`TypedData` completes it to `TypeCorrect`, for which the discovery, a fold over the
lines of the configuration and a fold over a directory, must be shown to give a
list of keys (`KeysInDirTyped`, `IdentityFilesTyped`).
`DiscoveryIsTheReference` says that this list is the right one, bottom up. A
pattern matches a name exactly if the name can be cut into one piece per character
of the pattern: the table of cuts solves the recursive equation of the matcher, and
any solution is that table, by induction on what is left of pattern and name
(`PatternMatchesIs`). The verdict of a `Host` line is that of the set of its
matching patterns (`ClauseMatchesIs`). After each line, the block that applies is
that of the last `Host` line, and the files are those of the lines that name one,
at increasing places (`ReadUpTo`, `Listed`). Sieving that list and the defaults
keeps each existing file at its first mention (`Sieved`, `KeysInDirIs`).
`OutputIsWhatCame` is about the fold over the messages of a command: after each
message it has read all that came before the end of the channel (`ReadSoFar`,
`Collected`).

`WorkspaceProofs`. `IInv` has five parts: the types of what the server has, of the
pane and of the counters (`ServerFits`, `PaneFits`, `CountersFit`); that the answers
in `queue` fit what was asked and the answered part ends before the unanswered one
begins, and that every directory that loads and every document that is read or saved
has a request in the queue the controller still knows (`WaitersFit`); and what holds
without a connection (`AloneFits`). An answer names its document by its path
only and serves the first of that path, so `WaitersFit` must carry which one that
is: a document that loads has its path for itself (`LoadsAt`), one that saves is
the first of its path (`SavesAt`). From it follow `TypeCorrect`, `NobodyWaitsInVain` and
`BareWhenDisconnected`. `ModifiedTextSurvives` follows handler by handler from
what each does to the list of documents. `TreeShowsServer` has an invariant of its own, `TreeInv`,
which says of every directory not in `unseen` how far the pane may be behind. If the
server has the directory, then either a listing of it is still to be made
(`WillHear`), or the last listing that was made tells what the server has in it
(`Tells`), or none is on its way and the pane shows it (`Shows`); if the server does
not have it, no listing of it is on its way and the pane does not show it. Three
things keep this true. Every mutation lists again the directories it changes (in
`Fits`, and `Follows` for the tree itself), so a change can only overtake a listing
that another one comes after. Listings are answered in the order they were asked
for. And what the controller forgets when a connection ends is ahead of what it asks
for afterwards (`Remembered`). The pane itself changes by one listing, by a removal
or by a move at a time, and `ListedKeeps` and its companions say which directories
keep what they show. TLC checked `TreeInv` on the `workspace` run before it was
proved. All of these theorems hold for any tree, any number of documents and
requests, and any order in which user, driver and answers come.

`FileProviderProofs`. `IInv` says that the server has a tree (`Values`), where the
operation that runs can be (`Running`), which file it holds open (`Holding`), and how
far it has come if nobody disturbed it (`Progress`, `Copied`): the tree is the one it
began with, or that tree with something written into the one file it names, or that
tree with some of what lies below the path to be removed gone. The difficulty is that
a path leads through links, and every change may make it lead elsewhere. `Follow` is
the last step of the one walk of a path (`FollowWalks`), so a request on an entry
leads to the entry's name below what the directory's path leads to (`FollowEntry`).
Requests that make or remove no link leave every path where it was
(`SameLinksLead`); removing a link makes the paths through it lead nowhere, and the
others stay (`UnlinkedLasts`). `Activations` says of the activations of a delete that
each works on an entry of what the next one works on, and `AllDescended` that this was
seen to be no link, so that all of them are at or below the path of the call
(`ActivationsBelow`). This is why a delete stays there, and it holds again after each
removal (`DescendedLasts`) and after each change by others that makes and removes no
link (`LinksTell`). It is false after a directory has become a link, so `IInv` says it
only while `steady`, and `NothingElseChanges` is stated under that condition; the
other theorems do not need it. From
`IInv` follow `TypeCorrect`, `NothingElseChanges`, `OkIsTheEffect`,
`FailureStaysContained` and `DeletedPathsAreGone`, for any tree with any links, any
calls and any changes by others. `MockStandsIn` rests on `OkIsTheEffect`: where there
are no links a path names itself (`PathsAreDirect`), so what remains is that the
directories and the files of the tree after an operation are what the mock makes of
those before it (`MockWrites`, `MockRemoves`, `MockMovesFile`, `MockMovesDir`), and
that a delete which is not recursive has found the directory empty, as the mock
demands (`Plain`). TLC checked `IInv` on the trees of `remote_files` before it was
proved.

`TerminalStreamProofs`. The code looks ahead for the end of a control sequence
(`EndOf`, `Sanitise`), the reference reads one character after the other and has
eight states (`Parsed`). `EndOfCases` and `ControlSkips` show that a scan passes
over exactly what leaves the reader where text begins again, or, if it finds no
end, over nothing that the reader shows; `SanitiseStrips` extends this from the end
of the chunk to its beginning. So `IInv` can say that whatever is held back begins
at a place of the output where text begins and after which nothing is shown
(`Holds`), and a chunk put after it is read like the output itself (`ChunkTaken`).
For what is typed, `TypedTogether` says that typing two pieces one after the other is
typing the whole, unless the second reaches back into the first (a backspace that
meets its beginning, a line break that lies across), which is what `Seam` says;
`LastOfTogether` says that cutting to the limit early makes no difference.
`CutsNeverShow` follows for any output, any limits and any chunks. `IInv` was checked
with TLC on outputs of four characters before it was proved.

`DataLemmas` has what these proofs keep needing: selecting from, cutting and
growing sequences and putting them together, folds, and trees (writing an entry,
removing or moving what lies at or below one). The induction theorems of the library take an
operator as a parameter; the lemmas here take a *set* instead, of numbers
(`NatSetInduction`, from the well-foundedness of the order on Nat) or of sequences
(`SequenceInduction`), which is enough
for facts about the elements of a sequence, the steps of a fold or the walk of a path. A fold is
unrolled once (`IterExists`) and its steps numbered (`FoldRun`); `Ranking` does the
same for a fold over a set, which takes the elements in an order of its choice.

Only model-checked:
- liveness, as temporal proofs under fairness need ENABLED, which is beyond the
  prover.

## 5. Findings

1. A reader that belongs to an abandoned or replaced attempt is not aborted and
   shares the provider channel; its end makes the driver report the living
   connection as Disconnected or Failed (`session.rs:514`).
2. A cancel between the dequeuing of Connect and `cancel.notified()` is lost, the
   one of `shutdown_and_join` included. A driver that then prompts for the host
   key waits on a sender its own provider keeps alive, and never ends
   (`session.rs:331`).
3. After a switch of servers the row of the first keeps saying Connected
   (`AppController.cpp:450`).
4. A result posted by a destroyed session ends the request with the same id of
   the next session (`AppController.cpp:984`).
5. A file is deleted and, before the answer, its modified document saved. The
   answer of the delete clears the saving mark (`CodeEditorPane.qml:315-327`), which
   alone kept the text area disabled (`CodeEditorPane.qml:911`), and the user types on.
   Then the save, which has made the file anew, is answered: `onSaveSucceeded` takes
   the text on the screen for what was saved, and the document closes without a
   question (`CodeEditorPane.qml:1114`). The same loss by another way is left out of
   the model: a completion chosen with the mouse from a popup that is open while the
   document saves (`acceptCompletion`, `CodeEditorPane.qml:539-550`).

Findings 1 and 2 are traces of `SessionDriver`, 3 and 4 of `UiSession`, 5 of
`Workspace`; the documents and comments they contradict are quoted in
`PROJECT.json`.

What is known not to hold besides, and costs too little for a run of its own, is
among the hazards, and the properties name the histories that leave it out: a
listing of the home path is dropped while the root shows nothing, and nothing is
listed again after an error (`unseen` in `Workspace`); a document renamed while
it is read or saved is not found by the answer (`moved`); a file closed while it
loads and opened again is asked for twice, and the second answer puts the text of the
server over what was typed after the first (`upsertLoadedDocument`,
`CodeEditorPane.qml:253-264`), as does an answer to a path that a modified document
has been renamed to (`ModifiedSurvives` leaves out the answer of an opening of the
document's own path); a directory that somebody replaces by a link between
`symlink_metadata` (`russh.rs:791`) and `read_dir` (`russh.rs:799`) of a recursive
delete is read through the link, and the entries behind it are deleted
(`OnlyNamedPathsChange` is conditional on `steady`); `docs/architecture.md:124` says
that the C callback is "invoked serially per session (from the driver task)", but the
host-key gate calls it from a task of the SSH library, and an event may overlap a file
result (`CallbacksSerial` is about one channel); a completed cut clears
the clipboard whatever it holds; CR LF and backspaces across a cut, and control
sequences over the limit, show in the terminal (`seam`, `givenUp`); two servers
on one endpoint share a secret; a port above 65535 wraps.

## 6. Not modelled

Conversion of arguments and results to C structs, parsing of probe output,
highlighting, layout, settings, texts, sizes, times and modes of files: no
control state. The simulated shell of the mock: demonstration data. The decoding
of UTF-8 across chunks (`QStringDecoder`) and the credential store of the
operating system are external; the store is read and written within single slots
of the controller. The markers of a resource snapshot are a flag in `UiSession`
that may drop early. Starvation by a client that never stops sending, and the
unbounded `provider.disconnect()` outside teardown, are hazards without a
property.

## 7. Plan

- A refinement between the attempt of `RusshProvider` and the phases of the connect
  future in `SessionDriver`, which now rests on both being read from the same
  lines.
- The safety half of `AttemptEnds`, `CancelEndsOperation` and `DestroyReturns`: a
  measure that every step of an attempt, of a cancelled operation or of the teardown
  decreases, so that only the fairness of the tasks is left to the model checker.
