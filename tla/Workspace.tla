------------------------------ MODULE Workspace -----------------------------
(***************************************************************************)
(* The file pane and the editor over one session                           *)
(* (app/cpp/AppController.cpp): what the user asks for becomes requests,   *)
(* which the session's driver serves in order, and whose results the UI    *)
(* thread takes in later, in the same order, with the changes of the       *)
(* connection between them.  Meanwhile the user goes on.                   *)
(***************************************************************************)
EXTENDS RemoteTree, EditorPane, FiniteSets

CONSTANTS InitialTree,   \* the server's files at first
          Typed,         \* the texts the user types, in order
          MaxMoves,      \* bound: what the user does, and connections lost
          MaxLength      \* bound: the queue, when the user asks for something

ASSUME TreeAssumption == IsTree(InitialTree)
ASSUME TypedAssumption == Typed \in Seq(Content)
ASSUME BoundsAssumption == MaxMoves \in Nat /\ MaxLength \in Nat

VARIABLES server,     \* the server's files
          alive,      \* the driver has a connection
          queue,      \* what has been asked and not taken in: answered ones first
          connected,  \* m_connectionState is Connected
          available,  \* m_fileAvailable
          nodes,      \* m_fileTree
          docs,       \* openDocuments
          ignored,    \* ignoredOpenPaths
          clipboard,  \* m_clipboardPath and m_clipboardCut
          moves, typed,
          unseen      \* history: directories no listing under way will bring up to date

vars == <<server, alive, queue, connected, available, nodes, docs, ignored,
          clipboard, moves, typed, unseen>>
remote == <<server, alive, unseen>>
pane == <<connected, available, nodes>>
editor == <<docs, ignored>>
counters == <<moves, typed>>

NoClip == [path |-> Root, cut |-> FALSE]
Pending == [kind |-> "pending"]
Error == [kind |-> "error"]
Ok == [kind |-> "ok"]
States == {"up", "down"}
Commands == {"list", "open", "save", "write", "mkdir", "rename", "remove", "copy",
             "connect", "disconnect"} \cup States

\* A request as the driver gets it, and what the controller keeps of it
\* (PendingFs) until its result comes, unless it forgets it.
Item(op, p) ==
  [op |-> op, path |-> p, to |-> Root, text |-> Empty, recursive |-> FALSE,
   refresh |-> <<>>, cut |-> FALSE, known |-> TRUE, answer |-> Pending]
List(p) == Item("list", p)
Listings(ps) == [i \in DOMAIN ps |-> List(ps[i])]
Forgotten(q) == [i \in DOMAIN q |-> [q[i] EXCEPT !.known = FALSE]]

Shown == DOMAIN nodes \ {Root}
Folders == Directories(nodes)

Answered == {i \in DOMAIN queue : queue[i].answer # Pending}
Unanswered == {i \in DOMAIN queue : queue[i].answer = Pending}
Owed(op, p) ==
  \E i \in DOMAIN queue : queue[i].known /\ queue[i].op = op /\ queue[i].path = p

(***************************************************************************)
(* Types and initial states                                                *)
(***************************************************************************)
Place == Seq(Name) \cup {Root}
Answers == {Pending, Error, Ok}
           \cup [kind : {"listing"}, entries : SUBSET [path : Path, kind : {"dir", "file", "link"}]]
           \cup [kind : {"content"}, text : Content]
Requests == [op : Commands, path : Place, to : Place, text : Content, recursive : BOOLEAN,
             refresh : Seq(Place), cut : BOOLEAN, known : BOOLEAN, answer : Answers]

TypeOK ==
  /\ IsTree(server)
  /\ alive \in BOOLEAN /\ connected \in BOOLEAN /\ available \in BOOLEAN
  /\ queue \in Seq(Requests)
  /\ \A i \in Answered, j \in Unanswered : i < j
  /\ nodes \in [DOMAIN nodes -> TreeNode]
  /\ DOMAIN nodes \subseteq (Path \ {Home}) \cup {Root} /\ Root \in DOMAIN nodes
  /\ \A n \in Shown : Front(n) = Home \/ Front(n) \in DOMAIN nodes
  /\ docs \in Seq(Document) /\ ignored \subseteq Seq(Name)
  /\ clipboard \in {NoClip} \cup [path : Path \ {Home}, cut : BOOLEAN]
  /\ moves \in 0..MaxMoves /\ typed \in 0..Len(Typed)
  /\ unseen \subseteq Seq(Name)

Init ==
  /\ server = InitialTree /\ alive = FALSE
  /\ queue = <<>>
  /\ connected = FALSE /\ available = FALSE
  /\ nodes = Cleared
  /\ docs = <<>> /\ ignored = {}
  /\ clipboard = NoClip
  /\ moves = 0 /\ typed = 0
  /\ unseen = {}

(***************************************************************************)
(* The connection                                                          *)
(***************************************************************************)
Move == moves < MaxMoves /\ moves' = moves + 1

Connect ==
  /\ ~connected /\ Move
  /\ queue' = Append(queue, Item("connect", Root))
  /\ UNCHANGED <<remote, pane, editor, clipboard, typed>>

Disconnect ==
  /\ connected /\ Move
  /\ queue' = Append(queue, Item("disconnect", Root))
  /\ UNCHANGED <<remote, pane, editor, clipboard, typed>>

State(s) == [Item(s, Root) EXCEPT !.answer = Ok]

\* The connection breaks: told after what has been answered, before the rest.
Drop ==
  /\ alive /\ Move
  /\ alive' = FALSE
  /\ queue' = InsertAt(queue, Cardinality(Answered) + 1, State("down"))
  /\ UNCHANGED <<server, unseen, pane, editor, clipboard, typed>>

(***************************************************************************)
(* The driver serves the first request that has no answer.  A request may  *)
(* fail, also half way.  The states Connecting and Disconnecting are left  *)
(* out: in them the code refuses what is accepted here and fails later.    *)
(***************************************************************************)
Next1 == Cardinality(Answered) + 1
Request == queue[Next1]
Waiting(ops) == Unanswered # {} /\ Request.op \in ops

\* One step of the driver, with the answer it queues for the UI thread.
Reply(answer) ==
  /\ queue' = [queue EXCEPT ![Next1].answer = answer]
  /\ UNCHANGED <<alive, pane, editor, clipboard, counters>>

ServeLink ==
  /\ Waiting({"connect", "disconnect"})
  /\ \/ /\ alive = (Request.op = "connect")        \* refused, or nothing to do
        /\ queue' = RemoveAt(queue, Next1) /\ UNCHANGED alive
     \/ /\ alive # (Request.op = "connect")
        /\ alive' \in {Request.op = "connect", FALSE}
        /\ queue' = [queue EXCEPT ![Next1] = State(IF alive' THEN "up" ELSE "down")]
  /\ UNCHANGED <<server, unseen, pane, editor, clipboard, counters>>

ServeList ==
  LET d == Resolve(Request.path) IN
  /\ Waiting({"list"}) /\ alive /\ DirAt(server, d)
  /\ unseen' = unseen \ {d}
  /\ Reply([kind |-> "listing",
            entries |-> {Entry(p, server[p].kind) : p \in Children(server, d)}])
  /\ UNCHANGED server

ServeOpen ==
  /\ Waiting({"open"}) /\ alive /\ FileAt(server, Request.path)
  /\ Reply([kind |-> "content", text |-> server[Request.path].data])
  /\ UNCHANGED <<server, unseen>>

\* What stood at the paths S of the server does not any more.
Lost(S) == unseen' = unseen \cup S

Effect ==
  LET r == Request IN
  CASE r.op \in {"save", "write"} ->
         /\ r.path \in Path
         /\ FileAt(server, r.path) \/ (r.path \notin DOMAIN server /\ DirAt(server, Parent(r.path)))
         /\ server' = Put(server, r.path, File(r.text)) /\ UNCHANGED unseen
    [] r.op = "mkdir" ->
         /\ r.path \notin DOMAIN server /\ DirAt(server, Parent(r.path))
         /\ server' = Put(server, r.path, Dir) /\ UNCHANGED unseen
    [] r.op = "copy" ->
         /\ FileAt(server, r.path)
         /\ FileAt(server, r.to) \/ (r.to \notin DOMAIN server /\ DirAt(server, Parent(r.to)))
         /\ server' = Put(server, r.to, server[r.path]) /\ UNCHANGED unseen
    [] r.op = "rename" ->
         /\ r.path \in DOMAIN server /\ DirAt(server, Parent(r.to))
         /\ r.to \in DOMAIN server => server[r.to] # Dir /\ server[r.path] # Dir
         /\ r.path # r.to /\ ~IsPrefix(r.path, r.to)
         /\ Rebased(DOMAIN server, r.path, r.to) \subseteq Path
         /\ server' = Moved(server, r.path, r.to)
         /\ Lost(Within(r.path, DOMAIN server))
    [] r.op = "remove" ->
         /\ r.path \in DOMAIN server
         /\ r.recursive \/ Children(server, r.path) = {}
         /\ server' = Without(server, Within(r.path, DOMAIN server))
         /\ Lost(Within(r.path, DOMAIN server))

ServeMutation ==
  /\ Waiting({"save", "write", "mkdir", "copy", "rename", "remove"}) /\ alive
  /\ Effect
  /\ Reply(Ok)

\* A recursive delete that has removed part of what it should.
HalfRemoved ==
  /\ Request.op = "remove" /\ Request.recursive
  /\ \E S \in SUBSET (Within(Request.path, DOMAIN server) \ {Request.path}) :
       /\ S # {} /\ WellFormed(Without(server, S))
       /\ server' = Without(server, S)
       /\ Lost(S \cup {Parent(p) : p \in S})

\* A file that has been created or truncated, and not filled.
HalfWritten ==
  LET p == IF Request.op = "copy" THEN Request.to ELSE Request.path IN
  /\ Request.op \in {"save", "write", "copy"}
  /\ Request.op = "copy" => FileAt(server, Request.path)
  /\ p \in Path
  /\ FileAt(server, p) \/ (p \notin DOMAIN server /\ DirAt(server, Parent(p)))
  /\ server' = Put(server, p, File(Torn))
  /\ Lost({Parent(p)})

ServeFails ==
  /\ Waiting(Commands \ {"connect", "disconnect"})
  /\ Reply(Error)
  /\ \/ alive /\ (HalfRemoved \/ HalfWritten)
     \/ /\ UNCHANGED server
        /\ IF Request.op = "list" THEN Lost({Resolve(Request.path)}) ELSE UNCHANGED unseen

Serve == ServeLink \/ ServeList \/ ServeOpen \/ ServeMutation \/ ServeFails

(***************************************************************************)
(* The user: browsing                                                      *)
(***************************************************************************)
Submit(items) ==
  /\ connected /\ Move /\ Len(queue) <= MaxLength
  /\ queue' = queue \o items
  /\ UNCHANGED <<remote, connected, typed>>

\* fetchMore, then expandDir.
Expand(n) ==
  /\ CanFetch(nodes, n)
  /\ nodes' = [nodes EXCEPT ![n].loading = TRUE]
  /\ Submit(<<List(n)>>)
  /\ UNCHANGED <<available, editor, clipboard>>

\* clearTree, then loadRoot.
Reloading == [Cleared EXCEPT ![Root].loading = TRUE]

ReloadFiles ==
  /\ Submit(<<List(Root)>>)
  /\ available' = FALSE /\ nodes' = Reloading
  /\ UNCHANGED <<editor, clipboard>>

(***************************************************************************)
(* The user: changing files.  An overwrite that is asked about is agreed   *)
(* to.                                                                     *)
(***************************************************************************)
Mutate(item) ==
  /\ available /\ Submit(<<item>>)
  /\ UNCHANGED <<available, nodes, editor, clipboard>>

MakeDir(d, name) ==
  LET p == Append(Resolve(d), name) IN
  /\ p \in Path /\ ~ChildExists(nodes, d, name)
  /\ Mutate([Item("mkdir", p) EXCEPT !.refresh = <<d>>])

MakeFile(d, name) ==
  LET p == Append(Resolve(d), name) IN
  /\ p \in Path /\ ~ChildExists(nodes, d, name)
  /\ Mutate([Item("write", p) EXCEPT !.refresh = <<d>>])

UploadFile(d, name) ==
  LET p == Append(Resolve(d), name) IN
  /\ p \in Path
  /\ Mutate([Item("write", p) EXCEPT !.text = Torn, !.refresh = <<d>>])

RenamePath(p, name) ==
  LET to == Append(Parent(p), name) IN
  /\ to # p
  /\ Mutate([Item("rename", p) EXCEPT !.to = to, !.refresh = <<Parent(p)>>])

DeletePath(p) ==
  Mutate([Item("remove", p) EXCEPT !.recursive = nodes[p].dir, !.refresh = <<Parent(p)>>])

Clip(p, cut) ==
  /\ available /\ Move
  /\ clipboard' = [path |-> p, cut |-> cut]
  /\ UNCHANGED <<remote, queue, pane, editor, typed>>

\* Mutant: the directory a cut takes from is not listed again.
PasteRefreshesOne(d) ==
  LET from == clipboard.path
      to == Append(Resolve(d), Last(from))
      moved == [Item("rename", from) EXCEPT !.to = to, !.cut = TRUE, !.refresh = <<d>>]
  IN
  /\ clipboard # NoClip /\ to \in Path
  /\ Mutate(IF clipboard.cut THEN moved
            ELSE [Item("copy", from) EXCEPT !.to = to, !.refresh = <<d>>])

Paste(d) ==
  LET from == clipboard.path
      to == Append(Resolve(d), Last(from))
      moved == [Item("rename", from) EXCEPT !.to = to, !.cut = TRUE,
                  !.refresh = IF d = Parent(from) THEN <<d>> ELSE <<d, Parent(from)>>]
  IN
  /\ clipboard # NoClip /\ to \in Path
  /\ Mutate(IF clipboard.cut THEN moved
            ELSE [Item("copy", from) EXCEPT !.to = to, !.refresh = <<d>>])

(***************************************************************************)
(* The user: editing                                                       *)
(***************************************************************************)
RequestOpen(p) ==
  /\ available /\ At(docs, p) = {}
  /\ Submit(<<Item("open", p)>>)
  /\ docs' = Append(docs, MakeDocument(p, Empty, TRUE))
  /\ ignored' = ignored \ {p}
  /\ UNCHANGED <<available, nodes, clipboard>>

\* The text area is disabled while its document is read or saved
\* (CodeEditorPane.qml:911).
Type(i) ==
  /\ ~docs[i].loading /\ ~docs[i].saving /\ typed < Len(Typed) /\ Move
  /\ typed' = typed + 1
  /\ docs' = [docs EXCEPT ![i].text = Typed[typed'], ![i].modified = TRUE]
  /\ UNCHANGED <<remote, queue, pane, ignored, clipboard>>

\* The answer finds the first document of its path.
SaveCurrent(i) ==
  LET doc == docs[i] IN
  /\ available /\ doc.modified /\ ~doc.loading /\ ~doc.saving /\ ~doc.missing
  /\ docs' = [docs EXCEPT ![i].saving = TRUE, ![i].moved = i \notin At(docs, doc.path)]
  /\ Submit(<<[Item("save", doc.path) EXCEPT !.text = doc.text,
                 !.refresh = <<Parent(doc.path)>>]>>)
  /\ UNCHANGED <<available, nodes, ignored, clipboard>>

CloseDocument(i) ==
  /\ Move
  /\ docs' = RemoveAt(docs, i)
  /\ ignored' = Ignoring(docs, i, ignored)
  /\ UNCHANGED <<remote, queue, pane, clipboard, typed>>

(***************************************************************************)
(* The UI thread takes in the first answer                                 *)
(***************************************************************************)
Result == queue[1]
Arrived(ops) == queue # <<>> /\ Result.answer # Pending /\ Result.op \in ops
Took(more) == queue' = Tail(queue) \o more /\ UNCHANGED <<remote, counters>>

\* setConnectionState
TakeUp ==
  /\ Arrived({"up"})
  /\ connected' = TRUE /\ available' = FALSE /\ nodes' = Reloading
  /\ Took(<<List(Root)>>)
  /\ UNCHANGED <<editor, clipboard>>

\* Mutant: the requests under way are not forgotten.
TakeDownRemembers ==
  /\ Arrived({"down"})
  /\ connected' = FALSE /\ available' = FALSE /\ nodes' = Cleared
  /\ docs' = Removed(docs, Home, TRUE)
  /\ queue' = Tail(queue)
  /\ UNCHANGED <<remote, ignored, clipboard, counters>>

TakeDown ==
  /\ Arrived({"down"})
  /\ connected' = FALSE /\ available' = FALSE /\ nodes' = Cleared
  /\ docs' = Removed(docs, Home, TRUE)
  /\ queue' = Forgotten(Tail(queue))
  /\ UNCHANGED <<remote, ignored, clipboard, counters>>

\* The result of a request that is no longer known.
TakeUnknown ==
  /\ Arrived(Commands \ States) /\ ~Result.known
  /\ Took(<<>>)
  /\ UNCHANGED <<pane, editor, clipboard>>

Known(ops) == Arrived(ops) /\ Result.known
Failed == Result.answer = Error

TakeListing ==
  /\ Known({"list"})
  /\ nodes' = IF Failed THEN FailedToLoad(nodes, Result.path)
                        ELSE Listed(nodes, Result.path, Result.answer.entries)
  /\ available' = IF Result.path = Root THEN ~Failed ELSE available
  /\ queue' = Tail(queue)
  /\ unseen' = IF NodesFor(nodes, Result.path) = {} THEN unseen \cup {Result.path} ELSE unseen
  /\ UNCHANGED <<server, alive, connected, editor, clipboard, counters>>

TakeOpen ==
  /\ Known({"open"})
  /\ docs' = IF Failed THEN OpenFailed(docs, Result.path, ignored)
             ELSE Loaded(docs, Result.path, Result.answer.text, ignored)
  /\ ignored' = ignored \ {Result.path}
  /\ Took(<<>>)
  /\ UNCHANGED <<pane, clipboard>>

TakeSave ==
  /\ Known({"save"})
  /\ docs' = IF Failed THEN SaveFailed(docs, Result.path)
             ELSE SaveSucceeded(docs, Result.path, Result.text)
  /\ Took(IF Failed THEN <<>> ELSE Listings(Result.refresh))
  /\ UNCHANGED <<pane, ignored, clipboard>>

\* A cut that is done empties the clipboard, whatever it holds by then; after
\* an error nothing is listed again.
TakeMutation ==
  /\ Known({"write", "mkdir", "copy", "rename", "remove"})
  /\ docs' = CASE Failed -> docs
               [] ~Failed /\ Result.op = "remove" ->
                    Removed(docs, Result.path, Result.recursive)
               [] ~Failed /\ Result.op = "rename" -> Renamed(docs, Result.path, Result.to)
               [] OTHER -> docs
  /\ clipboard' = IF ~Failed /\ Result.cut THEN NoClip ELSE clipboard
  /\ Took(IF Failed THEN <<>> ELSE Listings(Result.refresh))
  /\ UNCHANGED <<pane, ignored>>

Take == TakeUp \/ TakeDown \/ TakeUnknown \/ TakeListing \/ TakeOpen
        \/ TakeSave \/ TakeMutation

Browse == (\E n \in DOMAIN nodes : Expand(n)) \/ ReloadFiles

Change ==
  \/ \E name \in Name :
       \/ \E d \in Folders \cup {Parent(p) : p \in Shown} :
            MakeDir(d, name) \/ MakeFile(d, name)
       \/ \E d \in Folders : UploadFile(d, name)
  \/ \E p \in Shown : \/ \E name \in Name : RenamePath(p, name)
                      \/ DeletePath(p)
                      \/ \E cut \in BOOLEAN : Clip(p, cut)
  \/ \E d \in Folders \ {Root} : Paste(d)

Edit ==
  \/ \E p \in Shown : ~nodes[p].dir /\ RequestOpen(p)
  \/ \E i \in DOMAIN docs : Type(i) \/ SaveCurrent(i) \/ CloseDocument(i)

Next == Connect \/ Disconnect \/ Drop \/ Serve \/ Browse \/ Change \/ Edit \/ Take

Spec == Init /\ [][Next]_vars

(***************************************************************************)
(* Properties                                                              *)
(***************************************************************************)
\* Whatever waits is owed an answer: a directory that loads, which refuses to
\* be fetched again, has a listing under way, and a document that loads or
\* saves a result that will find it.  A document renamed meanwhile is not
\* found (RemoteFileTreeModel::fetchMore, CodeEditorPane.qml).
WaitersAreOwed ==
  /\ \A n \in DOMAIN nodes : nodes[n].loading => Owed("list", n)
  /\ \A i \in DOMAIN docs :
       ~docs[i].moved =>
         /\ docs[i].loading => Owed("open", docs[i].path)
         /\ docs[i].saving => Owed("save", docs[i].path)

\* While not connected nothing of the remote files is shown or can be asked
\* for, no result of before is awaited, and the only documents are those with
\* unsaved changes, cut off from their files (setConnectionState).
DisconnectedIsBare ==
  ~connected =>
    /\ nodes = Cleared /\ ~available
    /\ \A i \in DOMAIN queue : queue[i].op \notin States \cup {"connect", "disconnect"} => ~queue[i].known
    /\ \A i \in DOMAIN docs :
         docs[i].modified /\ docs[i].missing /\ ~docs[i].saving /\ ~docs[i].loading

\* When nothing is under way, a loaded directory shows what the server has in
\* it, unless its last listing failed, a request failed half way, which is not
\* followed by a listing, or another directory stood there before (ingestFileResults, applyListing).
TreeAgrees ==
  (connected /\ queue = <<>>) =>
    \A n \in DOMAIN nodes :
      (nodes[n].loaded /\ DirAt(server, Resolve(n)) /\ Resolve(n) \notin unseen) =>
        /\ ShownIn(nodes, n) = Children(server, Resolve(n))
        /\ \A p \in ShownIn(nodes, n) : nodes[p].dir = DirAt(server, p)

\* Typed text that is not saved survives every answer, whether a connection
\* ends, a save fails, or the file is deleted or renamed under it
\* (handlePathRemoved, onSaveFailed); it stops being marked only by a save of
\* its path.  Left out is the answer to a reading of its own path.  A document
\* that loads cannot be typed into, so there must have been two such readings,
\* as after closing it while it loads and opening it again, or it was renamed
\* onto a path being read; then its text is lost (upsertLoadedDocument).
AnswerTo(op, doc) == Result.op = op /\ Result.path = doc.path
ModifiedSurvives ==
  [][Take =>
       \A i \in DOMAIN docs : (docs[i].modified /\ ~AnswerTo("open", docs[i])) =>
         \E j \in DOMAIN docs' :
           /\ docs'[j].text = docs[i].text
           /\ docs'[j].modified \/ AnswerTo("save", docs[i])]_vars

\* "unsaved-change prompt" (docs/file-management.md:238): a document that is
\* not marked modified, which closes without a question, holds the text that
\* was last read from its file or written into it (onSaveSucceeded).
UnsavedIsMarked ==
  \A i \in DOMAIN docs :
    (~docs[i].modified /\ ~docs[i].loading) => docs[i].text = docs[i].synced
=============================================================================
