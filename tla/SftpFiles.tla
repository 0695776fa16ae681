------------------------------ MODULE SftpFiles -----------------------------
(***************************************************************************)
(* The file operations of the SFTP provider                                *)
(* (rust-core/src/providers/russh.rs, SftpFileProvider) against a server   *)
(* whose files the shell of the same session, or anyone else, may change   *)
(* between two requests.  One action is one request of the provider with   *)
(* its answer.  Any request may instead be refused, lost with the          *)
(* connection, or cut off because the driver drops the operation: the      *)
(* operation then ends with what it has done so far (CutOff).              *)
(***************************************************************************)
EXTENDS FileTree

CONSTANTS Target,        \* bound: the paths that calls name
          Aim,           \* bound: the paths that links made by others lead to
          InitialTrees,  \* the trees a session may find
          MaxCalls,      \* bound: calls of the session
          MaxEdits       \* bound: changes made by others

ASSUME BoundsAssumption == MaxCalls \in Nat /\ MaxEdits \in Nat
ASSUME TreesAssumption == \A t \in InitialTrees : IsTree(t)
ASSUME TargetAssumption == Target \subseteq Path \ {<<>>}
ASSUME AimAssumption == Aim \subseteq Path
ASSUME EntryNamesAssumption == {Dot, DotDot} \cap Name = {}

(***************************************************************************)
(* The calls of the trait FileProvider (rust-core/src/fs.rs).              *)
(***************************************************************************)
Looks == [op : {"list", "stat", "read"}, path : Target \cup {<<>>}]
Mkdirs == [op : {"mkdir"}, path : Target]
Writes == [op : {"write"}, path : Target, data : Data]
Removes == [op : {"remove"}, path : Target, recursive : BOOLEAN]
Transfers == [op : {"rename", "copy"}, path : Target, to : Target]
Calls == Looks \cup Mkdirs \cup Writes \cup Removes \cup Transfers

VARIABLES tree,    \* the server's files
          call,    \* the operation that runs
          stack,   \* its activations, innermost first: remove calls itself
          handle,  \* the file it holds open for writing, if it still has a name
          buffer,  \* what copy has read
          answer,  \* the last operation answered, and how
          before,  \* history: the tree when the operation began
          quiet,   \* history: nobody else has changed the tree since
          steady,  \* history: nobody else has made or removed a link since
          calls, edits

vars == <<tree, call, stack, handle, buffer, answer, before, quiet, steady, calls, edits>>
history == <<before, calls>>

Idle == [op |-> "none"]

Requests == {"readdir", "stat", "open", "mkdir", "rename", "create", "write",
             "lstat", "each", "rmdir", "unlink"}

\* The request an operation begins with.
First(c) == CASE c.op = "list" -> "readdir" [] c.op = "stat" -> "stat"
              [] c.op \in {"read", "copy"} -> "open"
              [] c.op = "write" -> "create" [] c.op = "mkdir" -> "mkdir"
              [] c.op = "rename" -> "rename" [] c.op = "remove" -> "lstat"

Frame(p, at) == [path |-> p, at |-> at, todo |-> {}]
Top == Head(stack)
At(r) == stack # <<>> /\ Top.at = r
Goto(r, todo) ==
  stack' = <<[Top EXCEPT !.at = r, !.todo = todo]>> \o Tail(stack)

(***************************************************************************)
(* The server: what a path names.  A link is followed inside a path, and   *)
(* at its end where the request follows links; it points to a path that    *)
(* has none.                                                               *)
(***************************************************************************)
Step(d, n) == IF n = Dot THEN d ELSE IF n = DotDot THEN Parent(d) ELSE Append(d, n)
Deref(t, p) == IF p \in DOMAIN t /\ t[p].kind = "link" THEN t[p].to ELSE p

Follow(t, p) ==
  LET at[i \in 0..Len(p)] ==
        IF i = 0 THEN <<>> ELSE Deref(t, Step(at[i - 1], p[i]))
  IN  at[Len(p)]

Locate(t, p) == IF p = <<>> THEN p ELSE Step(Follow(t, Front(p)), Last(p))

\* The names a directory is read as, with the two that name no entry.
Names(t, d) == {Last(p) : p \in Children(t, d)} \cup {Dot, DotDot}

\* map_meta_kind: a link before a directory before a file.
Kind(t, p) == t[p].kind

(***************************************************************************)
(* Types and initial states                                                *)
(***************************************************************************)
TypeOK ==
  /\ IsTree(tree)
  /\ call \in Calls \cup {Idle}
  /\ call = Idle <=> stack = <<>>
  /\ \A i \in DOMAIN stack : /\ stack[i].at \in Requests
                             /\ i > 1 => stack[i].at = "each"
                             /\ stack[i].todo \subseteq Name
  /\ handle \subseteq Path
  /\ buffer \in Content
  /\ quiet \in BOOLEAN /\ steady \in BOOLEAN
  /\ calls \in 0..MaxCalls /\ edits \in 0..MaxEdits

Init ==
  /\ tree \in InitialTrees
  /\ call = Idle /\ stack = <<>>
  /\ handle = {} /\ buffer = Empty
  /\ answer = [call |-> Idle, ok |-> FALSE, result |-> Nothing]
  /\ before = tree /\ quiet = TRUE /\ steady = TRUE
  /\ calls = 0 /\ edits = 0

(***************************************************************************)
(* The session's driver starts an operation, and drops it when it ends.    *)
(***************************************************************************)
Call(c) ==
  /\ call = Idle /\ calls < MaxCalls
  /\ call' = c
  /\ stack' = <<Frame(c.path, First(c))>>
  /\ handle' = {} /\ buffer' = Empty
  /\ before' = tree /\ quiet' = TRUE /\ steady' = TRUE
  /\ calls' = calls + 1
  /\ UNCHANGED <<tree, answer, edits>>

Answer(ok, result) ==
  /\ call' = Idle /\ stack' = <<>>
  /\ answer' = [call |-> call, ok |-> ok, result |-> result]

CutOff ==
  /\ call # Idle
  /\ Answer(FALSE, Nothing)
  /\ UNCHANGED <<tree, handle, buffer, quiet, steady, edits, history>>

\* What is common to the requests: only the session's own operation moves.
Request(r) == At(r) /\ UNCHANGED <<quiet, steady, edits, history>>
Reading == UNCHANGED <<tree, handle>>

(***************************************************************************)
(* Looking                                                                 *)
(***************************************************************************)
\* The attributes of a listing are those of the entries themselves.
ListDir ==
  LET d == Follow(tree, Top.path) IN
  /\ Request("readdir") /\ call.op = "list"
  /\ DirAt(tree, d)
  /\ Answer(TRUE, {Entry(Append(d, n), Kind(tree, Append(d, n))) :
                     n \in Names(tree, d) \ {Dot, DotDot}})
  /\ Reading /\ UNCHANGED buffer

Stat ==
  LET p == Follow(tree, Top.path) IN
  /\ Request("stat")
  /\ p \in DOMAIN tree
  /\ Answer(TRUE, {Entry(Top.path, Kind(tree, p))})
  /\ Reading /\ UNCHANGED buffer

ReadFile ==
  LET p == Follow(tree, Top.path) IN
  /\ Request("open")
  /\ FileAt(tree, p)
  /\ buffer' = tree[p].data
  /\ IF call.op = "read" THEN Answer(TRUE, tree[p].data)
                         ELSE Goto("create", {}) /\ UNCHANGED <<call, answer>>
  /\ Reading

(***************************************************************************)
(* Writing a file: created empty or truncated, then filled.  The server    *)
(* goes on writing into a file that has lost its name.                     *)
(***************************************************************************)
Destination == Follow(tree, IF call.op = "copy" THEN call.to ELSE call.path)
Payload == IF call.op = "copy" THEN buffer ELSE call.data

Filled(d) ==
  tree' = [p \in DOMAIN tree |-> IF p \in handle THEN File(d) ELSE tree[p]]

CreateFile ==
  LET p == Destination IN
  /\ Request("create")
  /\ FileAt(tree, p) \/ (p \in Path \ DOMAIN tree /\ DirAt(tree, Parent(p)))
  /\ tree' = Put(tree, p, File(Empty))
  /\ handle' = {p}
  /\ Goto("write", {})
  /\ UNCHANGED <<call, answer, buffer>>

\* Mutant: write instead of write_all.
WriteSomeEnds ==
  /\ Request("write")
  /\ Filled(Torn)
  /\ Answer(TRUE, Nothing)
  /\ UNCHANGED <<handle, buffer>>

WriteSome ==
  /\ Request("write")
  /\ Filled(Torn)
  /\ UNCHANGED <<call, stack, answer, handle, buffer>>

WriteRest ==
  /\ Request("write")
  /\ Filled(Payload)
  /\ Answer(TRUE, Nothing)
  /\ UNCHANGED <<handle, buffer>>

(***************************************************************************)
(* Single requests                                                         *)
(***************************************************************************)
MakeDir ==
  LET p == Locate(tree, Top.path) IN
  /\ Request("mkdir")
  /\ p \in Path \ DOMAIN tree /\ DirAt(tree, Parent(p))
  /\ tree' = Put(tree, p, Dir)
  /\ Answer(TRUE, Nothing)
  /\ UNCHANGED <<handle, buffer>>

\* Mutant: a target that stands in the way is removed first.
RenamePathClears ==
  LET from == Locate(tree, Top.path)
      to   == Locate(tree, call.to)
  IN
  /\ Request("rename")
  /\ from \in DOMAIN tree /\ DirAt(tree, Parent(to)) /\ ~IsPrefix(from, to)
  /\ IF to \in DOMAIN tree
     THEN /\ tree[to] # Dir
          /\ tree' = Without(tree, {to})
          /\ UNCHANGED <<call, stack, answer>>
     ELSE /\ Rebased(DOMAIN tree, from, to) \subseteq Path
          /\ tree' = Moved(tree, from, to)
          /\ Answer(TRUE, Nothing)
  /\ UNCHANGED <<handle, buffer>>

\* A server may replace a target that is no directory, and refuses the rest.
RenamePath ==
  LET from == Locate(tree, Top.path)
      to   == Locate(tree, call.to)
  IN
  /\ Request("rename")
  /\ from \in DOMAIN tree /\ DirAt(tree, Parent(to))
  /\ \/ from = to
     \/ to \notin DOMAIN tree /\ ~IsPrefix(from, to)
     \/ to \in DOMAIN tree /\ tree[to] # Dir /\ tree[from] # Dir
  /\ Rebased(DOMAIN tree, from, to) \subseteq Path
  /\ tree' = Moved(tree, from, to)
  /\ Answer(TRUE, Nothing)
  /\ UNCHANGED <<handle, buffer>>

(***************************************************************************)
(* Removing, which calls itself for the entries of a directory             *)
(***************************************************************************)
Return ==
  IF Len(stack) = 1 THEN Answer(TRUE, Nothing)
                    ELSE stack' = Tail(stack) /\ UNCHANGED <<call, answer>>

\* Mutant: metadata, which follows a link.
RemoveStatFollows ==
  LET p == Follow(tree, Top.path) IN
  /\ Request("lstat")
  /\ p \in DOMAIN tree
  /\ Goto(IF Kind(tree, p) # "dir" THEN "unlink"
          ELSE IF call.recursive THEN "readdir" ELSE "rmdir", {})
  /\ UNCHANGED <<tree, call, answer, handle, buffer>>

\* symlink_metadata: a link to a directory is no directory.
RemoveStat ==
  LET p == Locate(tree, Top.path) IN
  /\ Request("lstat")
  /\ p \in DOMAIN tree
  /\ Goto(IF Kind(tree, p) # "dir" THEN "unlink"
          ELSE IF call.recursive THEN "readdir" ELSE "rmdir", {})
  /\ UNCHANGED <<tree, call, answer, handle, buffer>>

\* Mutant: the two names that name no entry are not skipped.
RemoveListAll ==
  LET d == Follow(tree, Top.path) IN
  /\ Request("readdir") /\ call.op = "remove"
  /\ DirAt(tree, d)
  /\ Goto("each", Names(tree, d))
  /\ UNCHANGED <<tree, call, answer, handle, buffer>>

RemoveList ==
  LET d == Follow(tree, Top.path) IN
  /\ Request("readdir") /\ call.op = "remove"
  /\ DirAt(tree, d)
  /\ Goto("each", Names(tree, d) \ {Dot, DotDot})
  /\ UNCHANGED <<tree, call, answer, handle, buffer>>

RemoveNext(n) ==
  /\ Request("each") /\ n \in Top.todo
  /\ stack' = <<Frame(Append(Top.path, n), "lstat"),
                [Top EXCEPT !.todo = @ \ {n}]>> \o Tail(stack)
  /\ UNCHANGED <<tree, call, answer, handle, buffer>>

\* Mutant: that the directory could not be removed is ignored.
RemoveDirQuietly ==
  LET p == Locate(tree, Top.path) IN
  /\ Request("rmdir") \/ (Request("each") /\ Top.todo = {})
  /\ tree' = IF DirAt(tree, p) /\ Children(tree, p) = {} THEN Without(tree, {p}) ELSE tree
  /\ Return
  /\ UNCHANGED <<handle, buffer>>

RemoveDir ==
  LET p == Locate(tree, Top.path) IN
  /\ Request("rmdir") \/ (Request("each") /\ Top.todo = {})
  /\ DirAt(tree, p) /\ Children(tree, p) = {}
  /\ tree' = Without(tree, {p})
  /\ Return
  /\ UNCHANGED <<handle, buffer>>

RemoveFile ==
  LET p == Locate(tree, Top.path) IN
  /\ Request("unlink")
  /\ p \in DOMAIN tree /\ tree[p] # Dir
  /\ tree' = Without(tree, {p})
  /\ Return
  /\ UNCHANGED <<handle, buffer>>

(***************************************************************************)
(* Others change the files between two requests: they write into a file,   *)
(* remove what is at a path, or put something else there.                  *)
(***************************************************************************)
Links(t) == {<<p, t[p].to>> : p \in {q \in DOMAIN t : t[q].kind = "link"}}
Made == {Dir} \cup {File(d) : d \in Data} \cup {Link(p) : p \in Aim}

Edit(p) ==
  LET gone == Without(tree, Within(p, DOMAIN tree)) IN
  /\ edits < MaxEdits /\ edits' = edits + 1
  /\ DirAt(tree, Parent(p))
  /\ \/ /\ FileAt(tree, p)
        /\ \E d \in Data : tree' = Put(tree, p, File(d))
        /\ UNCHANGED handle
     \/ /\ tree' \in {gone} \cup {Put(gone, p, n) : n \in Made}
        /\ handle' = handle \ Within(p, handle)
  /\ quiet' = FALSE
  /\ steady' = (steady /\ Links(tree') = Links(tree))
  /\ UNCHANGED <<call, stack, buffer, answer, history>>

Look == ListDir \/ Stat \/ ReadFile
Write == CreateFile \/ WriteSome \/ WriteRest
RemovePath == RemoveStat \/ RemoveList \/ (\E n \in Name : RemoveNext(n))
            \/ RemoveDir \/ RemoveFile

Next ==
  \/ \E c \in Calls : Call(c)
  \/ Look \/ Write \/ RemovePath \/ MakeDir \/ RenamePath
  \/ CutOff
  \/ \E p \in Target : Edit(p)

Spec == Init /\ [][Next]_vars
=============================================================================
