--------------------------- MODULE FileProviders ----------------------------
(***************************************************************************)
(* What the two implementations of the FileProvider trait promise: the     *)
(* SFTP provider against a reference that does each operation in one step, *)
(* and the mock provider against the SFTP provider it stands in for.       *)
(***************************************************************************)
EXTENDS SftpFiles, MockFiles

\* The tree after an operation that nothing disturbs (the comments of the
\* trait FileProvider).
Effect(t, c) ==
  CASE c.op \in {"list", "stat", "read"} -> t
    [] c.op = "write"  -> Put(t, Follow(t, c.path), File(c.data))
    [] c.op = "mkdir"  -> Put(t, Locate(t, c.path), Dir)
    [] c.op = "copy"   -> Put(t, Follow(t, c.to), t[Follow(t, c.path)])
    [] c.op = "remove" -> Without(t, Within(Locate(t, c.path), DOMAIN t))
    [] c.op = "rename" -> Moved(t, Locate(t, c.path), Locate(t, c.to))

\* The places an operation may change.
Named(t, c) ==
  CASE c.op = "write"  -> {Follow(t, c.path)}
    [] c.op = "copy"   -> {Follow(t, c.to)}
    [] c.op = "mkdir"  -> {Locate(t, c.path)}
    [] c.op = "remove" -> Within(Locate(t, c.path), DOMAIN t)
    [] c.op = "rename" -> UNION {Within(Locate(t, p), Path) : p \in {c.path, c.to}}
    [] OTHER           -> {}

Same(t, u, p) ==
  /\ p \in DOMAIN t <=> p \in DOMAIN u
  /\ p \in DOMAIN t => t[p] = u[p]

Answered == call # Idle /\ call' = Idle
AnsweredOk == Answered /\ answer'.ok
Undisturbed == quiet /\ edits' = edits

\* As long as nobody else makes or removes a link, a step of an operation
\* changes nothing outside the paths the operation names, also when others
\* write, remove or replace files and directories meanwhile: a recursive delete
\* that meets a link to a directory leaves that directory alone
\* (russh.rs, SftpFileProvider::remove).  Without that condition it does not
\* hold: a directory that becomes a link between symlink_metadata and read_dir
\* is read through the link, and the delete goes on behind it.
OnlyNamedPathsChange ==
  [][(call # Idle /\ steady /\ edits' = edits) =>
       \A p \in (DOMAIN tree \cup DOMAIN tree') \ Named(tree, call) :
         Same(tree, tree', p)]_vars

\* An operation that answers Ok and was not disturbed has done the whole of
\* what it is for: no half-written copy, no directory left behind
\* (russh.rs, write_file, copy, remove, rename, mkdir).
OkMeansEffect ==
  [][(AnsweredOk /\ Undisturbed) => tree' = Effect(before, call)]_vars

\* An operation that fails, at whatever request, has changed nothing outside
\* what it names; a rename or mkdir nothing at all; a write or copy at most
\* the contents of its target; and a delete has only deleted, so what it left
\* still lies in directories that exist.  A copy onto another file never
\* harms its source (russh.rs, SftpFileProvider).
FailureIsContained ==
  [][(Answered /\ ~answer'.ok /\ Undisturbed) =>
       /\ WellFormed(tree')
       /\ \A p \in DOMAIN before \ Named(before, call) : Same(before, tree', p)
       /\ call.op \in {"rename", "mkdir"} => tree' = before
       /\ call.op \in {"write", "copy"} =>
            \A p \in Named(before, call) : Same(before, tree', p) \/ FileAt(tree', p)
       /\ call.op = "remove" =>
            \A p \in DOMAIN tree' : p \in DOMAIN before /\ Same(before, tree', p)]_vars

\* A delete that answers Ok has removed the path, also when others were
\* adding files below it: then it fails with "directory not empty" instead
\* (russh.rs, SftpFileProvider::remove).
RemovedIsGone ==
  [][(AnsweredOk /\ call.op = "remove") =>
       Locate(tree, call.path) \notin DOMAIN tree']_vars

\* Whatever the SFTP provider answers with Ok, the mock answers with Ok, with
\* the same result and the same files afterwards (mock.rs, MockFileProvider,
\* which stands in for a server in the demonstrations and the tests).
MockAgrees ==
  [][(AnsweredOk /\ Undisturbed /\ \A p \in DOMAIN before : before[p].kind # "link") =>
       MockRun(AsMock(before), call) = Outcome(TRUE, AsMock(tree'), answer'.result)]_vars
=============================================================================
