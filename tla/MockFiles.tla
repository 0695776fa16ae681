----------------------------- MODULE MockFiles ------------------------------
(***************************************************************************)
(* The in-memory file system of the mock provider                          *)
(* (rust-core/src/providers/mock.rs): a set of directories and a map from  *)
(* file paths to contents, with no check that the two agree or that a      *)
(* parent exists.  Each operation runs without giving way, so it is one    *)
(* operator from the file system to the outcome.                           *)
(***************************************************************************)
EXTENDS FileTree

Outcome(ok, fs, result) == [ok |-> ok, fs |-> fs, result |-> result]
Done(fs) == Outcome(TRUE, fs, Nothing)
NotFound(fs) == Outcome(FALSE, fs, Nothing)

Held(fs) == fs.dirs \cup DOMAIN fs.files
MockKind(fs, p) == IF p \in fs.dirs THEN "dir" ELSE "file"

MockList(fs, d) ==
  IF d \in fs.dirs
  THEN Outcome(TRUE, fs, {Entry(p, MockKind(fs, p)) :
                            p \in {q \in Held(fs) : q # <<>> /\ Front(q) = d}})
  ELSE NotFound(fs)

MockStat(fs, p) ==
  IF p \in Held(fs)
  THEN Outcome(TRUE, fs, {Entry(p, MockKind(fs, p))})
  ELSE NotFound(fs)

MockRead(fs, p) ==
  IF p \in DOMAIN fs.files THEN Outcome(TRUE, fs, fs.files[p]) ELSE NotFound(fs)

\* Neither the parent nor a directory of the same path is looked at.
MockWrite(fs, p, d) == Done([fs EXCEPT !.files = Put(@, p, d)])
MockMkdir(fs, p) == Done([fs EXCEPT !.dirs = @ \cup {p}])

MockMoveFile(fs, from, to) ==
  Done([fs EXCEPT !.files = Put(Without(@, {from}), to, @[from])])

\* Mutant: the files below a directory stay behind.
MockRenameDirOnly(fs, from, to) ==
  IF from \in DOMAIN fs.files THEN MockMoveFile(fs, from, to)
  ELSE IF from \notin fs.dirs THEN NotFound(fs)
  ELSE Done([fs EXCEPT !.dirs = (@ \ Within(from, @)) \cup Rebased(@, from, to)])

\* A file below from wins over one that is there under its new name.
MockRename(fs, from, to) ==
  IF from \in DOMAIN fs.files THEN MockMoveFile(fs, from, to)
  ELSE IF from \notin fs.dirs THEN NotFound(fs)
  ELSE Done([dirs |-> (fs.dirs \ Within(from, fs.dirs))
                        \cup Rebased(fs.dirs, from, to),
             files |-> Moved(fs.files, from, to)])

MockRemove(fs, p, recursive) ==
  IF p \in DOMAIN fs.files
  THEN Done([fs EXCEPT !.files = Without(@, {p})])
  ELSE IF p \notin fs.dirs \/ (Within(p, Held(fs)) # {p} /\ ~recursive)
  THEN NotFound(fs)
  ELSE Done([dirs |-> fs.dirs \ Within(p, fs.dirs),
             files |-> Without(fs.files, Within(p, DOMAIN fs.files))])

MockCopy(fs, from, to) ==
  LET copied == Rebased(DOMAIN fs.files, from, to) IN
  IF from \in DOMAIN fs.files
  THEN Done([fs EXCEPT !.files = Put(@, to, @[from])])
  ELSE IF from \notin fs.dirs THEN NotFound(fs)
  ELSE Done([dirs |-> fs.dirs \cup Rebased(fs.dirs, from, to),
             files |-> [p \in copied \cup DOMAIN fs.files |->
                          IF p \in copied THEN fs.files[Rebase(p, to, from)]
                                          ELSE fs.files[p]]])

\* run_fs_op over the mock.
MockRun(fs, c) ==
  CASE c.op = "list"   -> MockList(fs, c.path)
    [] c.op = "stat"   -> MockStat(fs, c.path)
    [] c.op = "read"   -> MockRead(fs, c.path)
    [] c.op = "write"  -> MockWrite(fs, c.path, c.data)
    [] c.op = "mkdir"  -> MockMkdir(fs, c.path)
    [] c.op = "rename" -> MockRename(fs, c.path, c.to)
    [] c.op = "remove" -> MockRemove(fs, c.path, c.recursive)
    [] c.op = "copy"   -> MockCopy(fs, c.path, c.to)

\* The mock's file system that holds the tree t, which has no links.
AsMock(t) ==
  [dirs |-> {p \in DOMAIN t : t[p].kind = "dir"},
   files |-> [p \in {q \in DOMAIN t : t[q].kind = "file"} |-> t[p].data]]
=============================================================================
