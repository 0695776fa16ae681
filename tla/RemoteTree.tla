----------------------------- MODULE RemoteTree -----------------------------
(***************************************************************************)
(* The tree the file pane shows (app/cpp/RemoteFileTreeModel.cpp): a       *)
(* directory is listed when it is first expanded, and again when something *)
(* in it has changed.  A value of this type maps the paths of the nodes to *)
(* the nodes.  The root has the empty path, while the paths of its         *)
(* children begin with that of the home directory: two spellings of one    *)
(* place, which the tree has to bring together.                            *)
(***************************************************************************)
EXTENDS FileTree

ASSUME NamesAssumption == "/" \notin Name

Home == <<>>
Root == <<"/">>      \* the empty path; no entry has this name
Resolve(p) == IF p = Root THEN Home ELSE p

TreeNode == [dir : BOOLEAN, loaded : BOOLEAN, loading : BOOLEAN]
Fresh(dir) == [dir |-> dir, loaded |-> FALSE, loading |-> FALSE]

Cleared == [n \in {Root} |-> Fresh(TRUE)]

ShownIn(nodes, n) == {p \in DOMAIN nodes \ {Root} : Front(p) = Resolve(n)}
Directories(nodes) == {n \in DOMAIN nodes : nodes[n].dir}

\* nodeForPath: the root answers to the home directory's path too, which it
\* takes from a child.
NodesFor(nodes, p) ==
  {n \in DOMAIN nodes : n = p \/ (n = Root /\ p = Home /\ ShownIn(nodes, Root) # {})}

CanFetch(nodes, n) == nodes[n].dir /\ ~nodes[n].loaded /\ ~nodes[n].loading

ChildExists(nodes, dir, name) ==
  \E n \in NodesFor(nodes, dir) :
    nodes[n].loaded /\ Append(Resolve(n), name) \in DOMAIN nodes

FailedToLoad(nodes, p) ==
  [n \in DOMAIN nodes |->
     IF n \in NodesFor(nodes, p) THEN [nodes[n] EXCEPT !.loading = FALSE] ELSE nodes[n]]

\* Mutant: only the children go, not what is below them.
ListedFlat(nodes, p, entries) ==
  IF NodesFor(nodes, p) = {} THEN nodes
  ELSE LET n == CHOOSE x \in NodesFor(nodes, p) : TRUE
           listed == {e.path : e \in entries}
           gone == ShownIn(nodes, n) \ listed
           isDir(q) == Entry(q, "dir") \in entries
       IN  [q \in (DOMAIN nodes \ gone) \cup listed |->
              CASE q = n -> [dir |-> nodes[n].dir, loaded |-> TRUE, loading |-> FALSE]
                [] q \in listed \ DOMAIN nodes -> Fresh(isDir(q))
                [] q \in listed \cap DOMAIN nodes -> [nodes[q] EXCEPT !.dir = isDir(q)]
                [] OTHER -> nodes[q]]

\* Children that are not listed go with all below them; those that are keep
\* what is known of them; a listing of an unknown directory is dropped.
Listed(nodes, p, entries) ==
  IF NodesFor(nodes, p) = {} THEN nodes
  ELSE LET n == CHOOSE x \in NodesFor(nodes, p) : TRUE
           listed == {e.path : e \in entries}
           gone == UNION {Within(q, DOMAIN nodes) : q \in ShownIn(nodes, n) \ listed}
           isDir(q) == Entry(q, "dir") \in entries
       IN  [q \in (DOMAIN nodes \ gone) \cup listed |->
              CASE q = n -> [dir |-> nodes[n].dir, loaded |-> TRUE, loading |-> FALSE]
                [] q \in listed \ DOMAIN nodes -> Fresh(isDir(q))
                [] q \in listed \cap DOMAIN nodes -> [nodes[q] EXCEPT !.dir = isDir(q)]
                [] OTHER -> nodes[q]]
=============================================================================
