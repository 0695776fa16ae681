------------------------------ MODULE FileTree ------------------------------
(***************************************************************************)
(* The vocabulary of the remote file operations (rust-core/src/fs.rs): the *)
(* files of a server.                                                      *)
(***************************************************************************)
EXTENDS Trees

CONSTANTS Name,      \* names of directory entries
          Data,      \* what a client writes into a file
          MaxDepth   \* bound: the longest path

ASSUME DepthAssumption == MaxDepth \in Nat

Dot == "."
DotDot == ".."
Empty == "empty"     \* a file just created or truncated
Torn == "torn"       \* a file into which part of its data has been written

Path == BoundedSeq(Name, MaxDepth)
Content == Data \cup {Empty, Torn}
Node == {Dir} \cup {File(d) : d \in Content} \cup {Link(p) : p \in Path}

IsTree(t) == TreeOf(t, Node, Path)

\* What a listing or a stat says of an entry.
Entry(p, kind) == [path |-> p, kind |-> kind]
Nothing == {}
=============================================================================
