----------------------------- MODULE MCWorkspace ----------------------------
EXTENDS Workspace

\* A directory with a file in it, and a file beside it.
MCTree == (Home :> Dir) @@ (<<"a">> :> Dir) @@ (<<"a", "b">> :> File("old"))
            @@ (<<"b">> :> File("old"))
\* One file in the home directory.
MCFile == (Home :> Dir) @@ (<<"b">> :> File("old"))
MCTyped == <<"new", "newer">>
=============================================================================
