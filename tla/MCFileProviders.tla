-------------------------- MODULE MCFileProviders ---------------------------
EXTENDS FileProviders

Root == <<>>

\* A directory with a subdirectory, and a file beside it.
Nested == (Root :> Dir) @@ (<<"a">> :> Dir) @@ (<<"a", "a">> :> Dir)
            @@ (<<"a", "b">> :> File("old")) @@ (<<"b">> :> File("old"))

\* A directory that holds a link to a directory outside it.
Linked == (Root :> Dir) @@ (<<"a">> :> Dir) @@ (<<"a", "a">> :> Link(<<"b">>))
            @@ (<<"b">> :> Dir) @@ (<<"b", "b">> :> File("old"))

\* A link to a file.
Aliased == (Root :> Dir) @@ (<<"a">> :> Link(<<"b">>)) @@ (<<"b">> :> File("old"))

MCTrees == {Nested, Linked, Aliased}
MCTarget == {<<"a">>, <<"b">>, <<"a", "a">>, <<"a", "b">>, <<"b", "b">>}
MCAim == {<<"b">>}
=============================================================================
