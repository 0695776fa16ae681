-------------------------------- MODULE Trees -------------------------------
(***************************************************************************)
(* Paths and trees, whatever their names and contents are.  A path is the  *)
(* sequence of its names below the home directory, which is <<>>: empty,   *)
(* relative and absolute spellings of one place are one path here.  A tree *)
(* maps the paths that exist to what is there.                             *)
(***************************************************************************)
EXTENDS Naturals, SequencesExt

Dir == [kind |-> "dir"]
File(d) == [kind |-> "file", data |-> d]
Link(p) == [kind |-> "link", to |-> p]

Parent(p) == IF p = <<>> THEN <<>> ELSE Front(p)
Within(d, S) == {p \in S : IsPrefix(d, p)}
Rebase(p, from, to) == to \o SubSeq(p, Len(from) + 1, Len(p))

\* The paths of S that lie at or below from, as they are below to.
Rebased(S, from, to) == {Rebase(p, from, to) : p \in Within(from, S)}

Children(t, d) == {p \in DOMAIN t : p # <<>> /\ Front(p) = d}
DirAt(t, p) == p \in DOMAIN t /\ t[p].kind = "dir"
FileAt(t, p) == p \in DOMAIN t /\ t[p].kind = "file"
Put(t, p, n) == [q \in DOMAIN t \cup {p} |-> IF q = p THEN n ELSE t[q]]
Without(t, S) == Restrict(t, DOMAIN t \ S)

\* The tree in which what is at or below from is at or below to.
Moved(t, from, to) ==
  LET moved == Rebased(DOMAIN t, from, to) IN
  [p \in moved \cup (DOMAIN t \ Within(from, DOMAIN t)) |->
     IF p \in moved THEN t[Rebase(p, to, from)] ELSE t[p]]

\* Every entry lies in a directory that exists.
WellFormed(t) == /\ DirAt(t, <<>>)
                 /\ \A p \in DOMAIN t : DirAt(t, Parent(p))

\* A tree with the nodes N at paths of P.
TreeOf(t, N, P) == t \in [DOMAIN t -> N] /\ DOMAIN t \subseteq P /\ WellFormed(t)
=============================================================================
