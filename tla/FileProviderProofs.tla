------------------------- MODULE FileProviderProofs -------------------------
(***************************************************************************)
(* The file operations of the SFTP provider, whatever the tree they find,  *)
(* its links included, and whatever is cut off or done by others: the      *)
(* server keeps a tree; an operation touches what it names and no more, as *)
(* long as nobody else makes or removes a link; one that answers Ok has    *)
(* had its whole effect, and one that is cut off has had a part of it.     *)
(* The invariant says how far the operation that runs has come: where the  *)
(* activations of a delete are, and what the tree has become since it      *)
(* began.                                                                  *)
(***************************************************************************)
EXTENDS FileProviders, DataLemmas

(***************************************************************************)
(* What holds while an operation runs                                      *)
(***************************************************************************)
Removing == {"lstat", "readdir", "each", "rmdir", "unlink"}

\* The requests an operation makes.
Stages(op) ==
  CASE op = "list"  -> {"readdir"}
    [] op = "stat"  -> {"stat"}
    [] op = "read"  -> {"open"}
    [] op = "copy"  -> {"open", "create", "write"}
    [] op = "write" -> {"create", "write"}
    [] op \in {"mkdir", "rename"} -> {op}
    [] op = "remove" -> Removing

Activation == [path : Seq(Name), at : Removing, todo : SUBSET Name]

\* A delete goes from a directory to its entries, and only from a directory
\* that it has seen to be no link.
Descended(t, f) == f.at \in {"readdir", "each"} => Follow(t, f.path) = Locate(t, f.path)
AllDescended(t, s) == \A i \in 1..Len(s) : Descended(t, s[i])

Activations(s, path) ==
  /\ s \in Seq(Activation) /\ s # <<>> /\ s[Len(s)].path = path
  /\ \A i \in 1..Len(s) - 1 : /\ s[i + 1].at = "each"
                              /\ \E n \in Name : s[i].path = Append(s[i + 1].path, n)

\* The operation that runs is where such an operation can be.  What a delete
\* has seen of its directories stays true while nobody else makes a link.
Running ==
  IF call = Idle THEN stack = <<>>
  ELSE /\ call \in Calls /\ IsTree(before)
       /\ IF call.op = "remove"
          THEN Activations(stack, call.path) /\ (steady => AllDescended(tree, stack))
          ELSE \E r \in Stages(call.op) : stack = <<Frame(call.path, r)>>

\* The file held open is the one the operation writes, and is where its path
\* leads as long as nobody else makes or removes a link.
Holding ==
  /\ handle \subseteq Path /\ \A p \in handle : FileAt(tree, p)
  /\ call # Idle => IF At("write") THEN steady => handle \subseteq {Destination}
                                  ELSE handle = {}

\* u is what is left of t after some of what lies at or below r was removed.
Pruned(t, u, r) ==
  /\ DOMAIN u \subseteq DOMAIN t /\ \A p \in DOMAIN u : u[p] = t[p]
  /\ \A p \in DOMAIN t \ DOMAIN u : IsPrefix(r, p)

Into(t, c) == Follow(t, IF c.op = "copy" THEN c.to ELSE c.path)

\* What an operation that is not disturbed has done so far.
Progress ==
  call # Idle /\ quiet =>
    /\ call.op = "remove" =>
         /\ Pruned(before, tree, Locate(before, call.path))
         /\ \/ Locate(tree, call.path) = Locate(before, call.path)
            \/ Locate(tree, call.path) \notin DOMAIN tree
    /\ call.op # "remove" /\ At("write") =>
         /\ handle = {Into(before, call)} /\ ~DirAt(before, Into(before, call))
         /\ \E d \in Content : tree = Put(before, Into(before, call), File(d))
    /\ call.op # "remove" /\ ~At("write") => tree = before

\* What it copies is what the file held when it began.
Copied ==
  call.op = "copy" /\ quiet /\ ~At("open") =>
    LET p == Follow(before, call.path) IN FileAt(before, p) /\ buffer = before[p].data

\* A delete that is not recursive makes three requests, and changes something
\* with the last one only.
Plain ==
  call.op = "remove" /\ ~call.recursive =>
    /\ Len(stack) = 1 /\ Top.at \in {"lstat", "rmdir", "unlink"}
    /\ quiet => tree = before

Values ==
  /\ IsTree(tree) /\ buffer \in Content
  /\ quiet \in BOOLEAN /\ steady \in BOOLEAN /\ (quiet => steady)
  /\ calls \in 0..MaxCalls /\ edits \in 0..MaxEdits

IInv == Values /\ Running /\ Holding /\ Progress /\ Copied /\ Plain

(***************************************************************************)
(* What a path names                                                       *)
(***************************************************************************)
\* w follows the path p through the links of the tree t.
Walk(t, p, w) ==
  w = [i \in 0..Len(p) |-> IF i = 0 THEN <<>> ELSE Deref(t, Step(w[i - 1], p[i]))]

\* There is one walk of a path, and it is the walk of its front with one step
\* more.
LEMMA WalkUnique ==
  ASSUME NEW t, NEW p \in Seq(Name), NEW q \in Seq(Name), Len(q) <= Len(p),
         \A i \in 1..Len(q) : q[i] = p[i],
         NEW v, Walk(t, p, v), NEW w, Walk(t, q, w)
  PROVE  \A i \in 0..Len(q) : v[i] = w[i]
<1>1. PICK k \in Nat, l \in Nat : Len(q) = k /\ Len(p) = l /\ k <= l
  OBVIOUS
<1> DEFINE N == {n \in Nat : n <= k => v[n] = w[n]}
<1>2. 0 \in N
  BY <1>1 DEF Walk
<1>3. ASSUME NEW n \in Nat, n \in N PROVE n + 1 \in N
  <2> SUFFICES ASSUME n + 1 <= k PROVE v[n + 1] = w[n + 1]
    OBVIOUS
  <2>1. n + 1 \in 1..k /\ n + 1 - 1 = n /\ n + 1 # 0 /\ n + 1 \in 0..l /\ n + 1 \in 0..k
    BY <1>1
  <2>2. v[n + 1] = Deref(t, Step(v[n], p[n + 1])) /\ w[n + 1] = Deref(t, Step(w[n], q[n + 1]))
    BY <1>1, <2>1 DEF Walk
  <2>3. v[n] = w[n] /\ q[n + 1] = p[n + 1]
    BY <1>1, <1>3, <2>1
  <2> QED BY <2>2, <2>3
<1>4. Nat \subseteq N
  <2> HIDE DEF N
  <2> QED BY <1>2, <1>3, NatSetInduction
<1> QED BY <1>1, <1>4

LEMMA WalkOn ==
  ASSUME NEW t, NEW p \in Seq(Name), NEW n \in Name, NEW w, Walk(t, p, w)
  PROVE  \E v : Walk(t, Append(p, n), v) /\ v[Len(p) + 1] = Deref(t, Step(w[Len(p)], n))
<1> DEFINE q == Append(p, n)
<1>1. PICK l \in Nat : Len(p) = l
  OBVIOUS
<1>2. Len(q) = l + 1 /\ q[l + 1] = n /\ \A i \in 1..l : q[i] = p[i]
  BY <1>1, AppendProperties
<1> HIDE DEF q
<1> DEFINE v == [i \in 0..l + 1 |-> IF i = l + 1 THEN Deref(t, Step(w[l], n)) ELSE w[i]]
           u == [i \in 0..l + 1 |-> IF i = 0 THEN <<>> ELSE Deref(t, Step(v[i - 1], q[i]))]
<1>3. ASSUME NEW i \in 0..l + 1 PROVE v[i] = u[i]
  <2>1. CASE i = 0
    BY <1>1, <2>1 DEF Walk
  <2>2. CASE i = l + 1
    <3>1. i # 0 /\ i - 1 = l /\ l \in 0..l + 1 /\ l # l + 1
      BY <2>2
    <3> QED BY <1>2, <2>2, <3>1
  <2>3. CASE i \in 1..l
    <3>1. i # 0 /\ i - 1 \in 0..l + 1 /\ i - 1 # l + 1 /\ i # l + 1 /\ i \in 0..l
      BY <2>3
    <3>2. w[i] = Deref(t, Step(w[i - 1], p[i]))
      BY <1>1, <3>1 DEF Walk
    <3> QED BY <1>2, <2>3, <3>1, <3>2
  <2>4. i = 0 \/ i = l + 1 \/ i \in 1..l
    OBVIOUS
  <2> QED BY <2>1, <2>2, <2>3, <2>4
<1>4. v = u
  BY <1>3
<1>5. v[l + 1] = Deref(t, Step(w[l], n))
  OBVIOUS
<1> HIDE DEF v
<1>6. Walk(t, q, v)
  BY <1>2, <1>4 DEF Walk
<1> QED BY <1>1, <1>5, <1>6 DEF q

LEMMA WalkExists ==
  ASSUME NEW t
  PROVE  \A p \in Seq(Name) : \E w : Walk(t, p, w)
<1> DEFINE T == {p \in Seq(Name) : \E w : Walk(t, p, w)}
<1>1. <<>> \in T
  <2> DEFINE w == [i \in 0..0 |-> <<>>]
  <2>1. Len(<<>>) = 0 /\ <<>> \in Seq(Name)
    OBVIOUS
  <2>2. Walk(t, <<>>, w)
    BY <2>1 DEF Walk
  <2> HIDE DEF w
  <2> QED BY <2>1, <2>2
<1>2. ASSUME NEW p \in Seq(Name), NEW n \in Name, p \in T PROVE Append(p, n) \in T
  BY <1>2, WalkOn
<1>3. Seq(Name) \subseteq T
  <2> HIDE DEF T
  <2> QED BY <1>1, <1>2, SequenceInduction
<1> QED BY <1>3

LEMMA FollowWalks ==
  ASSUME NEW t, NEW p \in Seq(Name)
  PROVE  \E w : Walk(t, p, w) /\ Follow(t, p) = w[Len(p)]
<1> DEFINE w == CHOOSE w : w = [i \in 0..Len(p) |->
                              IF i = 0 THEN <<>> ELSE Deref(t, Step(w[i - 1], p[i]))]
<1>1. Follow(t, p) = w[Len(p)]
  BY Zenon DEF Follow
<1>2. \E v : v = [i \in 0..Len(p) |-> IF i = 0 THEN <<>> ELSE Deref(t, Step(v[i - 1], p[i]))]
  <2>1. PICK v : Walk(t, p, v)
    BY WalkExists
  <2> QED BY ONLY <2>1 DEF Walk
<1>3. w = [i \in 0..Len(p) |-> IF i = 0 THEN <<>> ELSE Deref(t, Step(w[i - 1], p[i]))]
  BY <1>2
<1>4. Walk(t, p, w)
  <2> HIDE DEF w
  <2> QED BY <1>3 DEF Walk
<1> HIDE DEF w
<1> QED BY <1>1, <1>4

LEMMA FollowHome ==
  ASSUME NEW t
  PROVE  Follow(t, <<>>) = <<>> /\ Locate(t, <<>>) = <<>>
<1>1. <<>> \in Seq(Name) /\ Len(<<>>) = 0 /\ 0 \in 0..0
  OBVIOUS
<1>2. PICK w : Walk(t, <<>>, w) /\ Follow(t, <<>>) = w[0]
  BY <1>1, FollowWalks
<1> QED BY <1>1, <1>2 DEF Walk, Locate

\* A request follows what its path begins with, then looks up the last name.
LEMMA FollowEntry ==
  ASSUME NEW t, NEW p \in Seq(Name), NEW n \in Name
  PROVE  /\ Locate(t, Append(p, n)) = Append(Follow(t, p), n)
         /\ Follow(t, Append(p, n)) = Deref(t, Append(Follow(t, p), n))
<1>1. \A d : Step(d, n) = Append(d, n)
  <2>1. n # Dot /\ n # DotDot
    BY EntryNamesAssumption DEF EntryNamesAssumption
  <2> QED BY <2>1 DEF Step
<1>2. Follow(t, Append(p, n)) = Deref(t, Append(Follow(t, p), n))
  <2>1. PICK w : Walk(t, p, w) /\ Follow(t, p) = w[Len(p)]
    BY FollowWalks
  <2>2. PICK v : Walk(t, Append(p, n), v) /\ v[Len(p) + 1] = Deref(t, Step(w[Len(p)], n))
    BY <2>1, WalkOn
  <2>3. Append(p, n) \in Seq(Name) /\ Len(Append(p, n)) = Len(p) + 1 /\ Len(p) \in Nat
    BY AppendProperties
  <2>4. PICK u : Walk(t, Append(p, n), u) /\ Follow(t, Append(p, n)) = u[Len(p) + 1]
    BY <2>3, FollowWalks
  <2>5. u = v
    <3> DEFINE q == Append(p, n)
    <3> HIDE DEF q
    <3>1. q \in Seq(Name) /\ Walk(t, q, u) /\ Walk(t, q, v) /\ Len(q) <= Len(q)
      BY <2>2, <2>3, <2>4 DEF q
    <3>2. \A i \in 0..Len(q) : u[i] = v[i]
      BY <3>1, WalkUnique
    <3>3. /\ u = [i \in 0..Len(q) |-> u[i]] /\ v = [i \in 0..Len(q) |-> v[i]]
      BY <3>1 DEF Walk
    <3> QED BY <3>2, <3>3
  <2> QED BY <1>1, <2>1, <2>2, <2>4, <2>5
<1>3. Locate(t, Append(p, n)) = Append(Follow(t, p), n)
  BY <1>1, FrontAppend, LastAppend DEF Locate
<1> QED BY <1>2, <1>3

LEMMA Paths ==
  /\ Path \subseteq Seq(Name)
  /\ \A p \in Seq(Name) : p \in Path <=> Len(p) <= MaxDepth
  /\ <<>> \in Path
BY BoundedPaths, DepthAssumption DEF DepthAssumption, Path

LEMMA Nodes ==
  /\ \A n \in Node : /\ n.kind \in {"dir", "file", "link"}
                     /\ n.kind = "dir" <=> n = Dir
                     /\ n.kind = "file" => n.data \in Content /\ n = File(n.data)
                     /\ n.kind = "link" => n.to \in Path
  /\ Dir \in Node /\ \A d \in Content : File(d) \in Node /\ File(d).kind = "file"
<1>1. /\ Dir.kind = "dir" /\ \A d : File(d).kind = "file" /\ File(d).data = d
      /\ \A p : Link(p).kind = "link" /\ Link(p).to = p
  BY DEF Dir, File, Link
<1>2. \A n : n \in Node <=> \/ n = Dir \/ \E d \in Content : n = File(d)
                            \/ \E p \in Path : n = Link(p)
  BY DEF Node
<1> QED BY <1>1, <1>2

\* What the paths of a tree lead to.
LEMMA FollowPaths ==
  ASSUME NEW t, IsTree(t)
  PROVE  \A p \in Seq(Name) : /\ Follow(t, p) \in Seq(Name) /\ Locate(t, p) \in Seq(Name)
                              /\ p # <<>> => Locate(t, p) # <<>>
                              /\ Follow(t, p) = Deref(t, Locate(t, p))
<1> DEFINE T == {p \in Seq(Name) : /\ Follow(t, p) \in Seq(Name) /\ Locate(t, p) \in Seq(Name)
                                   /\ p # <<>> => Locate(t, p) # <<>>
                                   /\ Follow(t, p) = Deref(t, Locate(t, p))}
<1>1. /\ t \in [DOMAIN t -> Node] /\ DirAt(t, <<>>)
  BY DEF IsTree, TreeOf, WellFormed
<1>2. \A p \in Seq(Name) : Deref(t, p) \in Seq(Name)
  BY <1>1, Paths, Nodes DEF Deref
<1>3. <<>> \in Seq(Name) /\ Deref(t, <<>>) = <<>>
  BY <1>1 DEF Deref, DirAt
<1>4. \A p \in Seq(Name), n \in Name : Append(p, n) \in Seq(Name) /\ Append(p, n) # <<>>
  BY AppendProperties
<1>5. <<>> \in T
  BY <1>3, FollowHome
<1>6. ASSUME NEW p \in Seq(Name), NEW n \in Name, p \in T PROVE Append(p, n) \in T
  <2>1. /\ Locate(t, Append(p, n)) = Append(Follow(t, p), n)
        /\ Follow(t, Append(p, n)) = Deref(t, Append(Follow(t, p), n))
    BY FollowEntry
  <2> QED BY <1>2, <1>4, <1>6, <2>1
<1>7. Seq(Name) \subseteq T
  <2> HIDE DEF T
  <2> QED BY <1>5, <1>6, SequenceInduction
<1> QED BY <1>7

\* The same links in both trees.
SameLinks(t, u) == \A p \in Seq(Name) : Deref(t, p) = Deref(u, p)

LEMMA SameLinksLead ==
  ASSUME NEW t, IsTree(t), NEW u, SameLinks(t, u)
  PROVE  \A p \in Seq(Name) : Follow(u, p) = Follow(t, p) /\ Locate(u, p) = Locate(t, p)
<1> DEFINE T == {p \in Seq(Name) : Follow(u, p) = Follow(t, p) /\ Locate(u, p) = Locate(t, p)}
<1>1. <<>> \in T
  <2>1. <<>> \in Seq(Name)
    OBVIOUS
  <2> QED BY <2>1, FollowHome
<1>2. ASSUME NEW p \in Seq(Name), NEW n \in Name, p \in T PROVE Append(p, n) \in T
  <2>1. Follow(t, p) \in Seq(Name) /\ Append(p, n) \in Seq(Name)
    BY FollowPaths, AppendProperties
  <2>2. Append(Follow(t, p), n) \in Seq(Name)
    BY <2>1, AppendProperties
  <2>3. /\ Locate(t, Append(p, n)) = Append(Follow(t, p), n)
        /\ Follow(t, Append(p, n)) = Deref(t, Append(Follow(t, p), n))
    BY FollowEntry
  <2>4. /\ Locate(u, Append(p, n)) = Append(Follow(u, p), n)
        /\ Follow(u, Append(p, n)) = Deref(u, Append(Follow(u, p), n))
    BY FollowEntry
  <2> QED BY <1>2, <2>1, <2>2, <2>3, <2>4 DEF SameLinks
<1>3. Seq(Name) \subseteq T
  <2> HIDE DEF T
  <2> QED BY <1>1, <1>2, SequenceInduction
<1> QED BY <1>3

\* What changes with the step from t to u, which removes an entry, is only
\* what a path leads to that led through it; and that leads nowhere now.
Lasting(t, u) ==
  \A p \in Seq(Name) : /\ Follow(t, p) = Locate(t, p) => Follow(u, p) = Locate(u, p)
                       /\ Locate(u, p) = Locate(t, p) \/ Locate(u, p) \notin DOMAIN u

LEMMA SameLinksLast ==
  ASSUME NEW t, IsTree(t), NEW u, SameLinks(t, u)
  PROVE  Lasting(t, u)
BY SameLinksLead DEF Lasting

\* An entry with nothing below it is removed.
LEMMA WithoutOne ==
  ASSUME NEW t, IsTree(t), NEW l \in DOMAIN t, l # <<>>, Children(t, l) = {}
  PROVE  /\ IsTree(Without(t, {l})) /\ DOMAIN Without(t, {l}) = DOMAIN t \ {l}
         /\ \A p \in DOMAIN t \ {l} : Without(t, {l})[p] = t[p]
<1>1. DOMAIN t \subseteq Seq(Name)
  BY Paths DEF IsTree, TreeOf
<1>2. \A p \in DOMAIN t : IsPrefix(l, p) => p = l
  BY <1>1, Paths, NothingBelow DEF IsTree
<1>3. Within(l, DOMAIN t) = {l}
  <2>1. IsPrefix(l, l)
    BY <1>1, PrefixTransitive
  <2> QED BY <1>2, <2>1 DEF Within
<1>4. IsTree(Without(t, Within(l, DOMAIN t)))
  BY <1>1, Paths, WithoutTree DEF IsTree
<1> QED BY <1>3, <1>4 DEF Without, Restrict

\* What is no directory has no entries.
LEMMA OnlyDirectoriesHold ==
  ASSUME NEW t, IsTree(t), NEW l, ~DirAt(t, l)
  PROVE  Children(t, l) = {}
BY DEF IsTree, TreeOf, WellFormed, Children, Parent

LEMMA UnlinkedLasts ==
  ASSUME NEW t, IsTree(t), NEW l \in DOMAIN t, t[l].kind = "link"
  PROVE  Lasting(t, Without(t, {l}))
<1> DEFINE u == Without(t, {l})
           T == {p \in Seq(Name) : Follow(u, p) = Follow(t, p) \/ IsPrefix(l, Follow(u, p))}
<1>1. /\ l # <<>> /\ Children(t, l) = {} /\ DOMAIN t \subseteq Seq(Name)
  BY OnlyDirectoriesHold, Paths DEF IsTree, TreeOf, WellFormed, DirAt
<1>2. IsTree(u) /\ DOMAIN u = DOMAIN t \ {l} /\ \A p \in DOMAIN u : u[p] = t[p]
  BY <1>1, WithoutOne
<1> HIDE DEF u
<1>3. \A p \in DOMAIN u : ~IsPrefix(l, p)
  BY <1>1, <1>2, Paths, NothingBelow DEF IsTree
<1>4. l \in Seq(Name) /\ IsPrefix(l, l)
  BY <1>1, PrefixTransitive
<1>5. \A p \in Seq(Name) : p # l => Deref(u, p) = Deref(t, p)
  BY <1>2 DEF Deref
<1>6. \A p : IsPrefix(l, p) => p \notin DOMAIN u /\ Deref(u, p) = p
  BY <1>3 DEF Deref
<1>7. ASSUME NEW p \in Seq(Name), NEW n \in Name
      PROVE  /\ Locate(t, Append(p, n)) = Append(Follow(t, p), n)
             /\ Follow(t, Append(p, n)) = Deref(t, Append(Follow(t, p), n))
             /\ Locate(u, Append(p, n)) = Append(Follow(u, p), n)
             /\ Follow(u, Append(p, n)) = Deref(u, Append(Follow(u, p), n))
             /\ Follow(u, p) \in Seq(Name) /\ Append(Follow(u, p), n) \in Seq(Name)
             /\ IsPrefix(l, Follow(u, p)) => IsPrefix(l, Append(Follow(u, p), n))
  <2>1. Follow(u, p) \in Seq(Name)
    BY <1>2, FollowPaths
  <2>2. /\ Append(Follow(u, p), n) \in Seq(Name)
        /\ IsPrefix(l, Follow(u, p)) => IsPrefix(l, Append(Follow(u, p), n))
    BY <1>4, <2>1, AppendProperties, PrefixOfAppend
  <2> QED BY <2>1, <2>2, FollowEntry
<1>8. <<>> \in T
  <2>1. <<>> \in Seq(Name)
    OBVIOUS
  <2> QED BY <2>1, FollowHome
<1>9. ASSUME NEW p \in Seq(Name), NEW n \in Name, p \in T PROVE Append(p, n) \in T
  <2>1. Append(p, n) \in Seq(Name)
    BY AppendProperties
  <2>2. CASE IsPrefix(l, Follow(u, p))
    BY <1>6, <1>7, <2>1, <2>2
  <2>3. CASE Follow(u, p) = Follow(t, p)
    <3>1. PICK d : d = Append(Follow(t, p), n)
      OBVIOUS
    <3>2. /\ d \in Seq(Name) /\ Follow(t, Append(p, n)) = Deref(t, d)
          /\ Follow(u, Append(p, n)) = Deref(u, d)
      BY <1>7, <2>3, <3>1, Zenon
    <3>3. Deref(u, d) = Deref(t, d) \/ IsPrefix(l, Deref(u, d))
      BY <1>4, <1>5, <1>6, <3>2
    <3> QED BY <2>1, <3>2, <3>3
  <2> QED BY <1>9, <2>2, <2>3
<1>10. Seq(Name) \subseteq T
  <2> HIDE DEF T
  <2> QED BY <1>8, <1>9, SequenceInduction
<1>11. ASSUME NEW p \in Seq(Name)
       PROVE  /\ Follow(t, p) = Locate(t, p) => Follow(u, p) = Locate(u, p)
              /\ Locate(u, p) = Locate(t, p) \/ Locate(u, p) \notin DOMAIN u
  <2>1. CASE p = <<>>
    BY <2>1, FollowHome
  <2>2. CASE p # <<>>
    <3>1. PICK q \in Seq(Name), n \in Name : p = Append(q, n)
      BY <2>2, FrontLast, FrontThenLast
    <3>2. PICK c, d : c = Append(Follow(t, q), n) /\ d = Append(Follow(u, q), n)
      OBVIOUS
    <3>3. /\ Locate(t, p) = c /\ Follow(t, p) = Deref(t, c)
          /\ Locate(u, p) = d /\ Follow(u, p) = Deref(u, d) /\ d \in Seq(Name)
          /\ IsPrefix(l, Follow(u, q)) => IsPrefix(l, d)
      BY <1>7, <3>1, <3>2, Zenon
    <3>4. CASE IsPrefix(l, Follow(u, q))
      BY <1>6, <3>3, <3>4
    <3>5. CASE Follow(u, q) = Follow(t, q)
      <4>1. c = d
        BY <3>2, <3>5
      <4> QED BY <1>4, <1>5, <1>6, <3>3, <4>1
    <3> QED BY <1>10, <3>4, <3>5
  <2> QED BY <2>1, <2>2
<1> QED BY <1>11 DEF Lasting, u

(***************************************************************************)
(* What the requests do to a tree                                          *)
(***************************************************************************)
FilesStay(t, u) == \A p : FileAt(t, p) => FileAt(u, p)

\* A file is written at p: nothing else changes.
LEMMA FilePut ==
  ASSUME NEW t, IsTree(t), NEW p \in Path, NEW d \in Content,
         FileAt(t, p) \/ (p \notin DOMAIN t /\ DirAt(t, Parent(p))),
         NEW u, u = Put(t, p, File(d))
  PROVE  /\ IsTree(u) /\ SameLinks(t, u) /\ DOMAIN u = DOMAIN t \cup {p}
         /\ u[p] = File(d) /\ \A q \in DOMAIN t \ {p} : u[q] = t[q]
         /\ FileAt(u, p) /\ FilesStay(t, u)
<1>1. DirAt(t, Parent(p)) /\ ~DirAt(t, p) /\ File(d) \in Node
  BY Nodes DEF IsTree, TreeOf, WellFormed, FileAt, DirAt
<1>2. IsTree(u)
  BY <1>1, PutTree DEF IsTree
<1>3. DOMAIN u = DOMAIN t \cup {p} /\ u[p] = File(d) /\ \A q \in DOMAIN t \ {p} : u[q] = t[q]
  BY DEF Put
<1>4. File(d).kind = "file"
  BY DEF File
<1>5. SameLinks(t, u)
  BY <1>3, <1>4 DEF SameLinks, Deref, FileAt
<1>6. FileAt(u, p) /\ FilesStay(t, u)
  BY <1>3, <1>4 DEF FileAt, FilesStay
<1> QED BY <1>2, <1>3, <1>5, <1>6

\* Data is written into the files that are held.
LEMMA FilesFilled ==
  ASSUME NEW t, IsTree(t), NEW H, \A p \in H : FileAt(t, p), NEW d \in Content,
         NEW u, u = [p \in DOMAIN t |-> IF p \in H THEN File(d) ELSE t[p]]
  PROVE  /\ IsTree(u) /\ SameLinks(t, u) /\ DOMAIN u = DOMAIN t
         /\ \A p \in DOMAIN t : u[p] = IF p \in H THEN File(d) ELSE t[p]
         /\ \A p : FileAt(t, p) => FileAt(u, p)
<1>1. H \subseteq DOMAIN t /\ \A p \in H : t[p].kind = "file"
  BY DEF FileAt
<1>2. File(d).kind = "file" /\ File(d) \in Node
  BY Nodes
<1>3. \A p \in DOMAIN t : u[p].kind = t[p].kind
  BY <1>1, <1>2
<1>4. IsTree(u)
  BY <1>2, <1>3 DEF IsTree, TreeOf, WellFormed, DirAt
<1>5. SameLinks(t, u)
  BY <1>1, <1>3 DEF SameLinks, Deref
<1>6. \A p : FileAt(t, p) => FileAt(u, p)
  BY <1>3 DEF FileAt
<1> QED BY <1>4, <1>5, <1>6

\* u is t without its entry l.
Loses(t, u, l) == DOMAIN u = DOMAIN t \ {l} /\ \A p \in DOMAIN u : u[p] = t[p]

\* An entry without entries of its own is removed.
LEMMA EntryRemoved ==
  ASSUME NEW t, IsTree(t), NEW l \in DOMAIN t, l # <<>>, Children(t, l) = {},
         NEW u, u = Without(t, {l})
  PROVE  /\ IsTree(u) /\ Lasting(t, u) /\ Loses(t, u, l)
         /\ t[l].kind # "link" => SameLinks(t, u)
<1>1. /\ IsTree(u) /\ DOMAIN u = DOMAIN t \ {l} /\ \A p \in DOMAIN u : u[p] = t[p]
  BY WithoutOne
<1>2. t[l].kind # "link" => SameLinks(t, u)
  BY <1>1 DEF SameLinks, Deref
<1>3. Lasting(t, u)
  BY <1>2, SameLinksLast, UnlinkedLasts
<1> QED BY <1>1, <1>2, <1>3 DEF Loses

\* What a rename does: nothing outside what is at or below its two paths.
LEMMA TreeMoved ==
  ASSUME NEW t, IsTree(t), NEW from \in DOMAIN t, from # <<>>, NEW to \in Seq(Name), to # <<>>,
         DirAt(t, Parent(to)),
         \/ from = to
         \/ to \notin DOMAIN t /\ ~IsPrefix(from, to)
         \/ to \in DOMAIN t /\ t[to] # Dir /\ t[from] # Dir,
         Rebased(DOMAIN t, from, to) \subseteq Path,
         NEW u, u = Moved(t, from, to)
  PROVE  /\ IsTree(u)
         /\ \A p \in DOMAIN t \cup DOMAIN u :
              ~IsPrefix(from, p) /\ ~IsPrefix(to, p) => Same(t, u, p)
<1> DEFINE M == Rebased(DOMAIN t, from, to)
           W == Within(from, DOMAIN t)
<1>1. /\ u = [q \in M \cup (DOMAIN t \ W) |-> IF q \in M THEN t[Rebase(q, to, from)] ELSE t[q]]
      /\ W = {p \in DOMAIN t : IsPrefix(from, p)} /\ M = {Rebase(p, from, to) : p \in W}
  BY DEF Moved, Within, Rebased
<1>2. /\ t \in [DOMAIN t -> Node] /\ DOMAIN t \subseteq Path /\ DOMAIN t \subseteq Seq(Name)
      /\ from \in Seq(Name) /\ IsPrefix(from, from)
  BY Paths, PrefixTransitive DEF IsTree, TreeOf
<1> HIDE DEF M, W
<1>3. ASSUME NEW p \in W
      PROVE  /\ Rebase(p, from, to) \in Seq(Name) /\ IsPrefix(to, Rebase(p, from, to))
             /\ Rebase(Rebase(p, from, to), to, from) = p
             /\ p = from => Rebase(p, from, to) = to
  BY <1>1, <1>2, RebasedPaths
<1>4. \A p \in M : IsPrefix(to, p)
  BY <1>1, <1>3
<1>5. \A p \in DOMAIN t \cup DOMAIN u :
        ~IsPrefix(from, p) /\ ~IsPrefix(to, p) => Same(t, u, p)
  BY <1>1, <1>4 DEF Same
<1>6. to \in Path
  <2>1. from \in W /\ to \in M
    BY <1>1, <1>2, <1>3
  <2> QED BY <2>1 DEF M
<1>7. CASE from = to
  <2>1. \A p \in W : Rebase(p, from, to) = p
    BY <1>1, <1>2, <1>7, SamePlace
  <2>2. M = W
    BY <1>1, <2>1
  <2>3. u = [q \in DOMAIN t |-> t[q]]
    <3>1. W \cup (DOMAIN t \ W) = DOMAIN t
      BY <1>1
    <3>2. \A q \in W : Rebase(q, to, from) = q
      BY <1>7, <2>1
    <3>3. u = [q \in DOMAIN t |-> IF q \in W THEN t[Rebase(q, to, from)] ELSE t[q]]
      BY <1>1, <2>2, <3>1, Zenon
    <3> QED BY <3>2, <3>3
  <2>4. u = t
    BY <1>2, <2>3
  <2> QED BY <1>5, <2>4
<1>8. CASE from # to
  <2>1. ~DirAt(t, to) /\ ~IsPrefix(from, to)
    <3>1. CASE to \notin DOMAIN t
      BY <1>8, <3>1 DEF DirAt
    <3>2. CASE to \in DOMAIN t
      <4>1. t[to] # Dir /\ t[from] # Dir
        BY <1>8, <3>2
      <4>2. ~DirAt(t, to) /\ ~DirAt(t, from)
        BY <1>2, <4>1, Nodes DEF DirAt
      <4> QED BY <1>2, <1>8, <3>2, <4>2, Paths, DirectoriesAbove DEF IsTree
    <3> QED BY <3>1, <3>2
  <2>2. IsTree(u)
    BY <1>6, <2>1, Paths, MovedTree DEF IsTree
  <2> QED BY <1>5, <2>2
<1> QED BY <1>7, <1>8

(***************************************************************************)
(* The activations of a delete                                             *)
(***************************************************************************)
LEMMA Popped ==
  ASSUME NEW S, NEW s \in Seq(S), s # <<>>
  PROVE  /\ Tail(s) \in Seq(S) /\ Len(s) \in Nat \ {0} /\ Len(Tail(s)) = Len(s) - 1
         /\ \A i \in 1..Len(s) - 1 : Tail(s)[i] = s[i + 1]
BY HeadTailProperties, EmptySeq

\* A sequence with another first element.
LEMMA ReplaceFirst ==
  ASSUME NEW S, NEW s \in Seq(S), s # <<>>, NEW f \in S
  PROVE  /\ <<f>> \o Tail(s) \in Seq(S) /\ <<f>> \o Tail(s) # <<>>
         /\ Len(<<f>> \o Tail(s)) = Len(s)
         /\ (<<f>> \o Tail(s))[1] = f
         /\ \A i \in 2..Len(s) : (<<f>> \o Tail(s))[i] = s[i]
<1> DEFINE r == <<f>> \o Tail(s)
<1>1. /\ Tail(s) \in Seq(S) /\ Len(s) \in Nat \ {0} /\ Len(Tail(s)) = Len(s) - 1
      /\ \A i \in 1..Len(s) - 1 : Tail(s)[i] = s[i + 1]
  BY Popped
<1>2. <<f>> \in Seq(S) /\ Len(<<f>>) = 1 /\ <<f>>[1] = f
  OBVIOUS
<1>3. /\ r \in Seq(S) /\ Len(r) = Len(<<f>>) + Len(Tail(s))
      /\ \A i \in 1 .. Len(<<f>>) + Len(Tail(s)) :
           r[i] = IF i <= Len(<<f>>) THEN <<f>>[i] ELSE Tail(s)[i - Len(<<f>>)]
  BY <1>1, <1>2, ConcatProperties
<1> HIDE DEF r
<1>4. Len(r) = Len(s) /\ r[1] = f
  BY <1>1, <1>2, <1>3
<1>5. ASSUME NEW i \in 2..Len(s) PROVE r[i] = s[i]
  <2>1. i - 1 \in 1..Len(s) - 1 /\ i - 1 + 1 = i /\ ~(i <= 1) /\ i \in 1..1 + (Len(s) - 1)
    BY <1>1
  <2> QED BY <1>1, <1>2, <1>3, <2>1
<1>6. r # <<>>
  BY <1>1, <1>4
<1> QED BY <1>3, <1>4, <1>5, <1>6 DEF r

\* A sequence with one more element at its head.
LEMMA Pushed ==
  ASSUME NEW S, NEW s \in Seq(S), NEW f \in S
  PROVE  /\ <<f>> \o s \in Seq(S) /\ <<f>> \o s # <<>> /\ Len(<<f>> \o s) = Len(s) + 1
         /\ (<<f>> \o s)[1] = f /\ \A i \in 1..Len(s) : (<<f>> \o s)[i + 1] = s[i]
<1> DEFINE r == <<f>> \o s
<1>1. <<f>> \in Seq(S) /\ Len(<<f>>) = 1 /\ <<f>>[1] = f /\ Len(s) \in Nat
  OBVIOUS
<1>2. /\ r \in Seq(S) /\ Len(r) = 1 + Len(s)
      /\ \A i \in 1..1 + Len(s) : r[i] = IF i <= 1 THEN <<f>>[i] ELSE s[i - 1]
  BY <1>1, ConcatProperties
<1> HIDE DEF r
<1>3. r # <<>>
  BY <1>1, <1>2
<1>4. r[1] = f
  BY <1>1, <1>2
<1>5. ASSUME NEW i \in 1..Len(s) PROVE r[i + 1] = s[i]
  <2>1. i + 1 \in 1..1 + Len(s) /\ ~(i + 1 <= 1) /\ i + 1 - 1 = i
    BY <1>1
  <2> QED BY <1>2, <2>1
<1>6. Len(r) = Len(s) + 1
  BY <1>1, <1>2
<1> QED BY <1>2, <1>3, <1>4, <1>5, <1>6 DEF r

LEMMA PushedTwo ==
  ASSUME NEW S, NEW s \in Seq(S), NEW f \in S, NEW g \in S
  PROVE  <<f, g>> \o s = <<f>> \o (<<g>> \o s)
<1>1. <<f>> \in Seq(S) /\ <<g>> \in Seq(S) /\ <<f, g>> \in Seq(S)
  OBVIOUS
<1>2. <<f, g>> = <<f>> \o <<g>>
  <2> DEFINE r == <<f>> \o <<g>>
             p == <<f, g>>
  <2>1. /\ r \in Seq(S) /\ Len(r) = Len(<<g>>) + 1
        /\ r[1] = f /\ \A i \in 1..Len(<<g>>) : r[i + 1] = <<g>>[i]
    BY <1>1, Pushed
  <2>2. Len(<<g>>) = 1 /\ <<g>>[1] = g /\ 1..1 = {1}
    OBVIOUS
  <2>3. Len(p) = 2 /\ p[1] = f /\ p[2] = g /\ 1..2 = {1, 2}
    OBVIOUS
  <2>4. p \in Seq(S)
    BY <1>1
  <2> HIDE DEF r, p
  <2>5. Len(r) = 2 /\ r[1] = f /\ r[2] = g
    BY <2>1, <2>2
  <2>6. \A i \in 1..2 : p[i] = r[i]
    BY <2>3, <2>5
  <2>7. p = r
    BY <2>1, <2>3, <2>4, <2>5, <2>6, SeqEqual
  <2> QED BY <2>7 DEF r, p
<1>3. (<<f>> \o <<g>>) \o s = <<f>> \o (<<g>> \o s)
  BY <1>1, ConcatAssociative
<1> QED BY <1>2, <1>3

\* The innermost activation goes on to another request.
LEMMA ActivationGoes ==
  ASSUME NEW s, NEW path, Activations(s, path),
         NEW f \in Activation, f.path = s[1].path, NEW t
  PROVE  /\ Activations(<<f>> \o Tail(s), path)
         /\ AllDescended(t, s) /\ Descended(t, f) => AllDescended(t, <<f>> \o Tail(s))
<1> DEFINE r == <<f>> \o Tail(s)
<1>1. /\ s \in Seq(Activation) /\ s # <<>> /\ s[Len(s)].path = path
      /\ \A i \in 1..Len(s) - 1 : /\ s[i + 1].at = "each"
                                  /\ \E n \in Name : s[i].path = Append(s[i + 1].path, n)
      /\ Len(s) \in Nat \ {0}
  BY EmptySeq DEF Activations
<1>2. /\ r \in Seq(Activation) /\ r # <<>> /\ Len(r) = Len(s) /\ r[1] = f
      /\ \A i \in 2..Len(s) : r[i] = s[i]
  BY <1>1, ReplaceFirst
<1> HIDE DEF r
<1>3. \A i \in 1..Len(s) : r[i].path = s[i].path
  BY <1>1, <1>2
<1>4. ASSUME NEW i \in 1..Len(s) - 1
      PROVE  r[i + 1].at = "each" /\ \E n \in Name : r[i].path = Append(r[i + 1].path, n)
  <2>1. i \in 1..Len(s) /\ i + 1 \in 1..Len(s) /\ i + 1 \in 2..Len(s)
    BY <1>1
  <2>2. r[i + 1].at = s[i + 1].at
    BY <1>2, <2>1
  <2>3. PICK n \in Name : s[i].path = Append(s[i + 1].path, n)
    BY <1>1
  <2>4. r[i].path = Append(r[i + 1].path, n)
    BY <1>3, <2>1, <2>3
  <2> QED BY <1>1, <2>2, <2>4
<1>5. r[Len(r)].path = path
  BY <1>1, <1>2, <1>3
<1>6. Activations(r, path)
  BY <1>2, <1>4, <1>5 DEF Activations
<1>7. AllDescended(t, s) /\ Descended(t, f) => AllDescended(t, r)
  BY <1>1, <1>2 DEF AllDescended
<1> QED BY <1>6, <1>7 DEF r

\* It goes to an entry of the directory it has read.
LEMMA ActivationEnters ==
  ASSUME NEW s, NEW path, Activations(s, path), s[1].at = "each", NEW t,
         NEW n \in Name, NEW f \in Activation, f.path = Append(s[1].path, n), f.at = "lstat"
  PROVE  /\ Activations(<<f>> \o s, path)
         /\ AllDescended(t, s) => AllDescended(t, <<f>> \o s)
<1> DEFINE r == <<f>> \o s
<1>1. /\ s \in Seq(Activation) /\ s # <<>> /\ s[Len(s)].path = path
      /\ \A i \in 1..Len(s) - 1 : /\ s[i + 1].at = "each"
                                  /\ \E m \in Name : s[i].path = Append(s[i + 1].path, m)
      /\ Len(s) \in Nat \ {0}
  BY EmptySeq DEF Activations
<1>2. /\ r \in Seq(Activation) /\ r # <<>> /\ Len(r) = Len(s) + 1 /\ r[1] = f
      /\ \A i \in 1..Len(s) : r[i + 1] = s[i]
  BY <1>1, Pushed
<1> HIDE DEF r
<1>3. Descended(t, f)
  BY DEF Descended
<1>4. ASSUME AllDescended(t, s), NEW i \in 1..Len(s) + 1 PROVE Descended(t, r[i])
  <2>1. CASE i = 1
    BY <1>2, <1>3, <2>1
  <2>2. CASE i # 1
    <3>1. i - 1 \in 1..Len(s) /\ i - 1 + 1 = i
      BY <1>1, <2>2
    <3> QED BY <1>2, <1>4, <3>1 DEF AllDescended
  <2> QED BY <2>1, <2>2
<1>5. ASSUME NEW i \in 1..Len(s)
      PROVE  r[i + 1].at = "each" /\ \E m \in Name : r[i].path = Append(r[i + 1].path, m)
  <2>1. CASE i = 1
    <3>1. r[i] = f /\ r[i + 1] = s[1]
      BY <1>1, <1>2, <2>1
    <3> QED BY <3>1
  <2>2. CASE i # 1
    <3>1. i - 1 \in 1..Len(s) - 1 /\ i - 1 + 1 = i /\ i - 1 \in 1..Len(s)
      BY <1>1, <2>2
    <3>2. r[i + 1] = s[i] /\ r[i] = s[i - 1]
      BY <1>2, <3>1
    <3> QED BY <1>1, <3>1, <3>2
  <2> QED BY <2>1, <2>2
<1>6. r[Len(r)].path = path
  BY <1>1, <1>2
<1>7. Len(r) - 1 = Len(s)
  BY <1>1, <1>2
<1>8. Activations(r, path)
  BY <1>2, <1>5, <1>6, <1>7 DEF Activations
<1>9. AllDescended(t, s) => AllDescended(t, r)
  BY <1>2, <1>4 DEF AllDescended
<1> QED BY <1>8, <1>9 DEF r

\* It returns to the one that called it.
LEMMA ActivationReturns ==
  ASSUME NEW s, NEW path, Activations(s, path), Len(s) # 1, NEW t
  PROVE  /\ Activations(Tail(s), path)
         /\ AllDescended(t, s) => AllDescended(t, Tail(s))
<1> DEFINE r == Tail(s)
<1>1. /\ s \in Seq(Activation) /\ s # <<>> /\ s[Len(s)].path = path
      /\ \A i \in 1..Len(s) - 1 : /\ s[i + 1].at = "each"
                                  /\ \E m \in Name : s[i].path = Append(s[i + 1].path, m)
  BY DEF Activations
<1>2. /\ r \in Seq(Activation) /\ Len(s) \in Nat \ {0} /\ Len(r) = Len(s) - 1
      /\ \A i \in 1..Len(s) - 1 : r[i] = s[i + 1]
  BY <1>1, Popped
<1> HIDE DEF r
<1>3. PICK k \in Nat : Len(s) = k + 1 /\ k # 0
  <2>1. Len(s) - 1 \in Nat /\ Len(s) = Len(s) - 1 + 1 /\ Len(s) - 1 # 0
    BY <1>2
  <2> QED BY <2>1
<1>4. Len(r) = k /\ \A i \in 1..k : r[i] = s[i + 1]
  BY <1>2, <1>3
<1>5. AllDescended(t, s) => AllDescended(t, r)
  BY <1>3, <1>4 DEF AllDescended
<1>6. ASSUME NEW i \in 1..k - 1
      PROVE  r[i + 1].at = "each" /\ \E n \in Name : r[i].path = Append(r[i + 1].path, n)
  <2>1. i \in 1..k /\ i + 1 \in 1..k /\ i + 1 \in 1..Len(s) - 1
    BY <1>3
  <2> QED BY <1>1, <1>4, <2>1
<1>7. r # <<>> /\ r[Len(r)].path = path
  BY <1>1, <1>3, <1>4
<1>8. Activations(r, path)
  BY <1>2, <1>4, <1>6, <1>7 DEF Activations
<1> QED BY <1>5, <1>8 DEF r

LEMMA DescendedLasts ==
  ASSUME NEW t, NEW u, Lasting(t, u), NEW s \in Seq(Activation), AllDescended(t, s)
  PROVE  AllDescended(u, s)
<1>1. ASSUME NEW i \in 1..Len(s) PROVE Descended(u, s[i])
  <2>1. s[i] \in Activation
    OBVIOUS
  <2>2. s[i].path \in Seq(Name)
    BY <2>1 DEF Activation
  <2> QED BY <2>2 DEF AllDescended, Descended, Lasting
<1> QED BY <1>1 DEF AllDescended

\* Each is about something at or below what the call names.
LEMMA ActivationsBelow ==
  ASSUME NEW t, IsTree(t), NEW s, NEW path \in Seq(Name), Activations(s, path),
         AllDescended(t, s)
  PROVE  IsPrefix(Locate(t, path), Locate(t, s[1].path))
<1>1. /\ s \in Seq(Activation) /\ s # <<>> /\ s[Len(s)].path = path
      /\ \A i \in 1..Len(s) - 1 : /\ s[i + 1].at = "each"
                                  /\ \E m \in Name : s[i].path = Append(s[i + 1].path, m)
      /\ Len(s) \in Nat \ {0}
  BY EmptySeq DEF Activations
<1>2. PICK l \in Nat : Len(s) = l + 1
  <2>1. Len(s) - 1 \in Nat /\ Len(s) = Len(s) - 1 + 1
    BY <1>1
  <2> QED BY <2>1
<1> DEFINE R == Locate(t, path)
           N == {k \in Nat : k <= l => IsPrefix(R, Locate(t, s[l + 1 - k].path))}
<1>3. R \in Seq(Name)
  BY FollowPaths
<1> HIDE DEF R
<1>4. 0 \in N
  <2>1. l + 1 - 0 = Len(s)
    BY <1>2
  <2>2. IsPrefix(R, R)
    BY <1>3, PrefixTransitive
  <2> QED BY <1>1, <2>1, <2>2 DEF R
<1>5. ASSUME NEW k \in Nat, k \in N PROVE k + 1 \in N
  <2> SUFFICES ASSUME k + 1 <= l PROVE IsPrefix(R, Locate(t, s[l + 1 - (k + 1)].path))
    OBVIOUS
  <2>1. PICK i \in 1..l : i = l + 1 - (k + 1) /\ i + 1 = l + 1 - k
    <3>1. l + 1 - (k + 1) \in 1..l /\ l + 1 - (k + 1) + 1 = l + 1 - k
      BY <1>2
    <3> QED BY <3>1
  <2>2. i \in 1..Len(s) - 1 /\ i \in 1..Len(s) /\ i + 1 \in 1..Len(s)
    BY <1>2
  <2>3. PICK p \in Seq(Name) : p = s[i + 1].path
    <3>1. s[i + 1] \in Activation
      BY <1>1, <2>2
    <3> QED BY <3>1 DEF Activation
  <2>4. PICK m \in Name : s[i].path = Append(p, m)
    BY <1>1, <2>2, <2>3
  <2>5. Follow(t, p) = Locate(t, p)
    BY <1>1, <2>2, <2>3 DEF AllDescended, Descended
  <2>6. Locate(t, s[i].path) = Append(Locate(t, p), m)
    BY <2>4, <2>5, FollowEntry
  <2>7. IsPrefix(R, Locate(t, p)) /\ Locate(t, p) \in Seq(Name)
    <3>1. k <= l
      BY <1>2
    <3> QED BY <1>5, <2>1, <2>3, <3>1, FollowPaths
  <2>8. IsPrefix(R, Append(Locate(t, p), m))
    BY <1>3, <2>7, PrefixOfAppend
  <2> QED BY <2>1, <2>6, <2>8
<1>6. Nat \subseteq N
  <2> HIDE DEF N
  <2> QED BY <1>4, <1>5, NatSetInduction
<1>7. IsPrefix(R, Locate(t, s[l + 1 - l].path))
  <2>1. l \in N
    BY <1>6
  <2> QED BY <2>1
<1>8. l + 1 - l = 1
  OBVIOUS
<1> QED BY <1>7, <1>8 DEF R

(***************************************************************************)
(* The steps of the operations                                             *)
(***************************************************************************)
LEMMA CallFields ==
  ASSUME NEW c \in Calls
  PROVE  /\ c.op \in {"list", "stat", "read", "write", "mkdir", "rename", "remove", "copy"}
         /\ c # Idle /\ c.path \in Path /\ c.path \in Seq(Name)
         /\ c.op \notin {"list", "stat", "read"} => c.path # <<>>
         /\ c.op \in {"rename", "copy"} => c.to \in Path /\ c.to \in Seq(Name) /\ c.to # <<>>
         /\ c.op = "write" => c.data \in Content
<1>1. Target \subseteq Path /\ <<>> \notin Target /\ <<>> \in Path /\ Path \subseteq Seq(Name)
  BY TargetAssumption, Paths DEF TargetAssumption
<1>2. Data \subseteq Content
  BY DEF Content
<1>3. c \in Looks \/ c \in Mkdirs \/ c \in Writes \/ c \in Removes \/ c \in Transfers
  BY DEF Calls
<1> QED BY <1>1, <1>2, <1>3 DEF Looks, Mkdirs, Writes, Removes, Transfers, Idle

\* The innermost activation makes a request of the operation.
LEMMA Innermost ==
  ASSUME IInv, NEW r, At(r)
  PROVE  /\ call # Idle /\ call \in Calls /\ IsTree(before) /\ IsTree(tree)
         /\ r \in Stages(call.op) /\ Top.path \in Seq(Name)
         /\ call.op # "remove" => /\ Top = Frame(call.path, r) /\ Top.path = call.path
                                  /\ stack = <<Frame(call.path, r)>>
         /\ call.op = "remove" => /\ Activations(stack, call.path)
                                  /\ steady => AllDescended(tree, stack)
                                  /\ Top \in Activation /\ Top = stack[1]
<1>1. call # Idle /\ call \in Calls /\ IsTree(before) /\ IsTree(tree) /\ stack # <<>> /\ Top.at = r
  BY DEF IInv, Running, Values, At
<1>2. CASE call.op = "remove"
  <2>1. Activations(stack, call.path) /\ (steady => AllDescended(tree, stack))
    BY <1>1, <1>2 DEF IInv, Running
  <2>2. stack \in Seq(Activation)
    BY <2>1 DEF Activations
  <2>3. Top \in Activation /\ Top = stack[1]
    BY <1>1, <2>2, HeadTailProperties DEF Top
  <2>4. r \in Removing /\ Top.path \in Seq(Name)
    BY <1>1, <2>3 DEF Activation
  <2> QED BY <1>1, <1>2, <2>1, <2>3, <2>4 DEF Stages
<1>3. CASE call.op # "remove"
  <2>1. PICK q \in Stages(call.op) : stack = <<Frame(call.path, q)>>
    BY <1>1, <1>3 DEF IInv, Running
  <2>2. Top = Frame(call.path, q)
    BY <2>1 DEF Top
  <2>3. q = r /\ Top.path = call.path
    BY <1>1, <2>2 DEF Frame
  <2> QED BY <1>1, <1>3, <2>1, <2>2, <2>3, CallFields
<1> QED BY <1>2, <1>3

\* The operation a request belongs to.
LEMMA StageOf ==
  ASSUME NEW c \in Calls, NEW r \in Stages(c.op)
  PROVE  /\ r \in {"lstat", "each", "rmdir", "unlink"} => c.op = "remove"
         /\ r = "readdir" => c.op \in {"list", "remove"}
         /\ r = "stat" => c.op = "stat"
         /\ r = "open" => c.op \in {"read", "copy"}
         /\ r \in {"create", "write"} => c.op \in {"write", "copy"}
         /\ r \in {"mkdir", "rename"} => c.op = r
         /\ c.op = "remove" => r \in Removing
<1>1. c.op \in {"list", "stat", "read", "write", "mkdir", "rename", "remove", "copy"}
  BY CallFields
<1> QED BY <1>1 DEF Stages, Removing

\* An answer ends the operation; the file it held open stays as it is.
LEMMA AnswerStep ==
  ASSUME IInv, NEW ok, NEW result, Answer(ok, result), IsTree(tree'), buffer' \in Content,
         UNCHANGED <<handle, quiet, steady, calls, edits>>, \A p \in handle : FileAt(tree', p)
  PROVE  IInv'
<1>1. Values' /\ Running' /\ Holding'
  BY DEF IInv, Values, Running, Holding, Answer
<1>2. Progress' /\ Copied' /\ Plain'
  BY DEF Progress, Copied, Plain, Answer, Idle
<1> QED BY <1>1, <1>2 DEF IInv

LEMMA CallStep ==
  ASSUME IInv, NEW c \in Calls, Call(c)
  PROVE  IInv'
<1>1. /\ call' = c /\ stack' = <<Frame(c.path, First(c))>> /\ handle' = {} /\ buffer' = Empty
      /\ before' = tree /\ quiet' = TRUE /\ steady' = TRUE /\ tree' = tree
      /\ edits' = edits
      /\ calls' = calls + 1 /\ calls < MaxCalls
  BY DEF Call
<1>2. /\ c # Idle /\ c.path \in Seq(Name)
      /\ c.op \in {"list", "stat", "read", "write", "mkdir", "rename", "remove", "copy"}
  BY CallFields
<1>3. First(c) \in Stages(c.op) /\ First(c) # "write" /\ (c.op = "copy" => First(c) = "open")
  BY <1>2 DEF First, Stages, Removing
<1>4. Values'
  BY <1>1, BoundsAssumption DEF IInv, Values, Content, BoundsAssumption
<1>5. Head(stack') = Frame(c.path, First(c)) /\ Head(stack').at = First(c) /\ stack' # <<>>
  BY <1>1 DEF Frame
<1>6. Running'
  <2>1. CASE c.op # "remove"
    BY <1>1, <1>2, <1>3, <2>1 DEF IInv, Values, Running
  <2>2. CASE c.op = "remove"
    <3> DEFINE f == Frame(c.path, "lstat")
    <3>1. f \in Activation /\ f.path = c.path /\ f.at = "lstat"
      BY <1>2 DEF Frame, Activation, Removing
    <3>2. AllDescended(tree, <<f>>)
      BY <3>1 DEF AllDescended, Descended
    <3>3. stack' = <<f>>
      BY <1>1, <2>2 DEF First
    <3> HIDE DEF f
    <3>4. Activations(<<f>>, c.path)
      BY <3>1 DEF Activations
    <3> QED BY <1>1, <1>2, <2>2, <3>2, <3>3, <3>4 DEF IInv, Values, Running
  <2> QED BY <2>1, <2>2
<1>7. At("write")' = FALSE /\ (c.op = "copy" => At("open")')
  BY <1>3, <1>5 DEF At, Top
<1>8. Holding' /\ Copied'
  BY <1>1, <1>7 DEF Holding, Copied
<1>9. Progress'
  <2>1. Pruned(tree, tree, Locate(tree, c.path))
    BY DEF Pruned
  <2> QED BY <1>1, <1>7, <2>1 DEF Progress
<1>10. Plain'
  <2> SUFFICES ASSUME c.op = "remove" PROVE Len(stack') = 1 /\ Head(stack').at = "lstat"
    BY <1>1 DEF Plain, Top
  <2>1. Len(stack') = 1
    BY <1>1
  <2> QED BY <1>5, <2>1 DEF First
<1> QED BY <1>4, <1>6, <1>8, <1>9, <1>10 DEF IInv

LEMMA CutOffStep ==
  ASSUME IInv, CutOff
  PROVE  IInv'
<1>1. /\ Answer(FALSE, Nothing) /\ tree' = tree /\ buffer' = buffer
      /\ UNCHANGED <<handle, quiet, steady, calls, edits>>
  BY DEF CutOff, history
<1>2. IsTree(tree') /\ buffer' \in Content /\ \A p \in handle : FileAt(tree', p)
  BY <1>1 DEF IInv, Values, Holding
<1> QED BY <1>1, <1>2, AnswerStep

\* The requests that look, and answer.
LEMMA LookStep ==
  ASSUME IInv, ListDir \/ Stat \/ (ReadFile /\ call.op = "read")
  PROVE  IInv' /\ tree' = tree /\ answer'.ok
<1>1. /\ \E result : Answer(TRUE, result)
      /\ UNCHANGED <<tree, handle, quiet, steady, calls, edits>>
  BY DEF ListDir, Stat, ReadFile, Request, Reading, history
<1>2. buffer' \in Content
  <2>1. CASE ListDir \/ Stat
    BY <2>1 DEF ListDir, Stat, IInv, Values
  <2>2. CASE ReadFile
    <3>1. /\ FileAt(tree, Follow(tree, Top.path)) /\ buffer' = tree[Follow(tree, Top.path)].data
      BY <2>2 DEF ReadFile
    <3>2. tree \in [DOMAIN tree -> Node]
      BY DEF IInv, Values, IsTree, TreeOf
    <3> QED BY <3>1, <3>2, Nodes DEF FileAt
  <2> QED BY <2>1, <2>2
<1>3. IsTree(tree') /\ \A p \in handle : FileAt(tree', p)
  BY <1>1 DEF IInv, Values, Holding
<1> QED BY <1>1, <1>2, <1>3, AnswerStep DEF Answer

\* An operation that is no delete goes on to its next request.
LEMMA GotoNext ==
  ASSUME NEW p, NEW r, stack = <<Frame(p, r)>>, NEW q, Goto(q, {})
  PROVE  stack' = <<Frame(p, q)>> /\ Top'.at = q
<1>1. Top = Frame(p, r) /\ Tail(stack) = <<>>
  BY DEF Top
<1>2. [Top EXCEPT !.at = q, !.todo = {}] = Frame(p, q)
  <2>1. Top \in [path : {p}, at : {r}, todo : {{}}]
    BY <1>1 DEF Frame
  <2>2. [Top EXCEPT !.at = q, !.todo = {}] \in [path : {p}, at : {q}, todo : {{}}]
    BY <2>1
  <2>3. \A f \in [path : {p}, at : {q}, todo : {{}}] : f = [path |-> p, at |-> q, todo |-> {}]
    OBVIOUS
  <2> QED BY <2>2, <2>3 DEF Frame
<1>3. <<Frame(p, q)>> \o <<>> = <<Frame(p, q)>>
  <2> DEFINE f == Frame(p, q)
  <2>1. <<f>> \in Seq({f})
    OBVIOUS
  <2> HIDE DEF f
  <2>2. <<f>> \o <<>> = <<f>>
    BY <2>1, ConcatEmptySeq
  <2> QED BY <2>2 DEF f
<1>4. stack' = <<Frame(p, q)>>
  BY <1>1, <1>2, <1>3 DEF Goto
<1>5. Top'.at = q
  BY <1>4 DEF Top, Frame
<1> QED BY <1>4, <1>5

LEMMA ReadToCopyStep ==
  ASSUME IInv, ReadFile, call.op # "read"
  PROVE  IInv'
<1>1. /\ At("open") /\ FileAt(tree, Follow(tree, Top.path))
      /\ buffer' = tree[Follow(tree, Top.path)].data /\ Goto("create", {})
      /\ UNCHANGED <<call, tree, handle, quiet, steady, edits, calls, before>>
  BY DEF ReadFile, Request, Reading, history
<1>2. /\ call # Idle /\ call \in Calls /\ IsTree(before) /\ IsTree(tree) /\ call.op = "copy"
      /\ Top.path = call.path /\ stack = <<Frame(call.path, "open")>>
  BY <1>1, Innermost, StageOf
<1>3. stack' = <<Frame(call.path, "create")>> /\ Top'.at = "create"
  BY <1>1, <1>2, GotoNext
<1>4. At("write") = FALSE /\ At("write")' = FALSE
  BY <1>1, <1>3 DEF At
<1>5. buffer' \in Content
  <2>1. tree \in [DOMAIN tree -> Node]
    BY <1>2 DEF IsTree, TreeOf
  <2> QED BY <1>1, <2>1, Nodes DEF FileAt
<1>6. Values' /\ Holding'
  BY <1>1, <1>2, <1>4, <1>5 DEF IInv, Values, Holding
<1>7. Running'
  BY <1>1, <1>2, <1>3 DEF Running, Stages
<1>8. Progress' /\ Copied' /\ Plain'
  BY <1>1, <1>2, <1>4 DEF IInv, Progress, Copied, Plain
<1> QED BY <1>6, <1>7, <1>8 DEF IInv

\* Where a write or a copy is when it writes.
LEMMA WriterAt ==
  ASSUME IInv, NEW r \in {"create", "write"}, At(r)
  PROVE  /\ call # Idle /\ call \in Calls /\ IsTree(before) /\ IsTree(tree)
         /\ call.op \in {"write", "copy"} /\ stack = <<Frame(call.path, r)>>
         /\ Destination = Into(tree, call) /\ Payload \in Content
         /\ \A u : SameLinks(tree, u) => Into(u, call) = Into(tree, call)
<1>1. /\ call # Idle /\ call \in Calls /\ IsTree(before) /\ IsTree(tree)
      /\ call.op \in {"write", "copy"} /\ stack = <<Frame(call.path, r)>>
  BY Innermost, StageOf
<1>2. Payload \in Content
  BY <1>1, CallFields DEF Payload, IInv, Values
<1>3. ASSUME NEW u, SameLinks(tree, u) PROVE Into(u, call) = Into(tree, call)
  <2>1. call.path \in Seq(Name) /\ (call.op = "copy" => call.to \in Seq(Name))
    BY <1>1, CallFields
  <2> QED BY <1>1, <1>3, <2>1, SameLinksLead DEF Into
<1> QED BY <1>1, <1>2, <1>3 DEF Destination, Into

LEMMA CreateStep ==
  ASSUME IInv, CreateFile
  PROVE  IInv' /\ call' = call
         /\ \A q \in DOMAIN tree \cup DOMAIN tree' : q # Into(tree, call) => Same(tree, tree', q)
<1> DEFINE p == Into(tree, call)
<1>1. /\ At("create") /\ Goto("write", {})
      /\ UNCHANGED <<call, answer, buffer, quiet, steady, edits, calls, before>>
  BY DEF CreateFile, Request, history
<1>2. /\ call # Idle /\ call \in Calls /\ IsTree(before) /\ IsTree(tree)
      /\ call.op \in {"write", "copy"} /\ stack = <<Frame(call.path, "create")>>
      /\ Destination = p /\ \A u : SameLinks(tree, u) => Into(u, call) = p
  BY <1>1, WriterAt
<1>3. /\ FileAt(tree, p) \/ (p \in Path \ DOMAIN tree /\ DirAt(tree, Parent(p)))
      /\ tree' = Put(tree, p, File(Empty)) /\ handle' = {p}
  BY <1>2 DEF CreateFile
<1> HIDE DEF p
<1>4. p \in Path /\ Empty \in Content
  BY <1>2, <1>3 DEF IsTree, TreeOf, FileAt, Content
<1>5. /\ IsTree(tree') /\ SameLinks(tree, tree') /\ DOMAIN tree' = DOMAIN tree \cup {p}
      /\ FileAt(tree', p) /\ \A q \in DOMAIN tree \ {p} : tree'[q] = tree[q]
  BY <1>2, <1>3, <1>4, FilePut
<1>6. stack' = <<Frame(call.path, "write")>> /\ At("write")' /\ ~At("open") /\ ~At("write")
  <2>1. stack' = <<Frame(call.path, "write")>> /\ Top'.at = "write"
    BY <1>1, <1>2, GotoNext
  <2>2. stack' # <<>>
    BY <2>1
  <2> QED BY <1>1, <2>1, <2>2 DEF At
<1>7. Running'
  BY <1>1, <1>2, <1>6 DEF Running, Stages
<1>8. Values'
  BY <1>1, <1>5 DEF IInv, Values
<1>9. Into(tree', call') = p /\ Destination' = Into(tree', call')
  BY <1>1, <1>2, <1>5 DEF Destination, Into
<1>10. Holding'
  BY <1>3, <1>4, <1>5, <1>6, <1>9 DEF Holding
<1>11. Progress'
  <2> SUFFICES ASSUME quiet
               PROVE  /\ handle' = {Into(before, call)} /\ ~DirAt(before, Into(before, call))
                      /\ tree' = Put(before, Into(before, call), File(Empty))
    BY <1>1, <1>2, <1>4, <1>6 DEF Progress
  <2>1. tree = before
    BY <1>2, <1>6 DEF IInv, Progress
  <2>2. ~DirAt(tree, p)
    BY <1>3 DEF FileAt, DirAt
  <2> QED BY <1>3, <2>1, <2>2 DEF p
<1>12. Copied' /\ Plain'
  BY <1>1, <1>2, <1>6 DEF IInv, Copied, Plain
<1>13. \A q \in DOMAIN tree \cup DOMAIN tree' : q # p => Same(tree, tree', q)
  BY <1>5 DEF Same
<1> QED BY <1>1, <1>7, <1>8, <1>10, <1>11, <1>12, <1>13 DEF IInv, p

\* What is written into the file that is held.
LEMMA FillStep ==
  ASSUME IInv, At("write"), NEW d \in Content, Filled(d)
  PROVE  /\ IsTree(tree') /\ SameLinks(tree, tree') /\ \A p \in handle : FileAt(tree', p)
         /\ steady => \A q \in DOMAIN tree \cup DOMAIN tree' :
                        q # Into(tree, call) => Same(tree, tree', q)
         /\ quiet => /\ handle = {Into(before, call)}
                     /\ tree' = Put(before, Into(before, call), File(d))
<1>1. /\ call # Idle /\ IsTree(tree) /\ call.op \in {"write", "copy"}
      /\ Destination = Into(tree, call)
  BY WriterAt
<1>2. \A p \in handle : FileAt(tree, p)
  BY DEF IInv, Holding
<1>3. tree' = [p \in DOMAIN tree |-> IF p \in handle THEN File(d) ELSE tree[p]]
  BY DEF Filled
<1>4. /\ IsTree(tree') /\ SameLinks(tree, tree') /\ DOMAIN tree' = DOMAIN tree
      /\ \A p : FileAt(tree, p) => FileAt(tree', p)
  BY <1>1, <1>2, <1>3, FilesFilled
<1>5. steady => handle \subseteq {Into(tree, call)}
  BY <1>1 DEF IInv, Holding
<1>6. steady => \A q \in DOMAIN tree \cup DOMAIN tree' :
                  q # Into(tree, call) => Same(tree, tree', q)
  BY <1>3, <1>5 DEF Same
<1>7. ASSUME quiet
      PROVE  handle = {Into(before, call)} /\ tree' = Put(before, Into(before, call), File(d))
  <2> DEFINE p == Into(before, call)
  <2>1. handle = {p} /\ \E e \in Content : tree = Put(before, p, File(e))
    BY <1>1, <1>7 DEF IInv, Progress
  <2>2. PICK e \in Content : tree = Put(before, p, File(e))
    BY <2>1
  <2> HIDE DEF p
  <2>3. tree = [q \in DOMAIN before \cup {p} |-> IF q = p THEN File(e) ELSE before[q]]
    BY <2>2 DEF Put
  <2>4. tree' = [q \in DOMAIN before \cup {p} |-> IF q = p THEN File(d) ELSE before[q]]
    BY <1>3, <2>1, <2>3
  <2> QED BY <2>1, <2>4 DEF Put, p
<1> QED BY <1>2, <1>4, <1>6, <1>7

LEMMA WriteSomeStep ==
  ASSUME IInv, WriteSome
  PROVE  IInv' /\ call' = call
<1>1. /\ At("write") /\ Filled(Torn) /\ Torn \in Content
      /\ UNCHANGED <<call, stack, answer, handle, buffer, quiet, steady, edits, calls, before>>
  BY DEF WriteSome, Request, history, Content
<1>2. /\ call # Idle /\ call \in Calls /\ call.op \in {"write", "copy"}
      /\ Destination = Into(tree, call)
      /\ \A u : SameLinks(tree, u) => Into(u, call) = Into(tree, call)
  BY <1>1, WriterAt
<1>3. /\ IsTree(tree') /\ SameLinks(tree, tree') /\ \A p \in handle : FileAt(tree', p)
      /\ quiet => /\ handle = {Into(before, call)}
                  /\ tree' = Put(before, Into(before, call), File(Torn))
  BY <1>1, FillStep
<1>4. At("write")' /\ ~At("open") /\ ~At("open")'
  BY <1>1 DEF At, Top
<1>5. Destination' = Destination
  BY <1>1, <1>2, <1>3 DEF Destination, Into
<1>6. Values' /\ Holding'
  BY <1>1, <1>3, <1>4, <1>5 DEF IInv, Values, Holding
<1>7. Running'
  BY <1>1, <1>2 DEF IInv, Running
<1>8. Progress' /\ Copied' /\ Plain'
  BY <1>1, <1>2, <1>3, <1>4 DEF IInv, Progress, Copied, Plain
<1> QED BY <1>1, <1>6, <1>7, <1>8 DEF IInv

LEMMA WriteRestStep ==
  ASSUME IInv, WriteRest
  PROVE  IInv' /\ call' = Idle
<1>1. /\ At("write") /\ Filled(Payload) /\ Answer(TRUE, Nothing)
      /\ UNCHANGED <<handle, buffer, quiet, steady, edits, calls, before>>
  BY DEF WriteRest, Request, history
<1>2. Payload \in Content
  BY <1>1, WriterAt
<1>3. IsTree(tree') /\ \A p \in handle : FileAt(tree', p)
  BY <1>1, <1>2, FillStep
<1>4. buffer' \in Content
  BY <1>1 DEF IInv, Values
<1> QED BY <1>1, <1>3, <1>4, AnswerStep DEF Answer

\* An operation of one request that makes it.
LEMMA OnlyRequest ==
  ASSUME IInv, NEW r \in {"mkdir", "rename"}, At(r)
  PROVE  /\ call # Idle /\ call \in Calls /\ IsTree(tree) /\ call.op = r /\ Top.path = call.path
         /\ call.path \in Seq(Name) /\ call.path # <<>> /\ handle = {}
         /\ quiet => tree = before
<1>1. call # Idle /\ call \in Calls /\ IsTree(tree) /\ r \in Stages(call.op)
  BY Innermost
<1>2. call.op = r
  BY <1>1, StageOf
<1>3. ~At("write")
  BY DEF At
<1>4. Top.path = call.path /\ call.path \in Seq(Name) /\ call.path # <<>>
  BY <1>1, <1>2, Innermost, CallFields
<1>5. handle = {} /\ (quiet => tree = before)
  BY <1>1, <1>2, <1>3 DEF IInv, Holding, Progress
<1> QED BY <1>1, <1>2, <1>4, <1>5

LEMMA MakeDirStep ==
  ASSUME IInv, MakeDir
  PROVE  /\ IInv' /\ call.op = "mkdir"
         /\ \A q \in DOMAIN tree \cup DOMAIN tree' :
              q # Locate(tree, call.path) => Same(tree, tree', q)
         /\ quiet => tree = before /\ tree' = Put(before, Locate(before, call.path), Dir)
<1>1. /\ At("mkdir") /\ Answer(TRUE, Nothing)
      /\ UNCHANGED <<handle, buffer, quiet, steady, edits, calls, before>>
  BY DEF MakeDir, Request, history
<1>2. /\ IsTree(tree) /\ call.op = "mkdir" /\ Top.path = call.path /\ handle = {}
      /\ quiet => tree = before
  BY <1>1, OnlyRequest
<1> DEFINE p == Locate(tree, call.path)
<1>3. /\ p \in Path \ DOMAIN tree /\ DirAt(tree, Parent(p)) /\ tree' = Put(tree, p, Dir)
  BY <1>2 DEF MakeDir
<1>4. \A q \in DOMAIN tree \cup DOMAIN tree' : q # p => Same(tree, tree', q)
  BY <1>3 DEF Put, Same
<1>5. quiet => tree = before /\ tree' = Put(before, Locate(before, call.path), Dir)
  BY <1>2, <1>3
<1> HIDE DEF p
<1>6. IsTree(tree')
  <2>1. ~DirAt(tree, p) /\ Dir \in Node
    BY <1>3, Nodes DEF DirAt
  <2> QED BY <1>2, <1>3, <2>1, PutTree DEF IsTree
<1>7. buffer' \in Content
  BY <1>1 DEF IInv, Values
<1>8. IInv'
  BY <1>1, <1>2, <1>6, <1>7, AnswerStep
<1> QED BY <1>2, <1>4, <1>5, <1>8 DEF p

LEMMA RenameStep ==
  ASSUME IInv, RenamePath
  PROVE  /\ IInv' /\ call.op = "rename"
         /\ \A q \in (DOMAIN tree \cup DOMAIN tree') \ Named(tree, call) : Same(tree, tree', q)
         /\ quiet => /\ tree = before
                     /\ tree' = Moved(before, Locate(before, call.path), Locate(before, call.to))
<1>1. /\ At("rename") /\ Answer(TRUE, Nothing)
      /\ UNCHANGED <<handle, buffer, quiet, steady, edits, calls, before>>
  BY DEF RenamePath, Request, history
<1>2. /\ call \in Calls /\ IsTree(tree) /\ call.op = "rename" /\ Top.path = call.path
      /\ call.path \in Seq(Name) /\ call.path # <<>> /\ handle = {}
      /\ quiet => tree = before
  BY <1>1, OnlyRequest
<1>3. call.to \in Seq(Name) /\ call.to # <<>>
  BY <1>2, CallFields
<1> DEFINE from == Locate(tree, call.path)
           to == Locate(tree, call.to)
<1>4. /\ from \in DOMAIN tree /\ DirAt(tree, Parent(to))
      /\ \/ from = to
         \/ to \notin DOMAIN tree /\ ~IsPrefix(from, to)
         \/ to \in DOMAIN tree /\ tree[to] # Dir /\ tree[from] # Dir
      /\ Rebased(DOMAIN tree, from, to) \subseteq Path
      /\ tree' = Moved(tree, from, to)
  BY <1>2 DEF RenamePath
<1>5. quiet => /\ tree = before
               /\ tree' = Moved(before, Locate(before, call.path), Locate(before, call.to))
  BY <1>2, <1>4
<1>6. from # <<>> /\ to \in Seq(Name) /\ to # <<>>
  BY <1>2, <1>3, FollowPaths
<1>7. Named(tree, call) = Within(from, Path) \cup Within(to, Path)
  BY <1>2 DEF Named
<1> HIDE DEF from, to
<1>8. /\ IsTree(tree')
      /\ \A q \in DOMAIN tree \cup DOMAIN tree' :
           ~IsPrefix(from, q) /\ ~IsPrefix(to, q) => Same(tree, tree', q)
  BY <1>2, <1>4, <1>6, TreeMoved
<1>9. \A q \in (DOMAIN tree \cup DOMAIN tree') \ Named(tree, call) : Same(tree, tree', q)
  <2>1. DOMAIN tree \cup DOMAIN tree' \subseteq Path
    BY <1>2, <1>8 DEF IsTree, TreeOf
  <2> QED BY <1>7, <1>8, <2>1 DEF Within
<1>10. buffer' \in Content
  BY <1>1 DEF IInv, Values
<1>11. IInv'
  BY <1>1, <1>2, <1>8, <1>10, AnswerStep
<1> QED BY <1>2, <1>5, <1>9, <1>11

\* A delete holds no file, and has not left the paths below its own.
LEMMA Deletes ==
  ASSUME IInv, call # Idle, call.op = "remove"
  PROVE  /\ call \in Calls /\ IsTree(before) /\ IsTree(tree) /\ handle = {}
         /\ call.path \in Seq(Name) /\ call.path # <<>>
         /\ Activations(stack, call.path)
         /\ steady => AllDescended(tree, stack)
<1>1. /\ call \in Calls /\ IsTree(before) /\ IsTree(tree)
      /\ Activations(stack, call.path) /\ (steady => AllDescended(tree, stack))
  BY DEF IInv, Running, Values
<1>2. ~At("write")
  <2>1. At("write") => "write" \in Stages(call.op)
    BY Innermost
  <2> QED BY <1>1, <2>1, StageOf DEF Removing
<1>3. handle = {}
  BY <1>2 DEF IInv, Holding
<1> QED BY <1>1, <1>3, CallFields

\* It goes on as far as it has not been answered.
LEMMA DeleteGoesOn ==
  ASSUME IInv, call # Idle, call.op = "remove", call' = call, Values',
         Activations(stack', call.path), steady' => AllDescended(tree', stack'),
         UNCHANGED <<handle, before>>, Plain',
         quiet' => /\ Pruned(before, tree', Locate(before, call.path))
                   /\ \/ Locate(tree', call.path) = Locate(before, call.path)
                      \/ Locate(tree', call.path) \notin DOMAIN tree'
  PROVE  IInv'
<1>1. call \in Calls /\ IsTree(before) /\ handle = {}
  BY Deletes
<1>2. ~At("write")'
  <2>1. stack' \in Seq(Activation) /\ stack' # <<>>
    BY DEF Activations
  <2>2. Head(stack') \in Activation
    BY <2>1, HeadTailProperties
  <2> QED BY <2>2 DEF At, Top, Activation, Removing
<1>3. Running' /\ Holding'
  BY <1>1, <1>2 DEF Running, Holding
<1>4. Progress' /\ Copied'
  BY DEF Progress, Copied
<1> QED BY <1>3, <1>4 DEF IInv

\* What a delete does when it removes the entry l.
LEMMA DeleteEffect ==
  ASSUME IInv, call # Idle, call.op = "remove",
         NEW l, l = Locate(tree, Top.path), l \in DOMAIN tree, Children(tree, l) = {},
         tree' = Without(tree, {l})
  PROVE  /\ IsTree(tree') /\ Loses(tree, tree', l)
         /\ steady => /\ AllDescended(tree', stack)
                      /\ IsPrefix(Locate(tree, call.path), l)
         /\ quiet => /\ Locate(tree, call.path) = Locate(before, call.path)
                     /\ Pruned(before, tree', Locate(before, call.path))
                     /\ \/ Locate(tree', call.path) = Locate(before, call.path)
                        \/ Locate(tree', call.path) \notin DOMAIN tree'
<1> DEFINE R == Locate(tree, call.path)
<1>1. /\ IsTree(tree) /\ call.path \in Seq(Name) /\ call.path # <<>>
      /\ Activations(stack, call.path) /\ (steady => AllDescended(tree, stack))
  BY Deletes
<1>2. R \in Seq(Name) /\ R # <<>>
  BY <1>1, FollowPaths
<1>3. /\ stack \in Seq(Activation) /\ stack # <<>> /\ stack[Len(stack)].path = call.path
      /\ \A i \in 1..Len(stack) - 1 :
           \E n \in Name : stack[i].path = Append(stack[i + 1].path, n)
      /\ Len(stack) \in Nat \ {0} /\ Top = stack[1]
  <2>1. stack \in Seq(Activation) /\ stack # <<>>
    BY <1>1 DEF Activations
  <2>2. Len(stack) \in Nat \ {0} /\ Top = stack[1]
    BY <2>1, EmptySeq, HeadTailProperties DEF Top
  <2> QED BY <1>1, <2>2 DEF Activations
<1>4. steady => IsPrefix(R, l)
  BY <1>1, <1>3, ActivationsBelow
<1> HIDE DEF R
<1>5. Top.path \in Seq(Name) /\ Top.path # <<>>
  <2>1. Top.path \in Seq(Name)
    <3>1. Top \in Activation
      BY <1>3
    <3> QED BY <3>1 DEF Activation
  <2>2. CASE Len(stack) = 1
    BY <1>1, <1>3, <2>1, <2>2
  <2>3. CASE Len(stack) # 1
    <3>1. PICK k \in Nat \ {0, 1} : Len(stack) = k
      <4>1. Len(stack) \in Nat \ {0, 1}
        BY <1>3, <2>3
      <4> QED BY <4>1, Zenon
    <3>2. 1 \in 1..k - 1 /\ 2 \in 1..k /\ 1 + 1 = 2
      BY <3>1
    <3>3. PICK p \in Seq(Name) : p = stack[2].path
      <4>1. stack[2] \in Activation
        BY <1>3, <3>1, <3>2
      <4> QED BY <4>1 DEF Activation
    <3>4. PICK n \in Name : Top.path = Append(p, n)
      BY <1>3, <3>1, <3>2, <3>3
    <3>5. Append(p, n) # <<>>
      BY AppendProperties
    <3> QED BY <2>1, <3>4, <3>5
  <2> QED BY <2>2, <2>3
<1>6. l \in Seq(Name) /\ l # <<>>
  BY <1>1, <1>5, FollowPaths
<1>7. IsTree(tree') /\ Lasting(tree, tree') /\ Loses(tree, tree', l)
  <2>1. PICK t, u : t = tree /\ u = tree'
    OBVIOUS
  <2>2. IsTree(t) /\ l \in DOMAIN t /\ Children(t, l) = {} /\ u = Without(t, {l})
    BY <1>1, <2>1
  <2>3. IsTree(u) /\ Lasting(t, u) /\ Loses(t, u, l)
    BY <1>6, <2>2, EntryRemoved
  <2> QED BY <2>1, <2>3
<1>8. steady => AllDescended(tree', stack)
  BY <1>1, <1>3, <1>7, DescendedLasts
<1>9. Locate(tree', call.path) = R \/ Locate(tree', call.path) \notin DOMAIN tree'
  BY <1>1, <1>7 DEF Lasting, R
<1>10. ASSUME quiet PROVE R = Locate(before, call.path) /\ Pruned(before, tree', R)
  <2>1. IsPrefix(R, l)
    BY <1>4, <1>10 DEF IInv, Values
  <2>2. R \in DOMAIN tree
    <3>1. l # R => DirAt(tree, R)
      BY <1>1, <1>2, <2>1, Paths, DirectoriesAbove DEF IsTree
    <3> QED BY <3>1 DEF DirAt
  <2>3. Pruned(before, tree, Locate(before, call.path)) /\ R = Locate(before, call.path)
    BY <1>10, <2>2 DEF IInv, Progress, R
  <2> QED BY <1>7, <2>1, <2>3 DEF Pruned, Loses
<1> QED BY <1>4, <1>7, <1>8, <1>9, <1>10 DEF R

\* The whole of what a delete is for is done when it removes the entry itself.
LEMMA DeleteDone ==
  ASSUME NEW t, IsTree(t), NEW u, IsTree(u), NEW r \in DOMAIN u, Children(u, r) = {},
         Pruned(t, u, r), NEW v, IsTree(v), Loses(u, v, r)
  PROVE  v = Without(t, Within(r, DOMAIN t))
<1>1. r \in Seq(Name) /\ DOMAIN t \subseteq Seq(Name)
  BY Paths DEF IsTree, TreeOf
<1>2. \A p \in DOMAIN u : IsPrefix(r, p) => p = r
  BY <1>1, Paths, NothingBelow DEF IsTree
<1>3. IsPrefix(r, r)
  BY <1>1, PrefixTransitive
<1>4. DOMAIN v = DOMAIN t \ Within(r, DOMAIN t)
  BY <1>2, <1>3 DEF Pruned, Loses, Within
<1>5. v = [p \in DOMAIN v |-> t[p]]
  BY DEF Pruned, Loses, IsTree, TreeOf
<1> QED BY <1>4, <1>5 DEF Without, Restrict

\* A delete that goes on to another request, and changes nothing.
LEMMA DeleteTurns ==
  ASSUME IInv, call # Idle, call.op = "remove", Activations(stack', call.path),
         steady => AllDescended(tree, stack'),
         call.recursive \/ (Len(stack') = 1 /\ Top'.at \in {"rmdir", "unlink"}),
         UNCHANGED <<tree, call, handle, buffer, quiet, steady, edits, calls, before>>
  PROVE  IInv'
<1>1. Values'
  BY DEF IInv, Values
<1>2. quiet' => /\ Pruned(before, tree', Locate(before, call.path))
                /\ \/ Locate(tree', call.path) = Locate(before, call.path)
                   \/ Locate(tree', call.path) \notin DOMAIN tree'
  BY DEF IInv, Progress
<1>3. Plain' /\ (steady' => AllDescended(tree', stack'))
  BY DEF IInv, Plain
<1> QED BY <1>1, <1>2, <1>3, DeleteGoesOn

LEMMA GotoDeletes ==
  ASSUME IInv, NEW r, At(r), call.op = "remove",
         NEW q \in Removing, NEW todo \in SUBSET Name, Goto(q, todo),
         steady /\ q \in {"readdir", "each"} => Follow(tree, Top.path) = Locate(tree, Top.path),
         call.recursive \/ q \in {"rmdir", "unlink"},
         UNCHANGED <<tree, call, handle, buffer, quiet, steady, edits, calls, before>>
  PROVE  IInv'
<1>1. /\ call # Idle /\ Activations(stack, call.path) /\ (steady => AllDescended(tree, stack))
      /\ Top \in Activation /\ Top = stack[1]
  BY Innermost
<1>2. PICK f : f = [Top EXCEPT !.at = q, !.todo = todo]
  OBVIOUS
<1>3. f \in Activation /\ f.path = Top.path /\ f.at = q
  <2>1. Top \in [path : {Top.path}, at : {Top.at}, todo : {Top.todo}] /\ Top.path \in Seq(Name)
    BY <1>1 DEF Activation
  <2>2. f \in [path : {Top.path}, at : {q}, todo : {todo}]
    BY <1>2, <2>1
  <2> QED BY <2>1, <2>2 DEF Activation
<1>4. steady => Descended(tree, f)
  BY <1>3 DEF Descended
<1>5. /\ Activations(<<f>> \o Tail(stack), call.path)
      /\ steady => AllDescended(tree, <<f>> \o Tail(stack))
  BY <1>1, <1>3, <1>4, ActivationGoes
<1>6. stack' = <<f>> \o Tail(stack)
  BY <1>2 DEF Goto
<1>7. ASSUME ~call.recursive PROVE Len(stack') = 1 /\ Top'.at = q
  <2>1. stack \in Seq(Activation) /\ stack # <<>> /\ Len(stack) = 1
    BY <1>1, <1>7 DEF Activations, IInv, Plain
  <2>2. stack' \in Seq(Activation) /\ stack' # <<>> /\ Len(stack') = 1 /\ stack'[1] = f
    BY <1>3, <1>6, <2>1, ReplaceFirst
  <2>3. Head(stack') = stack'[1]
    BY <2>2, HeadTailProperties
  <2> QED BY <1>3, <2>2, <2>3 DEF Top
<1>8. Activations(stack', call.path) /\ (steady => AllDescended(tree, stack'))
  BY <1>5, <1>6
<1>9. call.recursive \/ (Len(stack') = 1 /\ Top'.at \in {"rmdir", "unlink"})
  BY <1>7
<1> QED BY <1>1, <1>8, <1>9, DeleteTurns

LEMMA RemoveStatStep ==
  ASSUME IInv, RemoveStat
  PROVE  IInv' /\ tree' = tree /\ call' = call
<1> DEFINE p == Locate(tree, Top.path)
           q == IF Kind(tree, p) # "dir" THEN "unlink"
                ELSE IF call.recursive THEN "readdir" ELSE "rmdir"
<1>1. /\ At("lstat") /\ p \in DOMAIN tree /\ Goto(q, {})
      /\ UNCHANGED <<tree, call, handle, buffer, quiet, steady, edits, calls, before>>
  BY DEF RemoveStat, Request, history
<1>2. call \in Calls /\ call.op = "remove" /\ IsTree(tree) /\ Top.path \in Seq(Name)
  BY <1>1, Innermost, StageOf
<1>3. q \in Removing /\ {} \in SUBSET Name
  BY DEF Removing
<1>4. ASSUME q \in {"readdir", "each"} PROVE Follow(tree, Top.path) = p
  <2>1. Kind(tree, p) = "dir"
    BY <1>4
  <2>2. tree[p].kind # "link"
    BY <2>1 DEF Kind
  <2> QED BY <1>2, <2>2, FollowPaths DEF Deref
<1>5. call.recursive \/ q \in {"rmdir", "unlink"}
  OBVIOUS
<1> HIDE DEF q
<1>6. IInv'
  BY <1>1, <1>2, <1>3, <1>4, <1>5, GotoDeletes
<1> QED BY <1>1, <1>6

LEMMA RemoveListStep ==
  ASSUME IInv, RemoveList
  PROVE  IInv' /\ tree' = tree /\ call' = call
<1> DEFINE todo == Names(tree, Follow(tree, Top.path)) \ {Dot, DotDot}
<1>1. /\ At("readdir") /\ call.op = "remove" /\ Goto("each", todo)
      /\ UNCHANGED <<tree, call, handle, buffer, quiet, steady, edits, calls, before>>
  BY DEF RemoveList, Request, history
<1>2. /\ IsTree(tree) /\ Activations(stack, call.path) /\ Top = stack[1]
      /\ Top.at = "readdir" /\ stack # <<>> /\ (steady => AllDescended(tree, stack))
  BY <1>1, Innermost DEF At
<1>3. steady => Follow(tree, Top.path) = Locate(tree, Top.path)
  <2>1. 1 \in 1..Len(stack)
    BY <1>2, EmptySeq DEF Activations
  <2> QED BY <1>2, <2>1 DEF AllDescended, Descended
<1>4. todo \in SUBSET Name
  <2>1. \A p \in DOMAIN tree : p # <<>> => Last(p) \in Name
    BY <1>2, Paths, FrontLast DEF IsTree, TreeOf
  <2> QED BY <2>1 DEF Names, Children
<1> HIDE DEF todo
<1>5. "each" \in Removing /\ call.recursive
  BY <1>1, <1>2 DEF Removing, IInv, Plain
<1>6. IInv'
  BY <1>1, <1>3, <1>4, <1>5, GotoDeletes
<1> QED BY <1>1, <1>6

LEMMA RemoveNextStep ==
  ASSUME IInv, NEW n \in Name, RemoveNext(n)
  PROVE  IInv' /\ tree' = tree /\ call' = call
<1>1. /\ At("each")
      /\ stack' = <<Frame(Append(Top.path, n), "lstat"), [Top EXCEPT !.todo = @ \ {n}]>> \o Tail(stack)
      /\ UNCHANGED <<tree, call, handle, buffer, quiet, steady, edits, calls, before>>
  BY DEF RemoveNext, Request, history
<1>2. /\ call \in Calls /\ call # Idle /\ call.op = "remove" /\ Top.path \in Seq(Name)
      /\ Top.at = "each"
  BY <1>1, Innermost, StageOf DEF At
<1>3. /\ Activations(stack, call.path) /\ (steady => AllDescended(tree, stack))
      /\ Top \in Activation /\ Top = stack[1]
  BY <1>1, <1>2, Innermost
<1>4. stack \in Seq(Activation) /\ stack # <<>> /\ 1 \in 1..Len(stack)
  BY <1>3, EmptySeq DEF Activations
<1>5. PICK f, g : f = Frame(Append(Top.path, n), "lstat") /\ g = [Top EXCEPT !.todo = @ \ {n}]
  OBVIOUS
<1>6. f \in Activation /\ f.path = Append(Top.path, n) /\ f.at = "lstat"
  <2>1. Append(Top.path, n) \in Seq(Name)
    BY <1>2, AppendProperties
  <2> QED BY <1>5, <2>1 DEF Frame, Activation, Removing
<1>7. g \in Activation /\ g.path = Top.path /\ g.at = "each"
  BY <1>2, <1>3, <1>5 DEF Activation
<1>8. steady => Descended(tree, g)
  BY <1>3, <1>4, <1>7, <1>2 DEF AllDescended, Descended
<1> DEFINE s == <<g>> \o Tail(stack)
<1>9. Activations(s, call.path) /\ (steady => AllDescended(tree, s)) /\ s[1] = g
  BY <1>3, <1>4, <1>7, <1>8, ActivationGoes, ReplaceFirst
<1>10. stack' = <<f>> \o s
  <2>1. Tail(stack) \in Seq(Activation)
    BY <1>4, Popped
  <2>2. <<f, g>> \o Tail(stack) = <<f>> \o (<<g>> \o Tail(stack))
    BY <1>6, <1>7, <2>1, PushedTwo
  <2>3. stack' = <<f, g>> \o Tail(stack)
    BY <1>1, <1>5
  <2> QED BY <2>2, <2>3
<1> HIDE DEF s
<1>11. Activations(stack', call.path) /\ (steady => AllDescended(tree, stack'))
  BY <1>6, <1>7, <1>9, <1>10, ActivationEnters
<1>12. IInv'
  <2>1. call.recursive
    BY <1>2 DEF IInv, Plain
  <2> QED BY <1>1, <1>2, <1>11, <2>1, DeleteTurns
<1> QED BY <1>1, <1>12

LEMMA RemoveEntryStep ==
  ASSUME IInv, RemoveDir \/ RemoveFile
  PROVE  /\ IInv' /\ call.op = "remove" /\ call' \in {call, Idle}
         /\ steady => \A q \in (DOMAIN tree \cup DOMAIN tree') \ Named(tree, call) :
                        Same(tree, tree', q)
         /\ call' # call =>
              /\ Locate(tree, call.path) \notin DOMAIN tree'
              /\ quiet =>
                   /\ tree' = Without(before, Within(Locate(before, call.path), DOMAIN before))
                   /\ Locate(before, call.path) \in DOMAIN before
                   /\ call.recursive \/ Children(before, Locate(before, call.path)) = {}
<1> DEFINE l == Locate(tree, Top.path)
           R == Locate(tree, call.path)
<1>1. /\ \E r \in {"each", "rmdir", "unlink"} : At(r)
      /\ tree' = Without(tree, {l}) /\ Return
      /\ UNCHANGED <<handle, buffer, quiet, steady, edits, calls, before>>
  BY DEF RemoveDir, RemoveFile, Request, history
<1>2. PICK r \in {"each", "rmdir", "unlink"} : At(r)
  BY <1>1
<1>3. /\ call # Idle /\ call \in Calls /\ call.op = "remove" /\ IsTree(tree) /\ IsTree(before)
  BY <1>2, Innermost, StageOf
<1>4. /\ Activations(stack, call.path) /\ (steady => AllDescended(tree, stack))
      /\ Top = stack[1] /\ call.path \in Seq(Name) /\ handle = {}
  BY <1>2, <1>3, Innermost, Deletes
<1>5. l \in DOMAIN tree /\ Children(tree, l) = {}
  <2>1. CASE RemoveDir
    BY <2>1 DEF RemoveDir, DirAt
  <2>2. CASE RemoveFile
    <3>1. l \in DOMAIN tree /\ tree[l] # Dir
      BY <2>2 DEF RemoveFile
    <3>2. ~DirAt(tree, l)
      BY <1>3, <3>1, Nodes DEF DirAt, IsTree, TreeOf
    <3> QED BY <1>3, <3>1, <3>2, OnlyDirectoriesHold
  <2> QED BY <2>1, <2>2
<1> HIDE DEF l
<1>6. l = Locate(tree, Top.path)
  BY DEF l
<1>7. /\ IsTree(tree') /\ Loses(tree, tree', l)
      /\ steady => AllDescended(tree', stack) /\ IsPrefix(R, l)
      /\ quiet => /\ R = Locate(before, call.path)
                  /\ Pruned(before, tree', Locate(before, call.path))
                  /\ \/ Locate(tree', call.path) = Locate(before, call.path)
                     \/ Locate(tree', call.path) \notin DOMAIN tree'
  BY <1>1, <1>3, <1>5, <1>6, DeleteEffect
<1>8. steady => \A q \in (DOMAIN tree \cup DOMAIN tree') \ Named(tree, call) :
                  Same(tree, tree', q)
  <2>1. Named(tree, call) = Within(R, DOMAIN tree)
    BY <1>3 DEF Named
  <2>2. steady => l \in Within(R, DOMAIN tree)
    BY <1>5, <1>7 DEF Within
  <2> HIDE DEF R
  <2> QED BY <1>7, <2>1, <2>2 DEF Loses, Same
<1>9. CASE Len(stack) = 1
  <2>1. Answer(TRUE, Nothing) /\ call' = Idle
    BY <1>1, <1>9 DEF Return, Answer
  <2>2. buffer' \in Content /\ \A p \in handle : FileAt(tree', p)
    BY <1>1, <1>4 DEF IInv, Values
  <2>3. IInv'
    BY <1>1, <1>7, <2>1, <2>2, AnswerStep
  <2>4. l = R
    BY <1>4, <1>6, <1>9 DEF Activations
  <2>5. R \notin DOMAIN tree'
    BY <1>7, <2>4 DEF Loses
  <2>6. ASSUME quiet
        PROVE  /\ tree' = Without(before, Within(R, DOMAIN before)) /\ R \in DOMAIN before
               /\ call.recursive \/ Children(before, R) = {}
    <3>1. R = Locate(before, call.path)
      BY <1>7, <2>6
    <3>2. Pruned(before, tree, R)
      BY <1>3, <2>6, <3>1 DEF IInv, Progress
    <3>3. PICK v : v = tree'
      OBVIOUS
    <3>4. IsTree(v) /\ Loses(tree, v, R) /\ R \in DOMAIN tree /\ Children(tree, R) = {}
      BY <1>5, <1>7, <2>4, <3>3
    <3> HIDE DEF R
    <3>5. v = Without(before, Within(R, DOMAIN before))
      BY <1>3, <3>2, <3>4, DeleteDone
    <3>6. R \in DOMAIN before
      BY <3>2, <3>4 DEF Pruned
    <3>7. call.recursive \/ Children(before, R) = {}
      BY <1>3, <2>6, <3>4 DEF IInv, Plain
    <3> QED BY <3>3, <3>5, <3>6, <3>7
  <2>7. quiet => R = Locate(before, call.path)
    BY <1>7
  <2> QED BY <1>3, <1>8, <2>1, <2>3, <2>5, <2>6, <2>7
<1>10. CASE Len(stack) # 1
  <2>1. stack' = Tail(stack) /\ call' = call
    BY <1>1, <1>10 DEF Return
  <2>2. Activations(stack', call.path) /\ (steady => AllDescended(tree', stack'))
    BY <1>4, <1>7, <1>10, <2>1, ActivationReturns
  <2>3. Values'
    BY <1>1, <1>7 DEF IInv, Values
  <2>4. Plain'
    BY <1>1, <1>3, <1>10, <2>1 DEF IInv, Plain
  <2>5. IInv'
    BY <1>1, <1>3, <1>7, <2>1, <2>2, <2>3, <2>4, DeleteGoesOn
  <2> QED BY <1>3, <1>8, <2>1, <2>5
<1> QED BY <1>9, <1>10

\* Something else is put where p was, and nothing is kept of what was below.
LEMMA Replaced ==
  ASSUME NEW t, IsTree(t), NEW p \in Path, p # <<>>, DirAt(t, Parent(p)), NEW n \in Node,
         NEW gone, gone = Without(t, Within(p, DOMAIN t))
  PROVE  /\ IsTree(gone) /\ IsTree(Put(gone, p, n))
         /\ \A q \in DOMAIN t : ~IsPrefix(p, q) =>
              /\ q \in DOMAIN gone /\ gone[q] = t[q]
              /\ q \in DOMAIN Put(gone, p, n) /\ Put(gone, p, n)[q] = t[q]
<1>1. p \in Seq(Name) /\ DOMAIN t \subseteq Seq(Name) /\ IsPrefix(p, p)
  BY Paths, PrefixTransitive DEF IsTree, TreeOf
<1>2. IsTree(gone)
  BY <1>1, Paths, WithoutTree DEF IsTree
<1>3. /\ DOMAIN gone = {q \in DOMAIN t : ~IsPrefix(p, q)}
      /\ \A q \in DOMAIN gone : gone[q] = t[q]
  BY DEF Without, Within, Restrict
<1>4. ~DirAt(gone, p) /\ DirAt(gone, Parent(p))
  <2>1. p \notin DOMAIN gone
    BY <1>1, <1>3
  <2>2. Parent(p) \in DOMAIN gone
    <3>1. Parent(p) \in DOMAIN t /\ Parent(p) \in Seq(Name)
      BY <1>1 DEF DirAt
    <3>2. ~IsPrefix(p, Parent(p))
      <4>1. PICK q \in Seq(Name), m \in Name : p = Append(q, m) /\ Parent(p) = q
        BY <1>1, FrontLast, FrontThenLast DEF Parent
      <4>2. Len(p) = Len(q) + 1 /\ Len(q) \in Nat
        BY <4>1, AppendProperties
      <4>3. IsPrefix(p, q) => Len(p) <= Len(q)
        BY <1>1, PrefixElements
      <4> QED BY <4>1, <4>2, <4>3
    <3> QED BY <1>3, <3>1, <3>2
  <2> QED BY <1>3, <2>1, <2>2 DEF DirAt
<1>5. IsTree(Put(gone, p, n))
  BY <1>2, <1>4, PutTree DEF IsTree
<1>6. \A q \in DOMAIN gone : q # p => q \in DOMAIN Put(gone, p, n) /\ Put(gone, p, n)[q] = gone[q]
  BY DEF Put
<1> QED BY <1>1, <1>2, <1>3, <1>5, <1>6

\* Where the links are the same, so is what they lead to.
LEMMA LinksTell ==
  ASSUME NEW t, NEW u, Links(u) = Links(t)
  PROVE  SameLinks(t, u)
<1>1. ASSUME NEW q PROVE Deref(t, q) = Deref(u, q)
  <2>1. \A r : <<q, r>> \in Links(t) <=> q \in DOMAIN t /\ t[q].kind = "link" /\ r = t[q].to
    BY DEF Links
  <2>2. \A r : <<q, r>> \in Links(t) <=> q \in DOMAIN u /\ u[q].kind = "link" /\ r = u[q].to
    BY DEF Links
  <2>3. CASE q \in DOMAIN t /\ t[q].kind = "link"
    <3>1. <<q, t[q].to>> \in Links(t)
      BY <2>1, <2>3
    <3> QED BY <2>2, <2>3, <3>1 DEF Deref
  <2>4. CASE ~(q \in DOMAIN t /\ t[q].kind = "link")
    <3>1. ~(q \in DOMAIN u /\ u[q].kind = "link")
      BY <2>1, <2>2, <2>4
    <3> QED BY <2>4, <3>1 DEF Deref
  <2> QED BY <2>3, <2>4
<1> QED BY <1>1 DEF SameLinks

\* Somebody else writes into a file, removes what is at a path or puts
\* something else there: the server's files stay a tree, the file held open
\* stays a file if it keeps its name, and unless a link comes or goes, paths
\* lead where they led.
LEMMA EditStep ==
  ASSUME IInv, NEW p \in Target, Edit(p)
  PROVE  IInv' /\ call' = call /\ edits' # edits
<1>1. /\ edits < MaxEdits /\ edits' = edits + 1 /\ quiet' = FALSE
      /\ steady' = (steady /\ Links(tree') = Links(tree))
      /\ UNCHANGED <<call, stack, buffer, answer, calls, before>>
  BY DEF Edit, history
<1>2. IsTree(tree) /\ p \in Path /\ p # <<>> /\ DirAt(tree, Parent(p))
  BY TargetAssumption DEF IInv, Values, TargetAssumption, Edit
<1>3. IsTree(tree') /\ handle' \subseteq handle /\ \A q \in handle' : FileAt(tree', q)
  <2>1. \A q \in handle : FileAt(tree, q)
    BY DEF IInv, Holding
  <2>2. PICK t, u, gone : t = tree /\ u = tree' /\ gone = Without(t, Within(p, DOMAIN t))
    OBVIOUS
  <2>3. ASSUME FileAt(tree, p), NEW d \in Data, tree' = Put(tree, p, File(d)), handle' = handle
        PROVE  IsTree(tree') /\ handle' \subseteq handle /\ \A q \in handle' : FileAt(tree', q)
    <3>1. d \in Content /\ IsTree(t) /\ FileAt(t, p) /\ u = Put(t, p, File(d))
      BY <1>2, <2>2, <2>3 DEF Content
    <3>2. IsTree(u) /\ FilesStay(t, u)
      BY <1>2, <3>1, FilePut
    <3> QED BY <2>1, <2>2, <2>3, <3>2 DEF FilesStay
  <2>4. ASSUME NEW n \in Node, u = gone \/ u = Put(gone, p, n),
               handle' = handle \ Within(p, handle)
        PROVE  IsTree(tree') /\ handle' \subseteq handle /\ \A q \in handle' : FileAt(tree', q)
    <3>1. /\ IsTree(gone) /\ IsTree(Put(gone, p, n))
          /\ \A q \in DOMAIN t : ~IsPrefix(p, q) =>
               /\ q \in DOMAIN gone /\ gone[q] = t[q]
               /\ q \in DOMAIN Put(gone, p, n) /\ Put(gone, p, n)[q] = t[q]
      BY <1>2, <2>2, Replaced
    <3>2. \A q \in handle' : q \in handle /\ ~IsPrefix(p, q)
      BY <2>4 DEF Within
    <3>3. \A q \in handle' : q \in DOMAIN u /\ u[q] = t[q] /\ t[q].kind = "file"
      BY <2>1, <2>2, <2>4, <3>1, <3>2 DEF FileAt
    <3> QED BY <2>2, <2>4, <3>1, <3>2, <3>3 DEF FileAt
  <2>5. \A n \in Made : n \in Node
    BY AimAssumption DEF AimAssumption, Made, Node, Content
  <2>6. Dir \in Node
    BY Nodes
  <2>7. \/ \E d \in Data : FileAt(tree, p) /\ tree' = Put(tree, p, File(d)) /\ handle' = handle
        \/ /\ u = gone \/ \E n \in Made : u = Put(gone, p, n)
           /\ handle' = handle \ Within(p, handle)
    BY <2>2 DEF Edit
  <2> QED BY <2>3, <2>4, <2>5, <2>6, <2>7
<1>4. ASSUME steady' PROVE steady /\ SameLinks(tree, tree')
  BY <1>1, <1>4, LinksTell
<1>5. Values'
  <2>1. edits' \in 0..MaxEdits /\ calls' \in 0..MaxCalls /\ buffer' \in Content
    BY <1>1, BoundsAssumption DEF IInv, Values, BoundsAssumption
  <2>2. quiet' \in BOOLEAN /\ steady' \in BOOLEAN /\ (quiet' => steady')
    BY <1>1
  <2> QED BY <1>3, <2>1, <2>2, Zenon DEF Values
<1>6. Running'
  <2>1. ASSUME steady', call # Idle, call.op = "remove" PROVE AllDescended(tree', stack)
    <3>1. Lasting(tree, tree')
      BY <1>2, <1>4, <2>1, SameLinksLast
    <3>2. AllDescended(tree, stack) /\ stack \in Seq(Activation)
      BY <1>4, <2>1, Deletes DEF Activations
    <3> QED BY <3>1, <3>2, DescendedLasts
  <2> QED BY <1>1, <2>1 DEF IInv, Running
<1>7. Holding'
  <2>1. At("write")' <=> At("write")
    BY <1>1 DEF At, Top
  <2>2. ASSUME At("write"), steady' PROVE steady /\ Destination' = Destination
    BY <1>1, <1>4, <2>2, WriterAt DEF Destination, Into
  <2> QED BY <1>1, <1>3, <2>1, <2>2 DEF IInv, Holding
<1>8. Progress' /\ Copied' /\ Plain'
  BY <1>1 DEF Progress, Copied, IInv, Plain, Top
<1>9. edits' # edits
  BY <1>1 DEF IInv, Values
<1> QED BY <1>1, <1>5, <1>6, <1>7, <1>8, <1>9 DEF IInv

(***************************************************************************)
(* The invariant                                                           *)
(***************************************************************************)
LEMMA Initially ==
  Init => IInv
<1> SUFFICES ASSUME Init PROVE IInv
  OBVIOUS
<1>1. IsTree(tree) /\ call = Idle /\ stack = <<>> /\ handle = {} /\ buffer = Empty
  BY TreesAssumption DEF Init, TreesAssumption
<1>2. calls \in 0..MaxCalls /\ edits \in 0..MaxEdits /\ buffer \in Content
  BY <1>1, BoundsAssumption DEF Init, BoundsAssumption, Content
<1>3. quiet \in BOOLEAN /\ steady \in BOOLEAN /\ (quiet => steady)
  BY DEF Init
<1>4. Values
  BY <1>1, <1>2, <1>3, Zenon DEF Values
<1>5. Running /\ Holding /\ Progress /\ Copied /\ Plain
  BY <1>1 DEF Running, Holding, Progress, Copied, Plain, Idle
<1> QED BY <1>4, <1>5 DEF IInv

LEMMA Inductive ==
  IInv /\ [Next]_vars => IInv'
<1> SUFFICES ASSUME IInv, [Next]_vars PROVE IInv'
  OBVIOUS
<1>1. CASE \E c \in Calls : Call(c)
  BY <1>1, CallStep
<1>2. CASE Look
  BY <1>2, LookStep, ReadToCopyStep DEF Look
<1>3. CASE Write
  BY <1>3, CreateStep, WriteSomeStep, WriteRestStep DEF Write
<1>4. CASE RemovePath
  BY <1>4, RemoveStatStep, RemoveListStep, RemoveNextStep, RemoveEntryStep DEF RemovePath
<1>5. CASE MakeDir \/ RenamePath
  BY <1>5, MakeDirStep, RenameStep
<1>6. CASE CutOff
  BY <1>6, CutOffStep
<1>7. CASE \E p \in Target : Edit(p)
  BY <1>7, EditStep
<1>8. CASE UNCHANGED vars
  BY <1>8 DEF vars, IInv, Values, Running, Holding, Progress, Copied, Plain, At, Top, Destination
<1> QED BY <1>1, <1>2, <1>3, <1>4, <1>5, <1>6, <1>7, <1>8 DEF Next

\* The stack of the operation that runs has the form TypeOK says.
LEMMA StackTypes ==
  ASSUME IInv
  PROVE  /\ call \in Calls \cup {Idle}
         /\ call = Idle <=> stack = <<>>
         /\ \A i \in DOMAIN stack : /\ stack[i].at \in Requests
                                    /\ i > 1 => stack[i].at = "each"
                                    /\ stack[i].todo \subseteq Name
<1>1. CASE call = Idle
  BY <1>1 DEF IInv, Running
<1>2. CASE call # Idle /\ call.op = "remove"
  <2>1. Activations(stack, call.path) /\ call \in Calls
    BY <1>2, Deletes
  <2>2. /\ stack \in Seq(Activation) /\ stack # <<>>
        /\ \A i \in 1..Len(stack) - 1 : stack[i + 1].at = "each"
    BY <2>1 DEF Activations
  <2>3. ASSUME NEW i \in DOMAIN stack
        PROVE  /\ stack[i].at \in Requests
               /\ i > 1 => stack[i].at = "each"
               /\ stack[i].todo \subseteq Name
    <3>1. stack[i] \in Activation /\ i \in 1..Len(stack) /\ Len(stack) \in Nat
      BY <2>2
    <3>2. ASSUME i > 1 PROVE stack[i].at = "each"
      <4>1. i - 1 \in 1..Len(stack) - 1 /\ i - 1 + 1 = i
        BY <3>1, <3>2
      <4> QED BY <2>2, <4>1
    <3> QED BY <3>1, <3>2 DEF Activation, Removing, Requests
  <2>4. call \in Calls \cup {Idle} /\ (call = Idle <=> stack = <<>>)
    BY <1>2, <2>1, <2>2
  <2> QED BY <2>3, <2>4, Zenon
<1>3. CASE call # Idle /\ call.op # "remove"
  <2>1. call \in Calls
    BY <1>3 DEF IInv, Running
  <2>2. PICK r \in Stages(call.op) : stack = <<Frame(call.path, r)>>
    BY <1>3 DEF IInv, Running
  <2>3. r \in Requests
    <3>1. call.op \in {"list", "stat", "read", "write", "mkdir", "rename", "copy"}
      BY <1>3, <2>1, CallFields
    <3> QED BY <2>2, <3>1 DEF Stages, Requests
  <2> QED BY <1>3, <2>1, <2>2, <2>3 DEF Frame
<1> QED BY <1>1, <1>2, <1>3

\* The server's files are a tree at every time, whatever the operations, the
\* failures and the others do, and an operation is at one of its requests.
THEOREM TypeCorrect == Spec => []TypeOK
<1>1. IInv => TypeOK
  BY StackTypes DEF IInv, Values, Holding, TypeOK
<1> QED BY <1>1, Initially, Inductive, PTL DEF Spec

(***************************************************************************)
(* What the operations do                                                  *)
(***************************************************************************)
\* What answers an operation.
LEMMA WhatAnswers ==
  ASSUME IInv, [Next]_vars, call # Idle, call' # call
  PROVE  \/ ListDir \/ Stat \/ (ReadFile /\ call.op = "read")
         \/ WriteRest \/ MakeDir \/ RenamePath \/ RemoveDir \/ RemoveFile
         \/ CutOff
<1>1. ~(\E c \in Calls : Call(c)) /\ ~UNCHANGED vars
  BY DEF Call, vars
<1>2. ~CreateFile /\ ~WriteSome /\ ~(ReadFile /\ call.op # "read")
  BY DEF CreateFile, WriteSome, ReadFile
<1>3. ~RemoveStat /\ ~RemoveList /\ ~(\E n \in Name : RemoveNext(n))
  BY DEF RemoveStat, RemoveList, RemoveNext
<1>4. ~(\E p \in Target : Edit(p))
  BY DEF Edit
<1> QED BY <1>1, <1>2, <1>3, <1>4 DEF Next, Look, Write, RemovePath

\* Only an operation that is cut off fails.
LEMMA WhatFails ==
  ASSUME IInv, [Next]_vars, Answered
  PROVE  /\ ~answer'.ok => CutOff
         /\ CutOff => ~answer'.ok
<1>1. call # Idle /\ call' # call
  BY DEF Answered
<1>2. CASE ListDir \/ Stat \/ (ReadFile /\ call.op = "read")
  BY <1>2 DEF ListDir, Stat, ReadFile, Answer, CutOff
<1>3. CASE WriteRest \/ MakeDir \/ RenamePath
  BY <1>3 DEF WriteRest, MakeDir, RenamePath, Answer, CutOff
<1>4. CASE RemoveDir \/ RemoveFile
  <2>1. Answer(TRUE, Nothing)
    BY <1>1, <1>4 DEF RemoveDir, RemoveFile, Return
  <2> QED BY <2>1 DEF Answer, CutOff
<1>5. CASE CutOff
  BY <1>5 DEF CutOff, Answer
<1> QED BY <1>1, <1>2, <1>3, <1>4, <1>5, WhatAnswers

LEMMA StepsStayLocal ==
  ASSUME IInv, [Next]_vars, call # Idle, steady, edits' = edits
  PROVE  \A p \in (DOMAIN tree \cup DOMAIN tree') \ Named(tree, call) : Same(tree, tree', p)
<1>1. CASE tree' = tree
  BY <1>1 DEF Same
<1>2. CASE \E c \in Calls : Call(c)
  BY <1>1, <1>2 DEF Call
<1>3. CASE Look
  BY <1>1, <1>3 DEF Look, ListDir, Stat, ReadFile, Reading
<1>4. CASE Write
  <2>1. PICK r \in {"create", "write"} : At(r)
    BY <1>4 DEF Write, CreateFile, WriteSome, WriteRest, Request
  <2>2. call.op \in {"write", "copy"} /\ Payload \in Content
    BY <2>1, WriterAt
  <2>3. Named(tree, call) = {Into(tree, call)}
    BY <2>2 DEF Named, Into
  <2>4. \A q \in DOMAIN tree \cup DOMAIN tree' : q # Into(tree, call) => Same(tree, tree', q)
    <3>1. CASE CreateFile
      BY <3>1, CreateStep
    <3>2. CASE WriteSome
      BY <3>2, FillStep DEF WriteSome, Request, Content
    <3>3. CASE WriteRest
      BY <2>2, <3>3, FillStep DEF WriteRest, Request
    <3> QED BY <1>4, <3>1, <3>2, <3>3 DEF Write
  <2> QED BY <2>3, <2>4
<1>5. CASE RemovePath
  <2>1. CASE RemoveDir \/ RemoveFile
    BY <2>1, RemoveEntryStep
  <2> QED BY <1>1, <1>5, <2>1 DEF RemovePath, RemoveStat, RemoveList, RemoveNext
<1>6. CASE MakeDir
  <2>1. /\ call.op = "mkdir"
        /\ \A q \in DOMAIN tree \cup DOMAIN tree' :
             q # Locate(tree, call.path) => Same(tree, tree', q)
    BY <1>6, MakeDirStep
  <2>2. Named(tree, call) = {Locate(tree, call.path)}
    BY <2>1 DEF Named
  <2> QED BY <2>1, <2>2
<1>7. CASE RenamePath
  BY <1>7, RenameStep
<1>8. CASE CutOff \/ UNCHANGED vars
  BY <1>1, <1>8 DEF CutOff, vars
<1>9. CASE \E p \in Target : Edit(p)
  BY <1>9, EditStep
<1> QED BY <1>2, <1>3, <1>4, <1>5, <1>6, <1>7, <1>8, <1>9 DEF Next

\* As long as nobody else makes or removes a link, a step of an operation
\* changes nothing outside the paths it names: a recursive delete stays below
\* its path, whatever links it meets, and whatever files and directories
\* others write, remove or replace meanwhile (SftpFileProvider::remove).
THEOREM NothingElseChanges == Spec => OnlyNamedPathsChange
<1>1. IInv /\ [Next]_vars =>
        [(call # Idle /\ steady /\ edits' = edits) =>
           \A p \in (DOMAIN tree \cup DOMAIN tree') \ Named(tree, call) :
             Same(tree, tree', p)]_vars
  BY StepsStayLocal
<1> QED BY <1>1, Initially, Inductive, PTL DEF Spec, OnlyNamedPathsChange

\* The tree has not changed yet where an operation that is not disturbed has
\* only looked.
LEMMA NotYet ==
  ASSUME IInv, call # Idle, quiet, call.op # "remove", ~At("write")
  PROVE  tree = before
BY DEF IInv, Progress

LEMMA AnswersTakeEffect ==
  ASSUME IInv, [Next]_vars, AnsweredOk, Undisturbed
  PROVE  tree' = Effect(before, call)
<1>1. call # Idle /\ call' # call /\ call \in Calls /\ quiet /\ ~CutOff
  BY WhatFails DEF AnsweredOk, Answered, Undisturbed, IInv, Running
<1>2. CASE ListDir \/ Stat \/ (ReadFile /\ call.op = "read")
  <2>1. PICK r \in {"readdir", "stat", "open"} : At(r) /\ (r = "readdir" => call.op = "list")
    BY <1>2 DEF ListDir, Stat, ReadFile, Request
  <2>2. call.op \in {"list", "stat", "read"}
    <3>1. ListDir => call.op = "list"
      BY DEF ListDir
    <3>2. Stat => call.op = "stat"
      <4>1. Stat => At("stat")
        BY DEF Stat, Request
      <4> QED BY <1>1, <4>1, Innermost, StageOf
    <3> QED BY <1>2, <3>1, <3>2
  <2>3. ~At("write")
    BY <2>1 DEF At
  <2>4. tree' = tree
    BY <1>2, LookStep
  <2>5. tree = before
    BY <1>1, <2>2, <2>3, NotYet
  <2> QED BY <2>2, <2>4, <2>5 DEF Effect
<1>3. CASE WriteRest
  <2>1. At("write") /\ Filled(Payload)
    BY <1>3 DEF WriteRest, Request
  <2>2. call.op \in {"write", "copy"} /\ Payload \in Content /\ IsTree(before)
    BY <2>1, WriterAt
  <2>3. tree' = Put(before, Into(before, call), File(Payload))
    BY <1>1, <2>1, <2>2, FillStep
  <2>4. CASE call.op = "write"
    <3>1. Into(before, call) = Follow(before, call.path) /\ Payload = call.data
      BY <2>4 DEF Into, Payload
    <3> QED BY <2>3, <2>4, <3>1 DEF Effect
  <2>5. CASE call.op = "copy"
    <3>1. Into(before, call) = Follow(before, call.to) /\ Payload = buffer
      BY <2>5 DEF Into, Payload
    <3>2. ~At("open")
      BY <2>1 DEF At
    <3> DEFINE p == Follow(before, call.path)
    <3>3. FileAt(before, p) /\ buffer = before[p].data
      BY <1>1, <2>5, <3>2 DEF IInv, Copied
    <3>4. before[p] = File(buffer)
      BY <2>2, <3>3, Nodes DEF FileAt, IsTree, TreeOf
    <3>5. Effect(before, call) = Put(before, Follow(before, call.to), before[p])
      BY <2>5 DEF Effect
    <3> QED BY <2>3, <3>1, <3>4, <3>5
  <2> QED BY <2>2, <2>4, <2>5
<1>4. CASE MakeDir
  <2>1. call.op = "mkdir" /\ tree' = Put(before, Locate(before, call.path), Dir)
    BY <1>1, <1>4, MakeDirStep
  <2> QED BY <2>1 DEF Effect
<1>5. CASE RenamePath
  <2>1. /\ call.op = "rename"
        /\ tree' = Moved(before, Locate(before, call.path), Locate(before, call.to))
    BY <1>1, <1>5, RenameStep
  <2> QED BY <2>1 DEF Effect
<1>6. CASE RemoveDir \/ RemoveFile
  <2>1. /\ call.op = "remove"
        /\ tree' = Without(before, Within(Locate(before, call.path), DOMAIN before))
    BY <1>1, <1>6, RemoveEntryStep
  <2> QED BY <2>1 DEF Effect
<1> QED BY <1>1, <1>2, <1>3, <1>4, <1>5, <1>6, WhatAnswers

\* An operation that answers Ok has done the whole of what it is for, whatever
\* the tree and its links are: a copy holds what the file held, a rename has
\* moved all there was, a delete has left nothing (write_file, copy, mkdir,
\* rename, remove of SftpFileProvider).
THEOREM OkIsTheEffect == Spec => OkMeansEffect
<1>1. IInv /\ [Next]_vars =>
        [(AnsweredOk /\ Undisturbed) => tree' = Effect(before, call)]_vars
  BY AnswersTakeEffect
<1> QED BY <1>1, Initially, Inductive, PTL DEF Spec, OkMeansEffect

\* What an operation that nobody disturbed has done, wherever it is.
LEMMA DoneSoFar ==
  ASSUME IInv, call # Idle, quiet
  PROVE  /\ WellFormed(tree)
         /\ \A p \in DOMAIN before \ Named(before, call) : Same(before, tree, p)
         /\ call.op \in {"rename", "mkdir"} => tree = before
         /\ call.op \in {"write", "copy"} =>
              \A p \in Named(before, call) : Same(before, tree, p) \/ FileAt(tree, p)
         /\ call.op = "remove" =>
              \A p \in DOMAIN tree : p \in DOMAIN before /\ Same(before, tree, p)
<1>1. WellFormed(tree) /\ call \in Calls
  BY DEF IInv, Values, IsTree, TreeOf, Running
<1>2. CASE call.op = "remove"
  <2>1. Pruned(before, tree, Locate(before, call.path))
    BY <1>2 DEF IInv, Progress
  <2>2. Named(before, call) = Within(Locate(before, call.path), DOMAIN before)
    BY <1>2 DEF Named
  <2>3. \A p \in DOMAIN before \ Named(before, call) : Same(before, tree, p)
    BY <2>1, <2>2 DEF Pruned, Within, Same
  <2>4. \A p \in DOMAIN tree : p \in DOMAIN before /\ Same(before, tree, p)
    BY <2>1 DEF Pruned, Same
  <2> QED BY <1>1, <1>2, <2>3, <2>4
<1>3. CASE call.op # "remove" /\ ~At("write")
  <2>1. tree = before
    BY <1>3, NotYet
  <2> QED BY <1>1, <1>3, <2>1 DEF Same
<1>4. CASE call.op # "remove" /\ At("write")
  <2>1. call.op \in {"write", "copy"}
    BY <1>4, WriterAt
  <2>2. Named(before, call) = {Into(before, call)}
    BY <2>1 DEF Named, Into
  <2>3. PICK d \in Content : tree = Put(before, Into(before, call), File(d))
    BY <1>4 DEF IInv, Progress
  <2>4. File(d).kind = "file"
    BY DEF File
  <2>5. FileAt(tree, Into(before, call))
    BY <2>3, <2>4 DEF Put, FileAt
  <2>6. \A p \in DOMAIN before : p # Into(before, call) => Same(before, tree, p)
    BY <2>3 DEF Put, Same
  <2> QED BY <1>1, <2>1, <2>2, <2>5, <2>6
<1> QED BY <1>2, <1>3, <1>4

\* An operation that is cut off, at whatever request, has changed nothing
\* outside what it names, and there no more than it was about to: a copy onto
\* another file leaves its source whole, a delete only deletes
\* (SftpFileProvider).
THEOREM FailureStaysContained == Spec => FailureIsContained
<1> DEFINE Contained ==
      /\ WellFormed(tree')
      /\ \A p \in DOMAIN before \ Named(before, call) : Same(before, tree', p)
      /\ call.op \in {"rename", "mkdir"} => tree' = before
      /\ call.op \in {"write", "copy"} =>
           \A p \in Named(before, call) : Same(before, tree', p) \/ FileAt(tree', p)
      /\ call.op = "remove" =>
           \A p \in DOMAIN tree' : p \in DOMAIN before /\ Same(before, tree', p)
<1>1. ASSUME IInv, [Next]_vars, Answered, ~answer'.ok, Undisturbed PROVE Contained
  <2>1. tree' = tree
    BY <1>1, WhatFails DEF CutOff
  <2>2. call # Idle /\ quiet
    BY <1>1 DEF Answered, Undisturbed
  <2> QED BY <1>1, <2>1, <2>2, DoneSoFar
<1>2. IInv /\ [Next]_vars => [(Answered /\ ~answer'.ok /\ Undisturbed) => Contained]_vars
  <2> HIDE DEF Contained
  <2> QED BY <1>1
<1> QED BY <1>2, Initially, Inductive, PTL DEF Spec, FailureIsContained

\* A delete that answers Ok has removed what its path names, whatever others
\* did below it in the meantime (SftpFileProvider::remove).
THEOREM DeletedPathsAreGone == Spec => RemovedIsGone
<1>1. ASSUME IInv, [Next]_vars, AnsweredOk, call.op = "remove"
      PROVE  Locate(tree, call.path) \notin DOMAIN tree'
  <2>1. call # Idle /\ call' # call /\ ~CutOff /\ call \in Calls
    BY <1>1, WhatFails DEF AnsweredOk, Answered, IInv, Running
  <2>2. \A r : At(r) => r \in Removing
    BY <1>1, <2>1, Innermost, StageOf
  <2>3. ~At("stat") /\ ~At("open") /\ ~At("write") /\ ~At("mkdir") /\ ~At("rename")
    BY <2>2 DEF Removing
  <2>4. ~ListDir /\ ~Stat /\ ~ReadFile /\ ~WriteRest /\ ~MakeDir /\ ~RenamePath
    BY <1>1, <2>3 DEF ListDir, Stat, ReadFile, WriteRest, MakeDir, RenamePath, Request
  <2>5. RemoveDir \/ RemoveFile
    BY <1>1, <2>1, <2>4, WhatAnswers
  <2> QED BY <1>1, <2>1, <2>5, RemoveEntryStep
<1>2. IInv /\ [Next]_vars =>
        [(AnsweredOk /\ call.op = "remove") =>
           Locate(tree, call.path) \notin DOMAIN tree']_vars
  BY <1>1
<1> QED BY <1>2, Initially, Inductive, PTL DEF Spec, RemovedIsGone

(***************************************************************************)
(* The mock provider, for trees without links                              *)
(***************************************************************************)
LinkFree(t) == \A p \in DOMAIN t : t[p].kind # "link"

LEMMA PathsAreDirect ==
  ASSUME NEW t, IsTree(t), LinkFree(t)
  PROVE  \A p \in Seq(Name) : Follow(t, p) = p /\ Locate(t, p) = p
<1> DEFINE T == {p \in Seq(Name) : Follow(t, p) = p /\ Locate(t, p) = p}
<1>1. <<>> \in T
  <2>1. <<>> \in Seq(Name)
    OBVIOUS
  <2> QED BY <2>1, FollowHome
<1>2. ASSUME NEW p \in Seq(Name), NEW n \in Name, p \in T PROVE Append(p, n) \in T
  <2>1. PICK q \in Seq(Name) : q = Append(p, n)
    BY AppendProperties
  <2>2. Locate(t, q) = q /\ Follow(t, q) = Deref(t, q)
    BY <1>2, <2>1, FollowEntry
  <2>3. Deref(t, q) = q
    BY DEF Deref, LinkFree
  <2> QED BY <2>1, <2>2, <2>3
<1>3. Seq(Name) \subseteq T
  <2> HIDE DEF T
  <2> QED BY <1>1, <1>2, SequenceInduction
<1> QED BY <1>3

Dirs(t) == {p \in DOMAIN t : t[p].kind = "dir"}
Files(t) == [p \in {q \in DOMAIN t : t[q].kind = "file"} |-> t[p].data]

LEMMA MockHolds ==
  ASSUME NEW t, IsTree(t), LinkFree(t)
  PROVE  /\ AsMock(t) = [dirs |-> Dirs(t), files |-> Files(t)]
         /\ AsMock(t).dirs = Dirs(t) /\ AsMock(t).files = Files(t)
         /\ Held(AsMock(t)) = DOMAIN t
         /\ \A p \in DOMAIN t : /\ MockKind(AsMock(t), p) = Kind(t, p)
                                /\ Kind(t, p) \in {"dir", "file"}
         /\ \A p : /\ p \in Dirs(t) <=> DirAt(t, p)
                   /\ p \in DOMAIN Files(t) <=> FileAt(t, p)
                   /\ FileAt(t, p) => Files(t)[p] = t[p].data
<1>1. \A p \in DOMAIN t : t[p].kind \in {"dir", "file"}
  BY Nodes DEF IsTree, TreeOf, LinkFree
<1>2. /\ AsMock(t) = [dirs |-> Dirs(t), files |-> Files(t)]
      /\ AsMock(t).dirs = Dirs(t) /\ AsMock(t).files = Files(t)
  BY DEF AsMock, Dirs, Files
<1>3. \A p : /\ p \in Dirs(t) <=> DirAt(t, p)
             /\ p \in DOMAIN Files(t) <=> FileAt(t, p)
             /\ FileAt(t, p) => Files(t)[p] = t[p].data
  BY DEF Dirs, Files, DirAt, FileAt
<1>4. Held(AsMock(t)) = DOMAIN t
  BY <1>1, <1>2, <1>3 DEF Held, DirAt, FileAt
<1>5. \A p \in DOMAIN t : MockKind(AsMock(t), p) = Kind(t, p) /\ Kind(t, p) \in {"dir", "file"}
  BY <1>1, <1>2, <1>3 DEF MockKind, Kind, DirAt
<1> QED BY <1>2, <1>3, <1>4, <1>5

\* Another map of files.
LEMMA OtherFiles ==
  \A d, f, g : [[dirs |-> d, files |-> f] EXCEPT !.files = g] = [dirs |-> d, files |-> g]
OBVIOUS

LEMMA OtherDirs ==
  \A d, e, f : [[dirs |-> d, files |-> f] EXCEPT !.dirs = e] = [dirs |-> e, files |-> f]
OBVIOUS

\* The two ways to say what a listing shows.
LEMMA ListsAlike ==
  ASSUME NEW t, IsTree(t), LinkFree(t), NEW d \in Seq(Name)
  PROVE  {Entry(Append(d, n), Kind(t, Append(d, n))) : n \in Names(t, d) \ {Dot, DotDot}}
           = {Entry(p, MockKind(AsMock(t), p)) :
                p \in {q \in Held(AsMock(t)) : q # <<>> /\ Front(q) = d}}
<1>1. {q \in Held(AsMock(t)) : q # <<>> /\ Front(q) = d} = Children(t, d)
  BY MockHolds DEF Children
<1>2. \A p \in Children(t, d) : MockKind(AsMock(t), p) = Kind(t, p)
  BY MockHolds DEF Children
<1>3. \A p \in Children(t, d) : Last(p) \in Name /\ p = Append(d, Last(p))
  <2>1. \A p \in DOMAIN t : p \in Seq(Name)
    BY Paths DEF IsTree, TreeOf
  <2> QED BY <2>1, FrontLast, FrontThenLast DEF Children
<1>4. Names(t, d) \ {Dot, DotDot} = {Last(p) : p \in Children(t, d)}
  BY <1>3, EntryNamesAssumption DEF Names, EntryNamesAssumption
<1> DEFINE E(p) == Entry(p, Kind(t, p))
<1>5. {E(Append(d, n)) : n \in {Last(p) : p \in Children(t, d)}} = {E(p) : p \in Children(t, d)}
  <2> HIDE DEF E
  <2> QED BY <1>3
<1>6. {Entry(p, MockKind(AsMock(t), p)) : p \in Children(t, d)} = {E(p) : p \in Children(t, d)}
  BY <1>2
<1> QED BY <1>1, <1>4, <1>5, <1>6

LEMMA MockWrites ==
  ASSUME NEW t, IsTree(t), LinkFree(t), NEW p, ~DirAt(t, p), NEW d,
         NEW u, u = Put(t, p, File(d))
  PROVE  AsMock(u) = [dirs |-> Dirs(t), files |-> Put(Files(t), p, d)]
<1>1. /\ DOMAIN u = DOMAIN t \cup {p} /\ u[p] = File(d) /\ \A q \in DOMAIN t \ {p} : u[q] = t[q]
  BY DEF Put
<1>2. File(d).kind = "file" /\ File(d).data = d
  BY DEF File
<1>3. Dirs(u) = Dirs(t)
  BY <1>1, <1>2 DEF Dirs, DirAt
<1>4. Files(u) = Put(Files(t), p, d)
  <2>1. DOMAIN Files(u) = DOMAIN Files(t) \cup {p}
    BY <1>1, <1>2 DEF Files
  <2>2. \A q \in DOMAIN Files(u) : Files(u)[q] = IF q = p THEN d ELSE Files(t)[q]
    BY <1>1, <1>2 DEF Files
  <2>3. Files(u) = [q \in DOMAIN Files(u) |-> Files(u)[q]]
    BY DEF Files
  <2> QED BY <2>1, <2>2, <2>3 DEF Put
<1> QED BY <1>3, <1>4 DEF AsMock, Dirs, Files

LEMMA MockMakesDir ==
  ASSUME NEW t, IsTree(t), NEW p, p \notin DOMAIN t, NEW u, u = Put(t, p, Dir)
  PROVE  AsMock(u) = [dirs |-> Dirs(t) \cup {p}, files |-> Files(t)]
<1>1. /\ DOMAIN u = DOMAIN t \cup {p} /\ u[p] = Dir /\ \A q \in DOMAIN t : u[q] = t[q]
  BY DEF Put
<1>2. Dir.kind = "dir"
  BY DEF Dir
<1>3. Dirs(u) = Dirs(t) \cup {p}
  BY <1>1, <1>2 DEF Dirs
<1>4. Files(u) = Files(t)
  BY <1>1, <1>2 DEF Files
<1> QED BY <1>3, <1>4 DEF AsMock, Dirs, Files

LEMMA MockRemoves ==
  ASSUME NEW t, NEW S, NEW u, u = Without(t, S)
  PROVE  AsMock(u) = [dirs |-> Dirs(t) \ S, files |-> Without(Files(t), S)]
<1>1. DOMAIN u = DOMAIN t \ S /\ \A q \in DOMAIN u : u[q] = t[q]
  BY DEF Without, Restrict
<1>2. Dirs(u) = Dirs(t) \ S
  BY <1>1 DEF Dirs
<1>3. Files(u) = Without(Files(t), S)
  <2>1. DOMAIN Files(u) = DOMAIN Files(t) \ S
    BY <1>1 DEF Files
  <2>2. \A q \in DOMAIN Files(u) : Files(u)[q] = Files(t)[q]
    BY <1>1 DEF Files
  <2>3. Files(u) = [q \in DOMAIN Files(u) |-> Files(u)[q]]
    BY DEF Files
  <2> QED BY <2>1, <2>2, <2>3 DEF Without, Restrict
<1> QED BY <1>2, <1>3 DEF AsMock, Dirs, Files

\* A file is renamed.
LEMMA MockMovesFile ==
  ASSUME NEW t, IsTree(t), NEW from, FileAt(t, from), NEW to \in Seq(Name), ~DirAt(t, to),
         NEW u, u = Moved(t, from, to)
  PROVE  AsMock(u) = [dirs |-> Dirs(t),
                      files |-> Put(Without(Files(t), {from}), to, Files(t)[from])]
<1>1. from \in DOMAIN t /\ t[from].kind = "file" /\ from \in Seq(Name)
  BY Paths DEF FileAt, IsTree, TreeOf
<1>2. Children(t, from) = {}
  BY <1>1, OnlyDirectoriesHold DEF DirAt
<1>3. Within(from, DOMAIN t) = {from}
  <2>1. \A p \in DOMAIN t : IsPrefix(from, p) => p = from
    BY <1>1, <1>2, Paths, NothingBelow DEF IsTree
  <2>2. IsPrefix(from, from)
    BY <1>1, PrefixTransitive
  <2> QED BY <1>1, <2>1, <2>2 DEF Within
<1>4. IsPrefix(from, from) /\ IsPrefix(to, to)
  BY <1>1, PrefixTransitive
<1>5. Rebase(from, from, to) = to /\ Rebase(to, to, from) = from
  BY <1>1, <1>4, RebasedPaths
<1>6. Rebased(DOMAIN t, from, to) = {to}
  BY <1>3, <1>5 DEF Rebased
<1>7. u = [q \in {to} \cup (DOMAIN t \ {from}) |-> IF q \in {to} THEN t[Rebase(q, to, from)] ELSE t[q]]
  BY <1>3, <1>6 DEF Moved
<1>8. /\ DOMAIN u = {to} \cup (DOMAIN t \ {from}) /\ u[to] = t[from]
      /\ \A q \in DOMAIN u : q # to => u[q] = t[q]
  BY <1>5, <1>7
<1>9. Dirs(u) = Dirs(t)
  BY <1>1, <1>8 DEF Dirs, DirAt
<1>10. Files(u) = Put(Without(Files(t), {from}), to, Files(t)[from])
  <2>1. DOMAIN Files(u) = {to} \cup (DOMAIN Files(t) \ {from})
    BY <1>1, <1>8 DEF Files
  <2>2. \A q \in DOMAIN Files(u) : Files(u)[q] = IF q = to THEN Files(t)[from] ELSE Files(t)[q]
    BY <1>1, <1>8 DEF Files
  <2>3. Files(u) = [q \in DOMAIN Files(u) |-> Files(u)[q]]
    BY DEF Files
  <2>4. Files(u) = [q \in {to} \cup (DOMAIN Files(t) \ {from}) |->
                      IF q = to THEN Files(t)[from] ELSE Files(t)[q]]
    BY <2>1, <2>2, <2>3
  <2>5. /\ DOMAIN Without(Files(t), {from}) = DOMAIN Files(t) \ {from}
        /\ \A q \in DOMAIN Files(t) \ {from} : Without(Files(t), {from})[q] = Files(t)[q]
    BY DEF Without, Restrict
  <2> HIDE DEF Files
  <2> QED BY <2>4, <2>5 DEF Put
<1> QED BY <1>9, <1>10 DEF AsMock, Dirs, Files

\* What is at or below from lies at or below to afterwards, and nothing was
\* there before.
LEMMA MovedApart ==
  ASSUME NEW t, IsTree(t), NEW from \in DOMAIN t, NEW to \in Seq(Name),
         from = to \/ to \notin DOMAIN t
  PROVE  /\ \A p \in Within(from, DOMAIN t) : Rebase(Rebase(p, from, to), to, from) = p
         /\ Rebased(DOMAIN t, from, to) \cap (DOMAIN t \ Within(from, DOMAIN t)) = {}
<1> DEFINE W == Within(from, DOMAIN t)
           M == Rebased(DOMAIN t, from, to)
<1>1. W = {p \in DOMAIN t : IsPrefix(from, p)} /\ M = {Rebase(p, from, to) : p \in W}
  BY DEF Within, Rebased
<1>2. DOMAIN t \subseteq Seq(Name)
  BY Paths DEF IsTree, TreeOf
<1> HIDE DEF W, M
<1>3. ASSUME NEW p \in W
      PROVE  /\ Rebase(Rebase(p, from, to), to, from) = p
             /\ IsPrefix(to, Rebase(p, from, to))
  BY <1>1, <1>2, RebasedPaths
<1>4. CASE from = to
  <2>1. \A p \in W : Rebase(p, from, to) = p
    BY <1>1, <1>2, <1>4, SamePlace
  <2> QED BY <1>1, <1>3, <2>1 DEF W, M
<1>5. CASE to \notin DOMAIN t
  <2>1. \A q \in M : IsPrefix(to, q)
    BY <1>1, <1>3
  <2>2. \A q \in DOMAIN t : ~IsPrefix(to, q)
    <3>1. ~DirAt(t, to)
      BY <1>5 DEF DirAt
    <3> QED BY <1>5, <3>1, Paths, DirectoriesAbove DEF IsTree
  <2> QED BY <1>3, <2>1, <2>2 DEF W, M
<1> QED BY <1>4, <1>5

\* A directory is renamed.
LEMMA MockMovesDir ==
  ASSUME NEW t, IsTree(t), NEW from \in DOMAIN t, NEW to \in Seq(Name),
         from = to \/ to \notin DOMAIN t, NEW u, u = Moved(t, from, to)
  PROVE  AsMock(u) = [dirs |-> (Dirs(t) \ Within(from, Dirs(t))) \cup Rebased(Dirs(t), from, to),
                      files |-> Moved(Files(t), from, to)]
<1> DEFINE W == Within(from, DOMAIN t)
           M == Rebased(DOMAIN t, from, to)
           F == DOMAIN Files(t)
           N == Rebased(F, from, to)
<1>1. /\ \A p \in W : Rebase(Rebase(p, from, to), to, from) = p
      /\ M \cap (DOMAIN t \ W) = {}
  BY MovedApart
<1>2. /\ u = [q \in M \cup (DOMAIN t \ W) |-> IF q \in M THEN t[Rebase(q, to, from)] ELSE t[q]]
      /\ W = {p \in DOMAIN t : IsPrefix(from, p)} /\ M = {Rebase(p, from, to) : p \in W}
  BY DEF Moved, Within, Rebased
<1>3. F = {p \in DOMAIN t : t[p].kind = "file"} /\ \A p \in F : Files(t)[p] = t[p].data
  BY DEF Files
<1>4. Dirs(t) = {p \in DOMAIN t : t[p].kind = "dir"}
  BY DEF Dirs
<1>5. Within(from, F) = F \cap W /\ N = {Rebase(p, from, to) : p \in F \cap W}
  BY <1>2, <1>3 DEF Within, Rebased
<1>6. /\ Within(from, Dirs(t)) = Dirs(t) \cap W
      /\ Rebased(Dirs(t), from, to) = {Rebase(p, from, to) : p \in Dirs(t) \cap W}
  BY <1>2, <1>4 DEF Within, Rebased
<1> HIDE DEF W, M, F, N
<1>7. /\ DOMAIN u = M \cup (DOMAIN t \ W)
      /\ \A p \in W : Rebase(p, from, to) \in M /\ u[Rebase(p, from, to)] = t[p]
      /\ \A q \in DOMAIN t \ W : q \notin M /\ u[q] = t[q]
  BY <1>1, <1>2
<1>8. ASSUME NEW k, NEW K, K = {p \in DOMAIN t : t[p].kind = k}
      PROVE  {q \in DOMAIN u : u[q].kind = k} = (K \ W) \cup {Rebase(p, from, to) : p \in K \cap W}
  <2>1. ASSUME NEW q \in DOMAIN u, u[q].kind = k
        PROVE  q \in K \ W \/ \E p \in K \cap W : q = Rebase(p, from, to)
    <3>1. CASE q \in M
      <4>1. PICK p \in W : q = Rebase(p, from, to)
        BY <1>2, <3>1
      <4> QED BY <1>2, <1>7, <1>8, <2>1, <4>1
    <3>2. CASE q \in DOMAIN t \ W
      BY <1>7, <1>8, <2>1, <3>2
    <3> QED BY <1>7, <3>1, <3>2
  <2>2. \A q \in K \ W : q \in DOMAIN u /\ u[q].kind = k
    BY <1>7, <1>8
  <2>3. \A p \in K \cap W : Rebase(p, from, to) \in DOMAIN u /\ u[Rebase(p, from, to)].kind = k
    BY <1>7, <1>8
  <2> QED BY <2>1, <2>2, <2>3
<1>9. Dirs(u) = (Dirs(t) \ Within(from, Dirs(t))) \cup Rebased(Dirs(t), from, to)
  <2>1. Dirs(u) = {q \in DOMAIN u : u[q].kind = "dir"}
    BY DEF Dirs
  <2>2. Dirs(u) = (Dirs(t) \ W) \cup {Rebase(p, from, to) : p \in Dirs(t) \cap W}
    BY <1>4, <1>8, <2>1
  <2> QED BY <1>6, <2>2
<1>10. Files(u) = Moved(Files(t), from, to)
  <2>1. DOMAIN Files(u) = {q \in DOMAIN u : u[q].kind = "file"}
    BY DEF Files
  <2>2. DOMAIN Files(u) = N \cup (F \ (F \cap W))
    <3>1. DOMAIN Files(u) = (F \ W) \cup {Rebase(p, from, to) : p \in F \cap W}
      BY <1>3, <1>8, <2>1
    <3> QED BY <1>5, <3>1
  <2>3. \A q \in DOMAIN Files(u) : Files(u)[q] = u[q].data
    BY DEF Files
  <2>4. \A q \in N : Rebase(q, to, from) \in F \cap W /\ q = Rebase(Rebase(q, to, from), from, to)
    BY <1>1, <1>5
  <2>5. ASSUME NEW q \in DOMAIN Files(u)
        PROVE  Files(u)[q] = IF q \in N THEN Files(t)[Rebase(q, to, from)] ELSE Files(t)[q]
    <3>1. CASE q \in N
      BY <1>3, <1>7, <2>3, <2>4, <3>1
    <3>2. CASE q \notin N
      BY <1>3, <1>7, <2>2, <2>3, <3>2
    <3> QED BY <3>1, <3>2
  <2>6. Files(u) = [q \in DOMAIN Files(u) |-> Files(u)[q]]
    BY DEF Files
  <2>7. Files(u) = [q \in N \cup (F \ Within(from, F)) |->
                      IF q \in N THEN Files(t)[Rebase(q, to, from)] ELSE Files(t)[q]]
    BY <1>5, <2>2, <2>5, <2>6
  <2> QED BY <2>7 DEF Moved, N, F
<1> QED BY <1>9, <1>10 DEF AsMock, Dirs, Files

\* The mock answers what a look answers.
LEMMA MockLooks ==
  ASSUME IInv, ListDir \/ Stat \/ (ReadFile /\ call.op = "read"), call # Idle, quiet,
         LinkFree(before)
  PROVE  MockRun(AsMock(before), call) = Outcome(TRUE, AsMock(tree'), answer'.result)
<1>1. PICK r \in {"readdir", "stat", "open"} : At(r) /\ (r = "readdir" => call.op = "list")
  BY DEF ListDir, Stat, ReadFile, Request
<1>2. /\ call \in Calls /\ r \in Stages(call.op) /\ IsTree(before) /\ ~At("write")
  BY <1>1, Innermost DEF At
<1>3. call.op # "remove"
  BY <1>1, <1>2, StageOf DEF Removing
<1>4. Top.path = call.path /\ call.path \in Seq(Name)
  BY <1>1, <1>2, <1>3, Innermost, CallFields
<1>5. tree = before /\ tree' = before
  BY <1>2, <1>3, NotYet, LookStep
<1>6. Follow(tree, Top.path) = call.path
  BY <1>2, <1>4, <1>5, PathsAreDirect
<1> DEFINE t == before
           p == call.path
<1>7. CASE ListDir
  <2>1. /\ DirAt(t, p) /\ call.op = "list"
        /\ Answer(TRUE, {Entry(Append(p, n), Kind(t, Append(p, n))) : n \in Names(t, p) \ {Dot, DotDot}})
    BY <1>5, <1>6, <1>7 DEF ListDir
  <2>2. answer'.result = {Entry(Append(p, n), Kind(t, Append(p, n))) : n \in Names(t, p) \ {Dot, DotDot}}
    BY <2>1 DEF Answer
  <2>3. answer'.result = {Entry(q, MockKind(AsMock(t), q)) :
                            q \in {q \in Held(AsMock(t)) : q # <<>> /\ Front(q) = p}}
    BY <1>2, <1>4, <2>2, ListsAlike
  <2>4. p \in AsMock(t).dirs
    BY <1>2, <2>1, MockHolds
  <2>5. MockRun(AsMock(t), call) = MockList(AsMock(t), p)
    BY <2>1 DEF MockRun
  <2> QED BY <1>5, <2>3, <2>4, <2>5 DEF MockList
<1>8. CASE Stat
  <2>1. /\ p \in DOMAIN t /\ At("stat") /\ Answer(TRUE, {Entry(p, Kind(t, p))})
    BY <1>4, <1>5, <1>6, <1>8 DEF Stat, Request
  <2>2. answer'.result = {Entry(p, Kind(t, p))}
    BY <2>1 DEF Answer
  <2>3. p \in Held(AsMock(t)) /\ MockKind(AsMock(t), p) = Kind(t, p)
    BY <1>2, <2>1, MockHolds
  <2>4. call.op = "stat"
    BY <1>2, <2>1, Innermost, StageOf
  <2>5. MockRun(AsMock(t), call) = MockStat(AsMock(t), p)
    BY <2>4 DEF MockRun
  <2> QED BY <1>5, <2>2, <2>3, <2>5 DEF MockStat
<1>9. CASE ReadFile /\ call.op = "read"
  <2>1. FileAt(t, p) /\ Answer(TRUE, t[p].data)
    BY <1>5, <1>6, <1>9 DEF ReadFile
  <2>2. answer'.result = t[p].data
    BY <2>1 DEF Answer
  <2>3. p \in DOMAIN AsMock(t).files /\ AsMock(t).files[p] = t[p].data
    BY <1>2, <2>1, MockHolds
  <2>4. MockRun(AsMock(t), call) = MockRead(AsMock(t), p)
    BY <1>9 DEF MockRun
  <2> QED BY <1>5, <2>2, <2>3, <2>4 DEF MockRead
<1> QED BY <1>7, <1>8, <1>9

\* The mock does what a write or a copy does.
LEMMA MockFills ==
  ASSUME IInv, WriteRest, quiet, LinkFree(before), tree' = Effect(before, call)
  PROVE  MockRun(AsMock(before), call) = Outcome(TRUE, AsMock(tree'), answer'.result)
<1> DEFINE t == before
<1>1. At("write") /\ Answer(TRUE, Nothing)
  BY DEF WriteRest, Request
<1>2. call # Idle /\ call \in Calls /\ IsTree(t) /\ call.op \in {"write", "copy"} /\ ~At("open")
  BY <1>1, WriterAt DEF At
<1>3. ~DirAt(t, Into(t, call))
  BY <1>1, <1>2 DEF IInv, Progress
<1>4. answer'.result = Nothing
  BY <1>1 DEF Answer
<1>5. /\ AsMock(t) = [dirs |-> Dirs(t), files |-> Files(t)] /\ AsMock(t).files = Files(t)
  BY <1>2, MockHolds
<1>6. CASE call.op = "write"
  <2>1. Into(t, call) = call.path /\ Follow(t, call.path) = call.path
    BY <1>2, <1>6, CallFields, PathsAreDirect DEF Into
  <2>2. tree' = Put(t, call.path, File(call.data))
    BY <1>6, <2>1 DEF Effect
  <2>3. AsMock(tree') = [dirs |-> Dirs(t), files |-> Put(Files(t), call.path, call.data)]
    <3>1. PICK u : u = tree'
      OBVIOUS
    <3> QED BY <1>2, <1>3, <2>1, <2>2, <3>1, MockWrites
  <2>4. MockRun(AsMock(t), call) = MockWrite(AsMock(t), call.path, call.data)
    BY <1>6 DEF MockRun
  <2>5. [AsMock(t) EXCEPT !.files = Put(@, call.path, call.data)] = AsMock(tree')
    BY <1>5, <2>3, OtherFiles
  <2> QED BY <1>4, <2>4, <2>5 DEF MockWrite, Done
<1>7. CASE call.op = "copy"
  <2>1. /\ Into(t, call) = call.to /\ Follow(t, call.to) = call.to
        /\ Follow(t, call.path) = call.path
    BY <1>2, <1>7, CallFields, PathsAreDirect DEF Into
  <2>2. FileAt(t, call.path)
    BY <1>2, <1>7, <2>1 DEF IInv, Copied
  <2> DEFINE d == t[call.path].data
  <2>3. t[call.path] = File(d)
    BY <1>2, <2>2, Nodes DEF FileAt, IsTree, TreeOf
  <2>4. call.path \in DOMAIN Files(t) /\ Files(t)[call.path] = d
    BY <1>2, <2>2, MockHolds
  <2>5. tree' = Put(t, call.to, t[call.path])
    BY <1>7, <2>1 DEF Effect
  <2>6. AsMock(tree') = [dirs |-> Dirs(t), files |-> Put(Files(t), call.to, d)]
    <3>1. PICK u, e : u = tree' /\ e = d
      OBVIOUS
    <3>2. u = Put(t, call.to, File(e))
      BY <2>3, <2>5, <3>1
    <3>3. AsMock(u) = [dirs |-> Dirs(t), files |-> Put(Files(t), call.to, e)]
      BY <1>2, <1>3, <2>1, <3>2, MockWrites
    <3> QED BY <3>1, <3>3
  <2>7. MockRun(AsMock(t), call) = MockCopy(AsMock(t), call.path, call.to)
    BY <1>7 DEF MockRun
  <2>8. [AsMock(t) EXCEPT !.files = Put(@, call.to, @[call.path])] = AsMock(tree')
    BY <1>5, <2>4, <2>6, OtherFiles
  <2> QED BY <1>4, <1>5, <2>4, <2>7, <2>8 DEF MockCopy, Done
<1> QED BY <1>2, <1>6, <1>7

LEMMA MockMkdirs ==
  ASSUME IInv, MakeDir, quiet, LinkFree(before), tree' = Effect(before, call)
  PROVE  MockRun(AsMock(before), call) = Outcome(TRUE, AsMock(tree'), answer'.result)
<1> DEFINE t == before
           p == call.path
<1>1. At("mkdir") /\ Answer(TRUE, Nothing) /\ Locate(tree, Top.path) \notin DOMAIN tree
  BY DEF MakeDir, Request
<1>2. /\ call # Idle /\ call \in Calls /\ IsTree(tree) /\ call.op = "mkdir" /\ Top.path = p
      /\ p \in Seq(Name) /\ tree = t
  BY <1>1, OnlyRequest
<1>3. Locate(t, p) = p /\ p \notin DOMAIN t /\ tree' = Put(t, p, Dir)
  BY <1>1, <1>2, PathsAreDirect DEF Effect
<1>4. AsMock(tree') = [dirs |-> Dirs(t) \cup {p}, files |-> Files(t)]
  <2>1. PICK u : u = tree'
    OBVIOUS
  <2> QED BY <1>2, <1>3, <2>1, MockMakesDir
<1>5. AsMock(t) = [dirs |-> Dirs(t), files |-> Files(t)] /\ AsMock(t).dirs = Dirs(t)
  BY <1>2, MockHolds
<1>6. [AsMock(t) EXCEPT !.dirs = @ \cup {p}] = AsMock(tree')
  BY <1>4, <1>5, OtherDirs
<1>7. MockRun(AsMock(t), call) = MockMkdir(AsMock(t), p)
  BY <1>2 DEF MockRun
<1>8. answer'.result = Nothing
  BY <1>1 DEF Answer
<1> QED BY <1>6, <1>7, <1>8 DEF MockMkdir, Done

\* The mock moves what a rename moves.
LEMMA MockRenames ==
  ASSUME IInv, RenamePath, quiet, LinkFree(before), tree' = Effect(before, call)
  PROVE  MockRun(AsMock(before), call) = Outcome(TRUE, AsMock(tree'), answer'.result)
<1> DEFINE t == before
           from == call.path
           to == call.to
<1>1. At("rename") /\ Answer(TRUE, Nothing)
  BY DEF RenamePath, Request
<1>2. /\ call \in Calls /\ IsTree(t) /\ call.op = "rename" /\ Top.path = from
      /\ from \in Seq(Name) /\ tree = t
  BY <1>1, OnlyRequest
<1>3. /\ to \in Seq(Name) /\ Locate(t, from) = from /\ Locate(t, to) = to
  BY <1>2, CallFields, PathsAreDirect
<1>4. /\ from \in DOMAIN t
      /\ from = to \/ to \notin DOMAIN t \/ (to \in DOMAIN t /\ t[to] # Dir /\ t[from] # Dir)
  BY <1>2, <1>3 DEF RenamePath
<1>5. tree' = Moved(t, from, to) /\ answer'.result = Nothing
  BY <1>1, <1>2, <1>3 DEF Effect, Answer
<1>6. MockRun(AsMock(t), call) = MockRename(AsMock(t), from, to)
  BY <1>2 DEF MockRun
<1>7. /\ AsMock(t) = [dirs |-> Dirs(t), files |-> Files(t)]
      /\ AsMock(t).dirs = Dirs(t) /\ AsMock(t).files = Files(t)
      /\ from \in Dirs(t) <=> DirAt(t, from)
      /\ from \in DOMAIN Files(t) <=> FileAt(t, from)
  BY <1>2, MockHolds
<1>8. /\ t[from] = Dir <=> DirAt(t, from)
      /\ to \in DOMAIN t /\ t[to] # Dir => ~DirAt(t, to)
      /\ FileAt(t, from) <=> ~DirAt(t, from)
  BY <1>2, <1>4, Nodes DEF IsTree, TreeOf, LinkFree, DirAt, FileAt
<1>9. CASE FileAt(t, from)
  <2>1. ~DirAt(t, to)
    BY <1>4, <1>8, <1>9 DEF DirAt
  <2>2. AsMock(tree') = [dirs |-> Dirs(t),
                         files |-> Put(Without(Files(t), {from}), to, Files(t)[from])]
    <3>1. PICK u : u = tree'
      OBVIOUS
    <3> QED BY <1>2, <1>3, <1>5, <1>9, <2>1, <3>1, MockMovesFile
  <2>3. [AsMock(t) EXCEPT !.files = Put(Without(@, {from}), to, @[from])] = AsMock(tree')
    BY <1>7, <2>2, OtherFiles
  <2>4. MockRename(AsMock(t), from, to) = MockMoveFile(AsMock(t), from, to)
    BY <1>7, <1>9 DEF MockRename
  <2> QED BY <1>5, <1>6, <2>3, <2>4 DEF MockMoveFile, Done
<1>10. CASE ~FileAt(t, from)
  <2>1. from = to \/ to \notin DOMAIN t
    BY <1>4, <1>8, <1>10
  <2>2. AsMock(tree') = [dirs |-> (Dirs(t) \ Within(from, Dirs(t))) \cup Rebased(Dirs(t), from, to),
                         files |-> Moved(Files(t), from, to)]
    <3>1. PICK u : u = tree'
      OBVIOUS
    <3> QED BY <1>2, <1>3, <1>4, <1>5, <2>1, <3>1, MockMovesDir
  <2>3. MockRename(AsMock(t), from, to) = Done(AsMock(tree'))
    BY <1>7, <1>8, <1>10, <2>2 DEF MockRename
  <2> QED BY <1>5, <1>6, <2>3 DEF Done
<1> QED BY <1>9, <1>10

\* The mock removes what a delete removes.
LEMMA MockDeletes ==
  ASSUME IInv, RemoveDir \/ RemoveFile, call' # call, quiet, LinkFree(before),
         tree' = Effect(before, call)
  PROVE  MockRun(AsMock(before), call) = Outcome(TRUE, AsMock(tree'), answer'.result)
<1> DEFINE t == before
           p == call.path
           S == Within(p, DOMAIN t)
<1>1. call.op = "remove" /\ call # Idle
  <2>1. \E r \in Requests : At(r)
    BY DEF RemoveDir, RemoveFile, Request, Requests
  <2> QED BY <2>1, RemoveEntryStep, Innermost
<1>2. call \in Calls /\ IsTree(t) /\ p \in Seq(Name)
  BY <1>1, Deletes
<1>3. Locate(t, p) = p
  BY <1>2, PathsAreDirect
<1>4. p \in DOMAIN t /\ (call.recursive \/ Children(t, p) = {})
  BY <1>3, RemoveEntryStep
<1>5. answer'.result = Nothing
  BY DEF RemoveDir, RemoveFile, Return, Answer
<1>6. tree' = Without(t, S)
  BY <1>1, <1>3 DEF Effect
<1>7. AsMock(tree') = [dirs |-> Dirs(t) \ S, files |-> Without(Files(t), S)]
  <2>1. PICK u, W : u = tree' /\ W = S
    OBVIOUS
  <2> QED BY <1>6, <2>1, MockRemoves
<1>8. MockRun(AsMock(t), call) = MockRemove(AsMock(t), p, call.recursive)
  BY <1>1 DEF MockRun
<1>9. /\ AsMock(t) = [dirs |-> Dirs(t), files |-> Files(t)]
      /\ AsMock(t).dirs = Dirs(t) /\ AsMock(t).files = Files(t) /\ Held(AsMock(t)) = DOMAIN t
      /\ \A q : (q \in Dirs(t) <=> DirAt(t, q)) /\ (q \in DOMAIN Files(t) <=> FileAt(t, q))
      /\ p \in Dirs(t) \/ p \in DOMAIN Files(t)
  <2>1. t[p].kind \in {"dir", "file"}
    BY <1>2, <1>4, MockHolds DEF Kind
  <2> QED BY <1>2, <1>4, <2>1, MockHolds DEF DirAt, FileAt
<1>10. Children(t, p) = {} => S = {p}
  <2>1. ASSUME Children(t, p) = {} PROVE \A q \in DOMAIN t : IsPrefix(p, q) => q = p
    BY <1>2, <1>4, <2>1, Paths, NothingBelow DEF IsTree
  <2>2. IsPrefix(p, p)
    BY <1>2, PrefixTransitive
  <2> QED BY <1>4, <2>1, <2>2 DEF Within
<1>11. CASE p \in DOMAIN Files(t)
  <2>1. ~DirAt(t, p)
    BY <1>9, <1>11 DEF DirAt, FileAt
  <2>2. S = {p}
    BY <1>2, <1>10, <2>1, OnlyDirectoriesHold
  <2>3. Dirs(t) \ S = Dirs(t)
    BY <1>9, <2>1, <2>2
  <2>4. [AsMock(t) EXCEPT !.files = Without(@, {p})] = AsMock(tree')
    BY <1>7, <1>9, <2>2, <2>3, OtherFiles
  <2> QED BY <1>5, <1>8, <1>9, <1>11, <2>4 DEF MockRemove, Done
<1>12. CASE p \notin DOMAIN Files(t)
  <2>1. p \in Dirs(t) /\ ~(Within(p, Held(AsMock(t))) # {p} /\ ~call.recursive)
    BY <1>4, <1>9, <1>10, <1>12
  <2>2. Dirs(t) \ S = Dirs(t) \ Within(p, Dirs(t))
    BY DEF Within, Dirs
  <2>3. Without(Files(t), S) = Without(Files(t), Within(p, DOMAIN Files(t)))
    <3>1. DOMAIN Files(t) \ S = DOMAIN Files(t) \ Within(p, DOMAIN Files(t))
      BY DEF Within, Files
    <3> QED BY <3>1 DEF Without, Restrict
  <2>4. MockRemove(AsMock(t), p, call.recursive) = Done(AsMock(tree'))
    BY <1>7, <1>9, <1>12, <2>1, <2>2, <2>3 DEF MockRemove
  <2> QED BY <1>5, <1>8, <2>4 DEF Done
<1> QED BY <1>11, <1>12

LEMMA MockAnswers ==
  ASSUME IInv, [Next]_vars, AnsweredOk, Undisturbed, LinkFree(before)
  PROVE  MockRun(AsMock(before), call) = Outcome(TRUE, AsMock(tree'), answer'.result)
<1>1. call # Idle /\ call' # call /\ quiet /\ ~CutOff
  BY WhatFails DEF AnsweredOk, Answered, Undisturbed
<1>2. tree' = Effect(before, call)
  BY AnswersTakeEffect
<1>3. CASE ListDir \/ Stat \/ (ReadFile /\ call.op = "read")
  BY <1>1, <1>3, MockLooks
<1>4. CASE WriteRest
  BY <1>1, <1>2, <1>4, MockFills
<1>5. CASE MakeDir
  BY <1>1, <1>2, <1>5, MockMkdirs
<1>6. CASE RenamePath
  BY <1>1, <1>2, <1>6, MockRenames
<1>7. CASE RemoveDir \/ RemoveFile
  BY <1>1, <1>2, <1>7, MockDeletes
<1> QED BY <1>1, <1>3, <1>4, <1>5, <1>6, <1>7, WhatAnswers

\* Whatever the SFTP provider answers with Ok over a tree without links, the
\* mock answers with Ok, with the same result and the same files afterwards
\* (MockFileProvider).
THEOREM MockStandsIn == Spec => MockAgrees
<1>1. IInv /\ [Next]_vars =>
        [(AnsweredOk /\ Undisturbed /\ \A p \in DOMAIN before : before[p].kind # "link") =>
           MockRun(AsMock(before), call) = Outcome(TRUE, AsMock(tree'), answer'.result)]_vars
  BY MockAnswers DEF LinkFree
<1> QED BY <1>1, Initially, Inductive, PTL DEF Spec, MockAgrees
=============================================================================
