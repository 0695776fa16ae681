-------------------------- MODULE WorkspaceProofs --------------------------
(***************************************************************************)
(* Proofs about the file pane and the editor, for every tree, every bound  *)
(* and every order in which the user, the driver and the answers come.     *)
(***************************************************************************)
EXTENDS Workspace, DataLemmas

Mutations == {"save", "write", "mkdir", "copy", "rename", "remove"}
Relists(r, d) == \E i \in DOMAIN r.refresh : Resolve(r.refresh[i]) = d

\* What a request and its answer are about, and that every directory a request
\* changes is listed again.
Fits(r) ==
  /\ r.op = "list" /\ r.answer \notin {Pending, Error} =>
       /\ r.answer.kind = "listing"
       /\ \A e \in r.answer.entries : e.path # Home /\ Front(e.path) = Resolve(r.path)
  /\ r.op = "open" /\ r.answer \notin {Pending, Error} => r.answer.kind = "content"
  /\ r.op \in {"write", "mkdir", "remove"} => r.path \in Path \ {Home}
  /\ r.op = "copy" => r.to \in Path \ {Home}
  /\ r.op = "rename" => r.path \in Path \ {Home} /\ r.to \in Path \ {Home}
  /\ r.op \in {"open", "save"} => r.path \in Seq(Name)
  /\ r.op \in Mutations \ {"copy"} => Relists(r, Parent(r.path))
  /\ r.op \in {"copy", "rename"} => Relists(r, Parent(r.to))

Good == {r \in Requests : Fits(r)}

\* The first k have been answered.
Split(q, k) == \A i \in 1..Len(q) : (q[i].answer # Pending) <=> (i <= k)
InOrder(q) == q \in Seq(Good) /\ \E k \in 0..Len(q) : Split(q, k)
Awaited == {"list", "open", "save"}
OwedIn(q, op, p) == \E i \in DOMAIN q : q[i].known /\ q[i].op = op /\ q[i].path = p

(***************************************************************************)
(* The queue                                                               *)
(***************************************************************************)
LEMMA GoodFields ==
  ASSUME NEW r \in Good
  PROVE  /\ r \in Requests /\ Fits(r)
         /\ r.op \in Commands /\ r.path \in Place /\ r.refresh \in Seq(Place)
BY DEF Good, Requests

\* The requests that are answered are the first ones.
LEMMA Served ==
  ASSUME InOrder(queue)
  PROVE  /\ \A i \in Answered, j \in Unanswered : i < j
         /\ Next1 \in 1..Len(queue) + 1 /\ Split(queue, Next1 - 1)
         /\ Unanswered # {} =>
              Next1 \in 1..Len(queue) /\ Request \in Good /\ Request.answer = Pending
<1>1. queue \in Seq(Good) /\ DOMAIN queue = 1..Len(queue) /\ Len(queue) \in Nat
  BY DEF InOrder
<1>2. PICK k \in 0..Len(queue) : Split(queue, k)
  BY DEF InOrder
<1>3. Answered = 1..k /\ Unanswered = (k + 1)..Len(queue)
  BY <1>1, <1>2 DEF Answered, Unanswered, Split
<1>4. Cardinality(Answered) = k
  <2>1. Cardinality(1..k) = IF 1 > k THEN 0 ELSE k - 1 + 1
    BY FS_Interval
  <2> QED BY <1>3, <2>1
<1>5. Next1 = k + 1
  BY <1>4 DEF Next1
<1>6. ASSUME Unanswered # {}
      PROVE  Next1 \in 1..Len(queue) /\ Request \in Good /\ Request.answer = Pending
  <2>1. k + 1 \in 1..Len(queue)
    BY <1>1, <1>3, <1>6
  <2> QED BY <1>1, <1>2, <1>5, <2>1 DEF Request, Split
<1>7. k + 1 - 1 = k /\ k + 1 \in 1..Len(queue) + 1
  BY <1>1
<1>8. \A i \in Answered, j \in Unanswered : i < j
  BY <1>1, <1>3
<1> QED BY <1>2, <1>5, <1>6, <1>7, <1>8

\* More is asked for.
LEMMA Asked ==
  ASSUME NEW q, InOrder(q), NEW items \in Seq(Good),
         \A i \in 1..Len(items) : items[i].answer = Pending
  PROVE  /\ InOrder(q \o items)
         /\ \A op, p : OwedIn(q, op, p) => OwedIn(q \o items, op, p)
         /\ \A i \in 1..Len(items) :
              items[i].known => OwedIn(q \o items, items[i].op, items[i].path)
         /\ \A op, p : OwedIn(q \o items, op, p) =>
              OwedIn(q, op, p) \/ \E i \in 1..Len(items) : items[i].op = op
<1>1. q \in Seq(Good) /\ DOMAIN q = 1..Len(q)
  BY DEF InOrder
<1> DEFINE r == q \o items
<1>2. PICK m \in Nat, n \in Nat : m = Len(q) /\ n = Len(items)
  <2>1. Len(q) \in Nat /\ Len(items) \in Nat
    BY <1>1
  <2> QED BY <2>1
<1>3. /\ r \in Seq(Good) /\ Len(r) = Len(q) + Len(items)
      /\ \A j \in 1..Len(q) : r[j] = q[j]
      /\ \A j \in Len(q) + 1..Len(q) + Len(items) : r[j] = items[j - Len(q)]
  BY <1>1, Concat, Zenon
<1>4. /\ r \in Seq(Good) /\ Len(r) = m + n /\ DOMAIN r = 1..m + n
      /\ \A j \in 1..m : r[j] = q[j]
      /\ \A j \in m + 1..m + n : r[j] = items[j - m]
  BY <1>2, <1>3
<1> HIDE DEF r
<1>5. PICK k \in 0..m : Split(q, k)
  BY <1>2 DEF InOrder
<1>6. Split(r, k)
  <2> SUFFICES ASSUME NEW i \in 1..m + n PROVE (r[i].answer # Pending) <=> (i <= k)
    BY <1>4 DEF Split
  <2>1. CASE i \in 1..m
    BY <1>2, <1>4, <1>5, <2>1 DEF Split
  <2>2. CASE i \in m + 1..m + n
    <3>1. i - m \in 1..n /\ ~(i <= k)
      BY <1>5, <2>2
    <3> QED BY <1>2, <1>4, <2>2, <3>1
  <2> QED BY <2>1, <2>2
<1>7. InOrder(r)
  BY <1>4, <1>5, <1>6 DEF InOrder
<1>8. ASSUME NEW op, NEW p, OwedIn(q, op, p) PROVE OwedIn(r, op, p)
  <2>1. PICK i \in 1..m : q[i].known /\ q[i].op = op /\ q[i].path = p
    BY <1>1, <1>2, <1>8 DEF OwedIn
  <2>2. i \in DOMAIN r /\ r[i] = q[i]
    BY <1>4
  <2> QED BY <2>1, <2>2 DEF OwedIn
<1>9. ASSUME NEW i \in 1..n, items[i].known PROVE OwedIn(r, items[i].op, items[i].path)
  <2>1. m + i \in m + 1..m + n /\ m + i \in 1..m + n /\ m + i - m = i
    OBVIOUS
  <2>2. m + i \in DOMAIN r /\ r[m + i] = items[i]
    BY <1>4, <2>1
  <2> QED BY <1>9, <2>2 DEF OwedIn
<1>10. ASSUME NEW op, NEW p, OwedIn(r, op, p)
       PROVE  OwedIn(q, op, p) \/ \E i \in 1..n : items[i].op = op
  <2>1. PICK i \in 1..m + n : r[i].known /\ r[i].op = op /\ r[i].path = p
    BY <1>4, <1>10 DEF OwedIn
  <2>2. CASE i \in 1..m
    BY <1>1, <1>2, <1>4, <2>1, <2>2 DEF OwedIn
  <2>3. CASE i \in m + 1..m + n
    <3>1. i - m \in 1..n /\ r[i] = items[i - m]
      BY <1>4, <2>3
    <3> QED BY <2>1, <3>1
  <2> QED BY <2>2, <2>3
<1> QED BY <1>2, <1>7, <1>8, <1>9, <1>10 DEF r

\* The first answer is taken in.
LEMMA TakenIn ==
  ASSUME NEW q, InOrder(q), q # <<>>
  PROVE  /\ InOrder(Tail(q))
         /\ \A op, p : OwedIn(q, op, p) =>
              OwedIn(Tail(q), op, p) \/ (q[1].known /\ q[1].op = op /\ q[1].path = p)
         /\ \A op, p : OwedIn(Tail(q), op, p) => OwedIn(q, op, p)
<1>1. q \in Seq(Good) /\ DOMAIN q = 1..Len(q)
  BY DEF InOrder
<1> DEFINE r == Tail(q)
<1>2. PICK n \in Nat : Len(q) = n + 1
  <2>1. Len(q) \in Nat \ {0}
    BY <1>1, EmptySeq
  <2>2. Len(q) - 1 \in Nat /\ Len(q) = Len(q) - 1 + 1
    BY <2>1
  <2> QED BY <2>2
<1>3. r \in Seq(Good) /\ Len(r) = Len(q) - 1 /\ \A j \in 1..Len(r) : r[j] = q[j + 1]
  BY <1>1, HeadTailProperties
<1>4. r \in Seq(Good) /\ Len(r) = n /\ DOMAIN r = 1..n /\ \A j \in 1..n : r[j] = q[j + 1]
  BY <1>2, <1>3
<1> HIDE DEF r
<1>5. PICK k \in 0..n + 1 : Split(q, k)
  BY <1>2 DEF InOrder
<1>6. PICK l \in 0..n : (k = 0 /\ l = 0) \/ k = l + 1
  <2>1. CASE k = 0
    BY <2>1
  <2>2. CASE k # 0
    <3>1. k - 1 \in 0..n /\ k = k - 1 + 1
      BY <2>2
    <3> QED BY <3>1
  <2> QED BY <2>1, <2>2
<1>7. Split(r, l)
  <2> SUFFICES ASSUME NEW i \in 1..n PROVE (r[i].answer # Pending) <=> (i <= l)
    BY <1>4 DEF Split
  <2>1. i + 1 \in 1..n + 1 /\ r[i] = q[i + 1]
    BY <1>4
  <2>2. (q[i + 1].answer # Pending) <=> (i + 1 <= k)
    BY <1>2, <1>5, <2>1 DEF Split
  <2>3. (i + 1 <= k) <=> (i <= l)
    BY <1>6
  <2> QED BY <2>1, <2>2, <2>3, Zenon
<1>8. InOrder(r)
  BY <1>4, <1>7 DEF InOrder
<1>9. ASSUME NEW op, NEW p, OwedIn(q, op, p), ~(q[1].known /\ q[1].op = op /\ q[1].path = p)
      PROVE  OwedIn(r, op, p)
  <2>1. PICK i \in 1..n + 1 : q[i].known /\ q[i].op = op /\ q[i].path = p
    BY <1>1, <1>2, <1>9 DEF OwedIn
  <2>2. i - 1 \in 1..n /\ i - 1 + 1 = i
    BY <1>9, <2>1
  <2>3. i - 1 \in DOMAIN r /\ r[i - 1] = q[i]
    BY <1>4, <2>2
  <2> QED BY <2>1, <2>3 DEF OwedIn
<1>10. ASSUME NEW op, NEW p, OwedIn(r, op, p) PROVE OwedIn(q, op, p)
  <2>1. PICK i \in 1..n : r[i].known /\ r[i].op = op /\ r[i].path = p
    BY <1>4, <1>10 DEF OwedIn
  <2>2. i + 1 \in DOMAIN q /\ r[i] = q[i + 1]
    BY <1>1, <1>2, <1>4
  <2> QED BY <2>1, <2>2 DEF OwedIn
<1> QED BY <1>8, <1>9, <1>10 DEF r

\* One element is replaced by another, which is answered.
LEMMA Replaced ==
  ASSUME NEW q \in Seq(Good), NEW n \in 1..Len(q), Split(q, n - 1),
         NEW r \in Good, r.answer # Pending, NEW s, s = [q EXCEPT ![n] = r]
  PROVE  /\ InOrder(s)
         /\ \A op, p : OwedIn(q, op, p) => OwedIn(s, op, p) \/ q[n].op = op
         /\ \A op, p : OwedIn(s, op, p) => OwedIn(q, op, p) \/ r.op = op
<1>1. /\ s \in Seq(Good) /\ Len(s) = Len(q) /\ DOMAIN s = 1..Len(q) /\ DOMAIN q = 1..Len(q)
      /\ s[n] = r /\ \A i \in 1..Len(q) : i # n => s[i] = q[i]
  BY ExceptSeq
<1>2. Split(s, n) /\ n \in 0..Len(s)
  BY <1>1 DEF Split
<1>3. InOrder(s)
  BY <1>1, <1>2 DEF InOrder
<1> QED BY <1>1, <1>3 DEF OwedIn

\* It is the same request, and who waits for it still does.
LEMMA AnsweredOne ==
  ASSUME NEW q \in Seq(Good), NEW n \in 1..Len(q), Split(q, n - 1),
         NEW r \in Good, r.answer # Pending, NEW s, s = [q EXCEPT ![n] = r],
         r.known = q[n].known, r.op = q[n].op, r.path = q[n].path
  PROVE  InOrder(s) /\ \A op, p : OwedIn(q, op, p) <=> OwedIn(s, op, p)
<1>1. InOrder(s)
  BY Replaced
<1>2. /\ DOMAIN s = 1..Len(q) /\ DOMAIN q = 1..Len(q)
      /\ s[n] = r /\ \A i \in 1..Len(q) : i # n => s[i] = q[i]
  BY ExceptSeq
<1>3. \A i \in 1..Len(q) : s[i].known = q[i].known /\ s[i].op = q[i].op /\ s[i].path = q[i].path
  BY <1>2
<1>4. ASSUME NEW op, NEW p PROVE OwedIn(q, op, p) <=> OwedIn(s, op, p)
  <2>1. OwedIn(q, op, p) => OwedIn(s, op, p)
    BY <1>2, <1>3 DEF OwedIn
  <2>2. OwedIn(s, op, p) => OwedIn(q, op, p)
    BY <1>2, <1>3 DEF OwedIn
  <2> QED BY <2>1, <2>2
<1> QED BY <1>1, <1>4

\* One element that has no answer goes.
LEMMA Refused ==
  ASSUME NEW q \in Seq(Good), NEW n \in 1..Len(q), Split(q, n - 1)
  PROVE  /\ InOrder(RemoveAt(q, n))
         /\ \A op, p : /\ OwedIn(q, op, p) => OwedIn(RemoveAt(q, n), op, p) \/ q[n].op = op
                       /\ OwedIn(RemoveAt(q, n), op, p) => OwedIn(q, op, p)
<1> DEFINE s == RemoveAt(q, n)
<1>1. PICK m \in Nat : Len(q) = m + 1
  <2>1. Len(q) - 1 \in Nat /\ Len(q) = Len(q) - 1 + 1
    OBVIOUS
  <2> QED BY <2>1
<1>2. /\ s \in Seq(Good) /\ Len(s) = Len(q) - 1
      /\ \A j \in 1..n - 1 : s[j] = q[j]
      /\ \A j \in n..Len(q) - 1 : s[j] = q[j + 1]
  BY RemoveAtProperties
<1>3. /\ s \in Seq(Good) /\ Len(s) = m /\ DOMAIN s = 1..m /\ DOMAIN q = 1..m + 1
      /\ \A j \in 1..n - 1 : s[j] = q[j]
      /\ \A j \in n..m : s[j] = q[j + 1]
  BY <1>1, <1>2
<1> HIDE DEF s
<1>4. n - 1 \in 0..m
  BY <1>1
<1>5. Split(s, n - 1)
  <2> SUFFICES ASSUME NEW i \in 1..m PROVE (s[i].answer # Pending) <=> (i <= n - 1)
    BY <1>3 DEF Split
  <2>1. CASE i \in 1..n - 1
    BY <1>1, <1>3, <2>1 DEF Split
  <2>2. CASE i \in n..m
    <3>1. s[i] = q[i + 1] /\ i + 1 \in 1..m + 1 /\ ~(i + 1 <= n - 1) /\ ~(i <= n - 1)
      BY <1>1, <1>3, <2>2
    <3> QED BY <1>1, <3>1 DEF Split
  <2> QED BY <2>1, <2>2
<1>6. InOrder(s)
  BY <1>3, <1>4, <1>5 DEF InOrder
<1>7. ASSUME NEW op, NEW p, OwedIn(q, op, p), q[n].op # op PROVE OwedIn(s, op, p)
  <2>1. PICK i \in 1..m + 1 : q[i].known /\ q[i].op = op /\ q[i].path = p
    BY <1>3, <1>7 DEF OwedIn
  <2>2. CASE i < n
    BY <1>1, <1>3, <2>1, <2>2 DEF OwedIn
  <2>3. CASE i > n
    <3>1. i - 1 \in n..m /\ i - 1 \in 1..m /\ i - 1 + 1 = i
      BY <1>1, <2>3
    <3>2. i - 1 \in DOMAIN s /\ s[i - 1] = q[i]
      BY <1>3, <3>1
    <3> QED BY <2>1, <3>2 DEF OwedIn
  <2>4. i # n
    BY <1>7, <2>1
  <2> QED BY <2>2, <2>3, <2>4
<1>8. ASSUME NEW op, NEW p, OwedIn(s, op, p) PROVE OwedIn(q, op, p)
  <2>1. PICK i \in 1..m : s[i].known /\ s[i].op = op /\ s[i].path = p
    BY <1>3, <1>8 DEF OwedIn
  <2>2. CASE i \in 1..n - 1
    <3>1. i \in DOMAIN q /\ s[i] = q[i]
      BY <1>1, <1>3, <2>2
    <3> QED BY <2>1, <3>1 DEF OwedIn
  <2>3. CASE i \in n..m
    <3>1. i + 1 \in DOMAIN q /\ s[i] = q[i + 1]
      BY <1>1, <1>3, <2>3
    <3> QED BY <2>1, <3>1 DEF OwedIn
  <2> QED BY <2>2, <2>3
<1> QED BY <1>6, <1>7, <1>8 DEF s

\* A change of the connection is told after what has been answered.
LEMMA Told ==
  ASSUME NEW q \in Seq(Good), NEW n \in 1..Len(q) + 1, Split(q, n - 1),
         NEW r \in Good, r.answer # Pending
  PROVE  /\ InOrder(InsertAt(q, n, r))
         /\ \A op, p : /\ OwedIn(q, op, p) => OwedIn(InsertAt(q, n, r), op, p)
                       /\ OwedIn(InsertAt(q, n, r), op, p) => OwedIn(q, op, p) \/ r.op = op
<1> DEFINE s == InsertAt(q, n, r)
<1>1. PICK m \in Nat : Len(q) = m
  OBVIOUS
<1>2. n \in 1..Len(q) + 1 /\ n \in 1..m + 1
  BY <1>1
<1>3. /\ s \in Seq(Good) /\ Len(s) = Len(q) + 1
      /\ \A j \in 1..n - 1 : s[j] = q[j]
      /\ s[n] = r
      /\ \A j \in n + 1..Len(q) + 1 : s[j] = q[j - 1]
  BY InsertAtProperties
<1>4. /\ s \in Seq(Good) /\ Len(s) = m + 1 /\ DOMAIN s = 1..m + 1 /\ DOMAIN q = 1..m
      /\ \A j \in 1..n - 1 : s[j] = q[j]
      /\ s[n] = r
      /\ \A j \in n + 1..m + 1 : s[j] = q[j - 1]
  BY <1>1, <1>3
<1> HIDE DEF s
<1>5. Split(s, n)
  <2> SUFFICES ASSUME NEW i \in 1..m + 1 PROVE (s[i].answer # Pending) <=> (i <= n)
    BY <1>4 DEF Split
  <2>1. CASE i \in 1..n - 1
    BY <1>1, <1>2, <1>4, <2>1 DEF Split
  <2>2. CASE i = n
    BY <1>4, <2>2
  <2>3. CASE i \in n + 1..m + 1
    <3>1. s[i] = q[i - 1] /\ i - 1 \in 1..m /\ ~(i - 1 <= n - 1) /\ ~(i <= n)
      BY <1>1, <1>4, <2>3
    <3> QED BY <1>1, <3>1 DEF Split
  <2> QED BY <1>2, <2>1, <2>2, <2>3
<1>6. InOrder(s)
  BY <1>2, <1>4, <1>5 DEF InOrder
<1>7. ASSUME NEW op, NEW p, OwedIn(q, op, p) PROVE OwedIn(s, op, p)
  <2>1. PICK i \in 1..m : q[i].known /\ q[i].op = op /\ q[i].path = p
    BY <1>4, <1>7 DEF OwedIn
  <2>2. CASE i < n
    <3>1. i \in DOMAIN s /\ s[i] = q[i]
      BY <1>2, <1>4, <2>2
    <3> QED BY <2>1, <3>1 DEF OwedIn
  <2>3. CASE i >= n
    <3>1. i + 1 \in n + 1..m + 1 /\ i + 1 \in 1..m + 1 /\ i + 1 - 1 = i
      BY <1>1, <2>3
    <3>2. i + 1 \in DOMAIN s /\ s[i + 1] = q[i]
      BY <1>4, <3>1
    <3> QED BY <2>1, <3>2 DEF OwedIn
  <2> QED BY <1>2, <2>2, <2>3
<1>8. ASSUME NEW op, NEW p, OwedIn(s, op, p), r.op # op PROVE OwedIn(q, op, p)
  <2>1. PICK i \in 1..m + 1 : s[i].known /\ s[i].op = op /\ s[i].path = p
    BY <1>4, <1>8 DEF OwedIn
  <2>2. CASE i \in 1..n - 1
    <3>1. i \in DOMAIN q /\ s[i] = q[i]
      BY <1>2, <1>4, <2>2
    <3> QED BY <2>1, <3>1 DEF OwedIn
  <2>3. CASE i \in n + 1..m + 1
    <3>1. i - 1 \in DOMAIN q /\ s[i] = q[i - 1]
      BY <1>2, <1>4, <2>3
    <3> QED BY <2>1, <3>1 DEF OwedIn
  <2>4. i # n
    BY <1>4, <1>8, <2>1
  <2> QED BY <1>2, <2>2, <2>3, <2>4
<1> QED BY <1>6, <1>7, <1>8 DEF s

\* Requests are forgotten.
LEMMA ForgottenOnes ==
  ASSUME NEW q, InOrder(q)
  PROVE  /\ InOrder(Forgotten(q))
         /\ \A op, p : ~OwedIn(Forgotten(q), op, p)
<1>1. q \in Seq(Good) /\ DOMAIN q = 1..Len(q) /\ Len(q) \in Nat
  BY DEF InOrder
<1>2. ASSUME NEW r \in Good PROVE [r EXCEPT !.known = FALSE] \in Good
  BY DEF Good, Requests, Fits, Relists
<1> DEFINE s == Forgotten(q)
<1>3. /\ s \in Seq(Good) /\ Len(s) = Len(q)
      /\ \A i \in 1..Len(q) : s[i] = [q[i] EXCEPT !.known = FALSE]
  <2>1. s = [i \in 1..Len(q) |-> [q[i] EXCEPT !.known = FALSE]]
    BY <1>1 DEF Forgotten
  <2>2. \A i \in 1..Len(q) : [q[i] EXCEPT !.known = FALSE] \in Good
    BY <1>1, <1>2
  <2> QED BY <1>1, <2>1, <2>2
<1> HIDE DEF s
<1>4. \A i \in 1..Len(q) : s[i].answer = q[i].answer /\ s[i].known = FALSE
  <2> SUFFICES ASSUME NEW i \in 1..Len(q) PROVE s[i].answer = q[i].answer /\ s[i].known = FALSE
    OBVIOUS
  <2>1. q[i] \in Requests
    BY <1>1 DEF Good
  <2> QED BY <1>3, <2>1 DEF Requests
<1>5. InOrder(s)
  BY <1>3, <1>4 DEF InOrder, Split
<1> QED BY <1>3, <1>4, <1>5 DEF s, OwedIn

(***************************************************************************)
(* Paths and trees                                                         *)
(***************************************************************************)
LEMMA Paths ==
  /\ Path \subseteq Seq(Name)
  /\ \A p \in Seq(Name) : p \in Path <=> Len(p) <= MaxDepth
  /\ <<>> \in Path
BY BoundedPaths, DepthAssumption DEF DepthAssumption, Path

\* The front of a path is a shorter path.
LEMMA Fronts ==
  ASSUME NEW p \in Path, p # <<>>
  PROVE  Front(p) \in Path /\ Front(p) # p /\ Len(Front(p)) = Len(p) - 1 /\ Parent(p) = Front(p)
BY BoundedFronts, DepthAssumption DEF DepthAssumption, Path

\* A node that is called a directory is one.
LEMMA OneDirectory == \A n \in Node : n.kind = "dir" <=> n = Dir
BY DEF Node, Dir, File, Link

(***************************************************************************)
(* Documents                                                               *)
(***************************************************************************)
Kept(old, p, recursive, new) ==
  IF Matches(old.path, p, recursive) THEN old.modified /\ new = CutOff(old) ELSE new = old

\* r holds, in their order, the documents from among the first n of ds that
\* are kept when p is removed: the j-th of them is that at src[j].
KeptFrom(ds, p, recursive, n, r, src) ==
  /\ r \in Seq(Document) /\ src \in [1..Len(r) -> 1..n]
  /\ \A j, k \in 1..Len(r) : j < k => src[j] < src[k]
  /\ \A j \in 1..Len(r) : Kept(ds[src[j]], p, recursive, r[j])
  /\ \A i \in 1..n : ~Matches(ds[i].path, p, recursive) \/ ds[i].modified =>
       \E j \in 1..Len(r) : src[j] = i

LEMMA KeepsOneMore ==
  ASSUME NEW ds \in Seq(Document), NEW p, NEW recursive, NEW n \in Nat, n + 1 <= Len(ds),
         NEW r, NEW src, KeptFrom(ds, p, recursive, n, r, src),
         NEW doc \in Document, Kept(ds[n + 1], p, recursive, doc)
  PROVE  \E s : KeptFrom(ds, p, recursive, n + 1, Append(r, doc), s)
<1>1. /\ r \in Seq(Document) /\ src \in [1..Len(r) -> 1..n]
      /\ \A j, k \in 1..Len(r) : j < k => src[j] < src[k]
      /\ \A j \in 1..Len(r) : Kept(ds[src[j]], p, recursive, r[j])
      /\ \A i \in 1..n : ~Matches(ds[i].path, p, recursive) \/ ds[i].modified =>
           \E j \in 1..Len(r) : src[j] = i
  BY DEF KeptFrom
<1>2. PICK m \in Nat : Len(r) = m
  BY <1>1
<1> DEFINE t == Append(r, doc)
           s == [j \in 1..m + 1 |-> IF j = m + 1 THEN n + 1 ELSE src[j]]
<1>3. /\ t \in Seq(Document) /\ Len(t) = m + 1 /\ t[m + 1] = doc
      /\ \A j \in 1..m : t[j] = r[j]
  BY <1>1, <1>2, AppendProperties
<1>4. /\ s \in [1..m + 1 -> 1..n + 1] /\ s[m + 1] = n + 1
      /\ \A j \in 1..m : s[j] = src[j] /\ s[j] \in 1..n
  BY <1>1, <1>2
<1> HIDE DEF t, s
<1>5. \A j \in 1..m + 1 : j = m + 1 \/ j \in 1..m
  OBVIOUS
<1>6. \A j, k \in 1..m + 1 : j < k => s[j] < s[k]
  <2> SUFFICES ASSUME NEW j \in 1..m + 1, NEW k \in 1..m + 1, j < k PROVE s[j] < s[k]
    OBVIOUS
  <2>1. j \in 1..m
    OBVIOUS
  <2>2. CASE k = m + 1
    BY <1>4, <2>1, <2>2
  <2>3. CASE k \in 1..m
    BY <1>1, <1>2, <1>4, <2>1, <2>3
  <2> QED BY <1>5, <2>2, <2>3
<1>7. \A j \in 1..m + 1 : Kept(ds[s[j]], p, recursive, t[j])
  BY <1>1, <1>2, <1>3, <1>4, <1>5
<1>8. ASSUME NEW i \in 1..n + 1, ~Matches(ds[i].path, p, recursive) \/ ds[i].modified
      PROVE  \E j \in 1..m + 1 : s[j] = i
  <2>1. CASE i = n + 1
    BY <1>4, <2>1
  <2>2. CASE i \in 1..n
    <3>1. PICK j \in 1..m : src[j] = i
      BY <1>1, <1>2, <1>8, <2>2
    <3> QED BY <1>4, <3>1
  <2> QED BY <2>1, <2>2
<1>9. KeptFrom(ds, p, recursive, n + 1, t, s)
  BY <1>3, <1>4, <1>6, <1>7, <1>8 DEF KeptFrom
<1> QED BY <1>9 DEF t

LEMMA KeepsAsMany ==
  ASSUME NEW ds \in Seq(Document), NEW p, NEW recursive, NEW n \in Nat, n + 1 <= Len(ds),
         NEW r, NEW src, KeptFrom(ds, p, recursive, n, r, src),
         Matches(ds[n + 1].path, p, recursive), ~ds[n + 1].modified
  PROVE  KeptFrom(ds, p, recursive, n + 1, r, src)
<1>1. \A i \in 1..n + 1 : i = n + 1 \/ i \in 1..n
  OBVIOUS
<1> QED BY <1>1 DEF KeptFrom

\* The fold, step by step.
LEMMA RemovedSteps ==
  ASSUME NEW ds \in Seq(Document), NEW p, NEW recursive
  PROVE  \E acc : /\ acc[0] = <<>>
                  /\ \A i \in 1..Len(ds) :
                       acc[i] = IF ~Matches(ds[i].path, p, recursive) THEN Append(acc[i - 1], ds[i])
                                ELSE IF ds[i].modified THEN Append(acc[i - 1], CutOff(ds[i]))
                                ELSE acc[i - 1]
                  /\ acc[Len(ds)] = Removed(ds, p, recursive)
<1> DEFINE N == Len(ds)
           g(x, y) == IF ~Matches(x.path, p, recursive) THEN Append(y, x)
                      ELSE IF x.modified THEN Append(y, CutOff(x)) ELSE y
           F(h) == [s \in SUBSET (1..N) |-> IF s = {} THEN <<>> ELSE g(ds[Max(s)], h[s \ {Max(s)}])]
           step == [i \in 1..N |-> [kept \in Seq(Document) |-> g(ds[i], kept)]]
           h == CHOOSE h : h = F(h)
<1>1. N \in Nat /\ <<>> \in Seq(Document) /\ DOMAIN ds = 1..N /\ \A i \in 1..N : ds[i] \in Document
  OBVIOUS
<1>2. \A d \in Document : CutOff(d) \in Document
  BY DEF CutOff, Document
<1>3. step \in [1..N -> [Seq(Document) -> Seq(Document)]]
  <2> HIDE DEF N
  <2> QED BY <1>1, <1>2
<1>4. PICK it : IsIter(it, N, Seq(Document), <<>>, step)
  <2> HIDE DEF step, N
  <2> QED BY <1>1, <1>3, IterExists
<1>5. it = F(it)
  <2>1. ASSUME NEW s \in SUBSET (1..N), s # {} PROVE it[s] = g(ds[Max(s)], it[s \ {Max(s)}])
    <3>1. Max(s) \in 1..N
      <4> HIDE DEF N
      <4> QED BY <2>1, <1>1, MaxOfInitial
    <3>2. it[s \ {Max(s)}] \in Seq(Document)
      BY <1>4 DEF IsIter
    <3>3. it[s] = step[Max(s)][it[s \ {Max(s)}]]
      BY <1>4, <2>1 DEF IsIter
    <3> QED BY <3>1, <3>2, <3>3
  <2> QED BY <2>1, <1>4 DEF IsIter
<1>6. Removed(ds, p, recursive) = h[1..N]
  BY <1>1 DEF Removed, FoldLeft, MapThenFoldSet
<1>7. h = F(h)
  BY <1>5
<1> DEFINE acc == [i \in 0..N |-> h[1..i]]
<1>8. acc[0] = <<>>
  <2>1. 1..0 = {} /\ {} \in SUBSET (1..N)
    OBVIOUS
  <2> HIDE DEF h
  <2>2. h[1..0] = <<>>
    BY <2>1, <1>7
  <2> QED BY <2>2, <1>1
<1>9. ASSUME NEW i \in 1..N PROVE acc[i] = g(ds[i], acc[i - 1])
  <2>1. /\ 1..i \in SUBSET (1..N) /\ 1..i # {}
        /\ Max(1..i) = i /\ (1..i) \ {i} = 1..(i - 1)
    <3> HIDE DEF N
    <3> QED BY <1>1, Initials
  <2> HIDE DEF h
  <2>2. h[1..i] = g(ds[Max(1..i)], h[(1..i) \ {Max(1..i)}])
    <3> HIDE DEF g
    <3> QED BY <1>7, <2>1
  <2>3. h[1..i] = g(ds[i], h[1..i - 1])
    <3> HIDE DEF g
    <3> QED BY <2>1, <2>2
  <2>4. i \in 0..N /\ i - 1 \in 0..N
    BY <1>1
  <2>5. acc[i] = h[1..i] /\ acc[i - 1] = h[1..i - 1]
    BY <2>4
  <2> QED BY <2>3, <2>5
<1>10. acc[N] = h[1..N]
  BY <1>1
<1> HIDE DEF acc, h
<1>11. \A i \in 1..N : acc[i] = g(ds[i], acc[i - 1])
  BY <1>9
<1> QED BY <1>6, <1>8, <1>10, <1>11

LEMMA RemovedDocs ==
  ASSUME NEW ds \in Seq(Document), NEW p, NEW recursive
  PROVE  \E src : KeptFrom(ds, p, recursive, Len(ds), Removed(ds, p, recursive), src)
<1>1. PICK acc : /\ acc[0] = <<>>
                 /\ \A i \in 1..Len(ds) :
                      acc[i] = IF ~Matches(ds[i].path, p, recursive) THEN Append(acc[i - 1], ds[i])
                               ELSE IF ds[i].modified THEN Append(acc[i - 1], CutOff(ds[i]))
                               ELSE acc[i - 1]
                 /\ acc[Len(ds)] = Removed(ds, p, recursive)
  BY RemovedSteps
<1> DEFINE S == {n \in Nat : n <= Len(ds) => \E src : KeptFrom(ds, p, recursive, n, acc[n], src)}
<1>2. 0 \in S
  <2> DEFINE src == [j \in 1..0 |-> 0]
  <2>1. <<>> \in Seq(Document) /\ Len(<<>>) = 0 /\ 1..0 = {} /\ src \in [1..0 -> 1..0]
    OBVIOUS
  <2> HIDE DEF src
  <2>2. KeptFrom(ds, p, recursive, 0, <<>>, src)
    BY <2>1 DEF KeptFrom
  <2> QED BY <1>1, <2>2
<1>3. ASSUME NEW n \in Nat, n \in S PROVE n + 1 \in S
  <2> SUFFICES ASSUME n + 1 <= Len(ds) PROVE \E src : KeptFrom(ds, p, recursive, n + 1, acc[n + 1], src)
    OBVIOUS
  <2>1. PICK src : KeptFrom(ds, p, recursive, n, acc[n], src)
    BY <1>3
  <2>2. n + 1 \in 1..Len(ds) /\ n + 1 - 1 = n /\ ds[n + 1] \in Document
    OBVIOUS
  <2>3. CutOff(ds[n + 1]) \in Document
    BY <2>2 DEF CutOff, Document
  <2>4. acc[n + 1] = IF ~Matches(ds[n + 1].path, p, recursive) THEN Append(acc[n], ds[n + 1])
                     ELSE IF ds[n + 1].modified THEN Append(acc[n], CutOff(ds[n + 1]))
                     ELSE acc[n]
    BY <1>1, <2>2
  <2>5. CASE ~Matches(ds[n + 1].path, p, recursive)
    <3>1. Kept(ds[n + 1], p, recursive, ds[n + 1])
      BY <2>5 DEF Kept
    <3> QED BY <2>1, <2>2, <2>4, <2>5, <3>1, KeepsOneMore
  <2>6. CASE Matches(ds[n + 1].path, p, recursive) /\ ds[n + 1].modified
    <3>1. Kept(ds[n + 1], p, recursive, CutOff(ds[n + 1]))
      BY <2>6 DEF Kept
    <3> QED BY <2>1, <2>3, <2>4, <2>6, <3>1, KeepsOneMore
  <2>7. CASE Matches(ds[n + 1].path, p, recursive) /\ ~ds[n + 1].modified
    BY <2>1, <2>4, <2>7, KeepsAsMany
  <2> QED BY <2>5, <2>6, <2>7
<1>4. Nat \subseteq S
  <2> HIDE DEF S
  <2> QED BY <1>2, <1>3, NatSetInduction
<1> QED BY <1>1, <1>4

\* The first document of a path, if there is one, is at one place.
LEMMA FirstOfPath ==
  ASSUME NEW ds \in Seq(Document), NEW p
  PROVE  /\ At(ds, p) \subseteq 1..Len(ds) /\ \A i \in At(ds, p) : ds[i].path = p
         /\ \A i, j \in At(ds, p) : i = j
         /\ At(ds, p) = {} => \A i \in 1..Len(ds) : ds[i].path # p
<1>1. DOMAIN ds = 1..Len(ds) /\ Len(ds) \in Nat
  OBVIOUS
<1>2. \A i, j \in At(ds, p) : i = j
  <2> SUFFICES ASSUME NEW i \in At(ds, p), NEW j \in At(ds, p), i < j PROVE FALSE
    BY <1>1 DEF At
  <2>1. i \in 1..j - 1
    BY <1>1 DEF At
  <2> QED BY <2>1 DEF At
<1>3. ASSUME NEW i \in 1..Len(ds), ds[i].path = p PROVE At(ds, p) # {}
  <2> DEFINE T == {j \in 1..Len(ds) : ds[j].path = p}
  <2>1. PICK j \in T : \A k \in T : j <= k
    <3>1. T \subseteq Nat /\ T # {}
      BY <1>3
    <3> HIDE DEF T
    <3> QED BY <3>1, LeastNat
  <2>2. ASSUME NEW k \in 1..j - 1 PROVE ds[k].path # p
    <3>1. k \in 1..Len(ds) /\ ~(j <= k)
      BY <1>1, <2>1
    <3> QED BY <2>1, <3>1
  <2>3. j \in At(ds, p)
    BY <1>1, <2>1, <2>2 DEF At
  <2> QED BY <2>3
<1> QED BY <1>1, <1>2, <1>3 DEF At

\* A document that loads has its path for itself, one that saves is the first
\* of its path, and both are owed their answers, unless they have been moved.
LoadsAt(ds, ign, q, i) ==
  /\ ds[i].path \notin ign
  /\ \A k \in 1..Len(ds) : ds[k].path = ds[i].path => k = i
  /\ OwedIn(q, "open", ds[i].path)
SavesAt(ds, q, i) == i \in At(ds, ds[i].path) /\ OwedIn(q, "save", ds[i].path)

SafeAt(ds, ign, q, i) ==
  ~ds[i].moved => /\ ds[i].loading => LoadsAt(ds, ign, q, i)
                  /\ ds[i].saving => SavesAt(ds, q, i)
Safe(ds, ign, q) == ds \in Seq(Document) /\ \A i \in 1..Len(ds) : SafeAt(ds, ign, q, i)

\* Some of the documents are left, in their order and with their paths.
LEMMA SomeAreLeft ==
  ASSUME NEW ds \in Seq(Document), NEW ds2 \in Seq(Document), NEW ign, NEW q,
         NEW src \in [1..Len(ds2) -> 1..Len(ds)],
         \A j, k \in 1..Len(ds2) : j < k => src[j] < src[k],
         \A j \in 1..Len(ds2) :
           /\ ds2[j].path = ds[src[j]].path
           /\ ~ds2[j].moved => /\ ds2[j].loading => LoadsAt(ds, ign, q, src[j])
                               /\ ds2[j].saving => SavesAt(ds, q, src[j])
  PROVE  Safe(ds2, ign, q)
<1>1. DOMAIN ds = 1..Len(ds) /\ DOMAIN ds2 = 1..Len(ds2) /\ Len(ds) \in Nat /\ Len(ds2) \in Nat
  OBVIOUS
<1>2. ASSUME NEW j \in 1..Len(ds2), LoadsAt(ds, ign, q, src[j]) PROVE LoadsAt(ds2, ign, q, j)
  <2>1. ASSUME NEW k \in 1..Len(ds2), ds2[k].path = ds2[j].path PROVE k = j
    <3>1. src[k] = src[j]
      BY <1>2, <2>1 DEF LoadsAt
    <3>2. src[k] \in Nat /\ ~(k < j) /\ ~(j < k)
      BY <1>1, <3>1
    <3> QED BY <1>1, <3>2
  <2> QED BY <1>2, <2>1 DEF LoadsAt
<1>3. ASSUME NEW j \in 1..Len(ds2), SavesAt(ds, q, src[j]) PROVE SavesAt(ds2, q, j)
  <2>1. ASSUME NEW k \in 1..j - 1 PROVE ds2[k].path # ds2[j].path
    <3>1. k \in 1..Len(ds2) /\ k < j
      BY <1>1
    <3>2. src[k] < src[j] /\ src[k] \in 1..Len(ds) /\ src[j] \in 1..Len(ds)
      BY <3>1
    <3>3. src[k] \in 1..src[j] - 1
      BY <1>1, <3>2
    <3> QED BY <1>3, <3>1, <3>3 DEF SavesAt, At
  <2> QED BY <1>1, <1>3, <2>1 DEF SavesAt, At
<1> QED BY <1>2, <1>3 DEF Safe, SafeAt

\* All are left.
LEMMA AllAreLeft ==
  ASSUME NEW ds \in Seq(Document), NEW ds2 \in Seq(Document), NEW ign, NEW q, Len(ds2) = Len(ds),
         \A j \in 1..Len(ds) :
           /\ ds2[j].path = ds[j].path
           /\ ~ds2[j].moved => /\ ds2[j].loading => LoadsAt(ds, ign, q, j)
                               /\ ds2[j].saving => SavesAt(ds, q, j)
  PROVE  Safe(ds2, ign, q)
<1> DEFINE src == [j \in 1..Len(ds2) |-> j]
<1>1. src \in [1..Len(ds2) -> 1..Len(ds)] /\ \A j \in 1..Len(ds2) : src[j] = j
  OBVIOUS
<1> HIDE DEF src
<1>2. \A j, k \in 1..Len(ds2) : j < k => src[j] < src[k]
  BY <1>1
<1>3. \A j \in 1..Len(ds2) :
        /\ ds2[j].path = ds[src[j]].path
        /\ ~ds2[j].moved => /\ ds2[j].loading => LoadsAt(ds, ign, q, src[j])
                            /\ ds2[j].saving => SavesAt(ds, q, src[j])
  BY <1>1
<1> QED BY <1>1, <1>2, <1>3, SomeAreLeft

\* One comes behind the others, with a path that no other has.
LEMMA OneMore ==
  ASSUME NEW ds \in Seq(Document), NEW doc \in Document, NEW ign, NEW q,
         At(ds, doc.path) = {}, ~doc.saving,
         doc.loading => doc.path \notin ign /\ OwedIn(q, "open", doc.path),
         Safe(ds, ign, q)
  PROVE  Safe(Append(ds, doc), ign, q)
<1> DEFINE t == Append(ds, doc)
<1>1. PICK n \in Nat : Len(ds) = n
  OBVIOUS
<1>2. /\ t \in Seq(Document) /\ Len(t) = n + 1 /\ t[n + 1] = doc /\ DOMAIN t = 1..n + 1
      /\ \A j \in 1..n : t[j] = ds[j]
  BY <1>1, AppendProperties
<1>3. DOMAIN ds = 1..n /\ \A i \in 1..n : ds[i].path # doc.path
  BY <1>1, FirstOfPath
<1>4. \A j \in 1..n + 1 : j = n + 1 \/ j \in 1..n
  OBVIOUS
<1> HIDE DEF t
<1>5. SafeAt(t, ign, q, n + 1)
  <2>1. \A k \in 1..n + 1 : t[k].path = doc.path => k = n + 1
    BY <1>2, <1>3, <1>4
  <2> QED BY <1>2, <2>1 DEF SafeAt, LoadsAt
<1>6. ASSUME NEW j \in 1..n PROVE SafeAt(t, ign, q, j)
  <2>1. SafeAt(ds, ign, q, j) /\ t[j] = ds[j]
    BY <1>1, <1>2 DEF Safe
  <2>2. ASSUME LoadsAt(ds, ign, q, j) PROVE LoadsAt(t, ign, q, j)
    <3>1. \A k \in 1..n + 1 : t[k].path = t[j].path => k = j
      BY <1>1, <1>2, <1>3, <1>4, <2>1, <2>2 DEF LoadsAt
    <3> QED BY <1>2, <2>1, <2>2, <3>1 DEF LoadsAt
  <2>3. ASSUME SavesAt(ds, q, j) PROVE SavesAt(t, q, j)
    <3>1. \A k \in 1..j - 1 : k \in 1..n /\ t[k] = ds[k]
      BY <1>2
    <3> QED BY <1>2, <1>3, <2>1, <2>3, <3>1 DEF SavesAt, At
  <2> QED BY <2>1, <2>2, <2>3 DEF SafeAt
<1> QED BY <1>2, <1>4, <1>5, <1>6 DEF Safe, t

LEMMA DocumentFields ==
  ASSUME NEW d \in Document
  PROVE  /\ d.path \in Seq(Name) /\ d.text \in Content /\ d.synced \in Content
         /\ d.modified \in BOOLEAN /\ d.loading \in BOOLEAN /\ d.saving \in BOOLEAN
         /\ d.missing \in BOOLEAN /\ d.moved \in BOOLEAN
BY DEF Document

LEMMA MadeDocument ==
  ASSUME NEW p \in Seq(Name), NEW text \in Content, NEW loading \in BOOLEAN
  PROVE  /\ MakeDocument(p, text, loading) \in Document
         /\ MakeDocument(p, text, loading).path = p
         /\ MakeDocument(p, text, loading).loading = loading
         /\ ~MakeDocument(p, text, loading).saving
BY DEF MakeDocument, Document

LEMMA CutOffDocument ==
  ASSUME NEW d \in Document
  PROVE  /\ CutOff(d) \in Document /\ CutOff(d).path = d.path /\ CutOff(d).text = d.text
         /\ CutOff(d).modified = d.modified /\ CutOff(d).missing
         /\ ~CutOff(d).loading /\ ~CutOff(d).saving
BY DEF CutOff, Document

\* Nothing happens to the documents.
LEMMA StillSafe ==
  ASSUME NEW ds, NEW ign, NEW ign2 \in SUBSET ign, NEW q, NEW q2, Safe(ds, ign, q),
         \A op, x : op \in {"open", "save"} /\ OwedIn(q, op, x) => OwedIn(q2, op, x)
  PROVE  Safe(ds, ign2, q2)
<1>1. ds \in Seq(Document) /\ \A i \in 1..Len(ds) : SafeAt(ds, ign, q, i)
  BY DEF Safe
<1>2. \A i \in 1..Len(ds) : /\ LoadsAt(ds, ign, q, i) => LoadsAt(ds, ign2, q2, i)
                            /\ SavesAt(ds, q, i) => SavesAt(ds, q2, i)
  BY DEF LoadsAt, SavesAt
<1> QED BY <1>1, <1>2 DEF Safe, SafeAt

LEMMA OpenedSafe ==
  ASSUME NEW ds, NEW ign, NEW q, NEW q2, NEW p \in Seq(Name), Safe(ds, ign, q),
         At(ds, p) = {}, OwedIn(q2, "open", p),
         \A op, x : OwedIn(q, op, x) => OwedIn(q2, op, x)
  PROVE  Safe(Append(ds, MakeDocument(p, Empty, TRUE)), ign \ {p}, q2)
<1>1. Safe(ds, ign \ {p}, q2) /\ ds \in Seq(Document)
  BY StillSafe DEF Safe
<1>2. Empty \in Content
  BY DEF Content
<1> DEFINE doc == MakeDocument(p, Empty, TRUE)
<1>3. doc \in Document /\ doc.path = p /\ doc.loading = TRUE /\ ~doc.saving
  BY <1>2, MadeDocument
<1> HIDE DEF doc
<1>4. Safe(Append(ds, doc), ign \ {p}, q2)
  BY <1>1, <1>3, OneMore
<1> QED BY <1>4 DEF doc

LEMMA TypedSafe ==
  ASSUME NEW ds, NEW ign, NEW q, Safe(ds, ign, q), NEW i \in 1..Len(ds), NEW text \in Content
  PROVE  Safe([ds EXCEPT ![i].text = text, ![i].modified = TRUE], ign, q)
<1>1. ds \in Seq(Document) /\ \A j \in 1..Len(ds) : SafeAt(ds, ign, q, j)
  BY DEF Safe
<1>2. PICK d \in Document : d = ds[i]
  BY <1>1
<1> DEFINE new == [d EXCEPT !.text = text, !.modified = TRUE]
           t == [ds EXCEPT ![i] = new]
<1>3. [ds EXCEPT ![i].text = text, ![i].modified = TRUE] = t
  BY <1>1, <1>2
<1>4. /\ new \in Document /\ new.path = d.path /\ new.loading = d.loading
      /\ new.saving = d.saving /\ new.moved = d.moved
  BY DEF Document
<1> HIDE DEF new
<1>5. t \in Seq(Document) /\ Len(t) = Len(ds) /\ \A j \in 1..Len(ds) : t[j] = IF j = i THEN new ELSE ds[j]
  BY <1>1, <1>4
<1> HIDE DEF t
<1>6. \A j \in 1..Len(ds) :
        /\ t[j].path = ds[j].path
        /\ ~t[j].moved => /\ t[j].loading => LoadsAt(ds, ign, q, j)
                          /\ t[j].saving => SavesAt(ds, q, j)
  BY <1>1, <1>2, <1>4, <1>5 DEF SafeAt
<1>7. Safe(t, ign, q)
  BY <1>1, <1>5, <1>6, AllAreLeft
<1> QED BY <1>3, <1>7

LEMMA SavedSafe ==
  ASSUME NEW ds, NEW ign, NEW q, NEW q2, Safe(ds, ign, q), NEW i \in 1..Len(ds), ~ds[i].loading,
         OwedIn(q2, "save", ds[i].path), \A op, x : OwedIn(q, op, x) => OwedIn(q2, op, x)
  PROVE  Safe([ds EXCEPT ![i].saving = TRUE, ![i].moved = i \notin At(ds, ds[i].path)], ign, q2)
<1>1. ds \in Seq(Document) /\ \A j \in 1..Len(ds) : SafeAt(ds, ign, q2, j)
  BY StillSafe DEF Safe
<1>2. PICK d \in Document : d = ds[i]
  BY <1>1
<1>3. PICK b \in BOOLEAN : b = (i \notin At(ds, ds[i].path))
  OBVIOUS
<1> DEFINE new == [d EXCEPT !.saving = TRUE, !.moved = b]
           t == [ds EXCEPT ![i] = new]
<1>4. [ds EXCEPT ![i].saving = TRUE, ![i].moved = i \notin At(ds, ds[i].path)] = t
  <2>1. [ds EXCEPT ![i].saving = TRUE, ![i].moved = b] = t
    BY <1>1, <1>2
  <2> QED BY <1>3, <2>1, Zenon
<1>5. new \in Document /\ new.path = d.path /\ new.loading = d.loading /\ new.moved = b
  BY DEF Document
<1> HIDE DEF new
<1>6. t \in Seq(Document) /\ Len(t) = Len(ds) /\ \A j \in 1..Len(ds) : t[j] = IF j = i THEN new ELSE ds[j]
  BY <1>1, <1>5
<1> HIDE DEF t
<1>7. \A j \in 1..Len(ds) :
        /\ t[j].path = ds[j].path
        /\ ~t[j].moved => /\ t[j].loading => LoadsAt(ds, ign, q2, j)
                          /\ t[j].saving => SavesAt(ds, q2, j)
  BY <1>1, <1>2, <1>3, <1>5, <1>6 DEF SafeAt, SavesAt
<1>8. Safe(t, ign, q2)
  BY <1>1, <1>6, <1>7, AllAreLeft
<1> QED BY <1>4, <1>8

\* One goes.
LEMMA OneLess ==
  ASSUME NEW ds \in Seq(Document), NEW i \in 1..Len(ds), NEW ign, NEW q,
         \A j \in 1..Len(ds) : j # i =>
           (~ds[j].moved => /\ ds[j].loading => LoadsAt(ds, ign, q, j)
                            /\ ds[j].saving => SavesAt(ds, q, j))
  PROVE  Safe(RemoveAt(ds, i), ign, q)
<1> DEFINE t == RemoveAt(ds, i)
<1>1. PICK m \in Nat : Len(ds) = m + 1
  <2>1. Len(ds) - 1 \in Nat /\ Len(ds) = Len(ds) - 1 + 1
    OBVIOUS
  <2> QED BY <2>1
<1> DEFINE src == [j \in 1..m |-> IF j <= i - 1 THEN j ELSE j + 1]
<1>2. /\ t \in Seq(Document) /\ Len(t) = Len(ds) - 1
      /\ \A j \in 1..i - 1 : t[j] = ds[j]
      /\ \A j \in i..Len(ds) - 1 : t[j] = ds[j + 1]
  BY RemoveAtProperties
<1>3. Len(t) = m /\ \A j \in i..m : t[j] = ds[j + 1]
  BY <1>1, <1>2
<1>4. i \in 1..m + 1
  BY <1>1
<1> HIDE DEF t
<1>5. \A j \in 1..m : src[j] \in 1..m + 1 /\ src[j] # i
  BY <1>4
<1>6. \A j, k \in 1..m : j < k => src[j] < src[k]
  BY <1>4
<1>7. \A j \in 1..m : t[j] = ds[src[j]]
  <2> SUFFICES ASSUME NEW j \in 1..m PROVE t[j] = ds[src[j]]
    OBVIOUS
  <2>1. CASE j <= i - 1
    <3>1. j \in 1..i - 1 /\ src[j] = j
      BY <1>4, <2>1
    <3> QED BY <1>2, <3>1
  <2>2. CASE ~(j <= i - 1)
    <3>1. j \in i..m /\ src[j] = j + 1
      BY <1>4, <2>2
    <3> QED BY <1>3, <3>1
  <2> QED BY <2>1, <2>2
<1>8. src \in [1..Len(t) -> 1..Len(ds)]
  BY <1>1, <1>3, <1>5
<1> HIDE DEF src
<1>9. \A j \in 1..Len(t) :
        /\ t[j].path = ds[src[j]].path
        /\ ~t[j].moved => /\ t[j].loading => LoadsAt(ds, ign, q, src[j])
                          /\ t[j].saving => SavesAt(ds, q, src[j])
  BY <1>1, <1>3, <1>5, <1>7
<1>10. \A j, k \in 1..Len(t) : j < k => src[j] < src[k]
  BY <1>3, <1>6
<1>11. Safe(t, ign, q)
  BY <1>2, <1>8, <1>9, <1>10, SomeAreLeft
<1> QED BY <1>11 DEF t

LEMMA ClosedSafe ==
  ASSUME NEW ds, NEW ign, NEW q, Safe(ds, ign, q), NEW i \in 1..Len(ds)
  PROVE  Safe(RemoveAt(ds, i), Ignoring(ds, i, ign), q)
<1>1. ds \in Seq(Document) /\ \A j \in 1..Len(ds) : SafeAt(ds, ign, q, j)
  BY DEF Safe
<1> DEFINE ign2 == Ignoring(ds, i, ign)
<1>2. ign2 \subseteq ign \cup {ds[i].path}
  BY DEF Ignoring
<1> HIDE DEF ign2
<1>3. \A j \in 1..Len(ds) : j # i =>
        (~ds[j].moved => /\ ds[j].loading => LoadsAt(ds, ign2, q, j)
                         /\ ds[j].saving => SavesAt(ds, q, j))
  BY <1>1, <1>2 DEF SafeAt, LoadsAt
<1>4. Safe(RemoveAt(ds, i), ign2, q)
  BY <1>1, <1>3, OneLess
<1> QED BY <1>4 DEF ign2

\* The document that has been owed the text at p does not load any more.
LEMMA OpenTakenSafe ==
  ASSUME NEW ds, NEW ign, NEW q, NEW q2, NEW p \in Seq(Name), NEW text \in Content,
         Safe(ds, ign, q),
         \A op, x : OwedIn(q, op, x) => OwedIn(q2, op, x) \/ (op = "open" /\ x = p)
  PROVE  /\ Safe(OpenFailed(ds, p, ign), ign \ {p}, q2)
         /\ Safe(Loaded(ds, p, text, ign), ign \ {p}, q2)
<1>1. ds \in Seq(Document) /\ \A j \in 1..Len(ds) : SafeAt(ds, ign, q, j)
  BY DEF Safe
<1>2. \A j \in 1..Len(ds) : ds[j].path # p =>
        (~ds[j].moved => /\ ds[j].loading => LoadsAt(ds, ign \ {p}, q2, j)
                         /\ ds[j].saving => SavesAt(ds, q2, j))
  BY <1>1 DEF SafeAt, LoadsAt, SavesAt
<1>3. \A j \in 1..Len(ds) : ~ds[j].moved /\ ds[j].saving => SavesAt(ds, q2, j)
  BY <1>1 DEF SafeAt, SavesAt
<1>4. \A j \in 1..Len(ds) : ds[j].path = p /\ ~ds[j].moved /\ ds[j].loading =>
        p \notin ign /\ At(ds, p) = {j} /\ \A k \in 1..Len(ds) : ds[k].path = p => k = j
  BY <1>1, FirstOfPath DEF SafeAt, LoadsAt
<1>5. CASE p \in ign \/ At(ds, p) = {}
  <2>1. Safe(ds, ign \ {p}, q2)
    <3>1. \A j \in 1..Len(ds) :
            /\ ds[j].path = ds[j].path
            /\ ~ds[j].moved => /\ ds[j].loading => LoadsAt(ds, ign \ {p}, q2, j)
                               /\ ds[j].saving => SavesAt(ds, q2, j)
      BY <1>2, <1>3, <1>4, <1>5
    <3> QED BY <1>1, <3>1, AllAreLeft
  <2>2. OpenFailed(ds, p, ign) = ds
    BY <1>5 DEF OpenFailed
  <2>3. CASE p \in ign
    BY <2>1, <2>2, <2>3 DEF Loaded
  <2>4. CASE p \notin ign
    <3>1. Loaded(ds, p, text, ign) = Append(ds, MakeDocument(p, text, FALSE))
      BY <1>5, <2>4 DEF Loaded
    <3> DEFINE doc == MakeDocument(p, text, FALSE)
    <3>2. doc \in Document /\ doc.path = p /\ doc.loading = FALSE /\ ~doc.saving
      BY MadeDocument
    <3> HIDE DEF doc
    <3>3. Safe(Append(ds, doc), ign \ {p}, q2)
      BY <1>1, <1>5, <2>1, <2>4, <3>2, OneMore
    <3> QED BY <2>1, <2>2, <3>1, <3>3 DEF doc
  <2> QED BY <2>3, <2>4
<1>6. CASE p \notin ign /\ At(ds, p) # {}
  <2>1. PICK i \in 1..Len(ds) : At(ds, p) = {i} /\ ds[i].path = p
    BY <1>1, <1>6, FirstOfPath
  <2>2. Safe(OpenFailed(ds, p, ign), ign \ {p}, q2)
    <3>1. OpenFailed(ds, p, ign) = RemoveAt(ds, i)
      BY <1>6, <2>1 DEF OpenFailed
    <3>2. \A j \in 1..Len(ds) : j # i =>
            (~ds[j].moved => /\ ds[j].loading => LoadsAt(ds, ign \ {p}, q2, j)
                             /\ ds[j].saving => SavesAt(ds, q2, j))
      BY <1>2, <1>3, <1>4, <2>1
    <3> QED BY <1>1, <3>1, <3>2, OneLess
  <2>3. Safe(Loaded(ds, p, text, ign), ign \ {p}, q2)
    <3> DEFINE doc == MakeDocument(p, text, FALSE)
               t == [j \in DOMAIN ds |-> IF j \in At(ds, p) THEN doc ELSE ds[j]]
    <3>1. Loaded(ds, p, text, ign) = t
      BY <1>6 DEF Loaded
    <3>2. doc \in Document /\ doc.path = p /\ doc.loading = FALSE /\ ~doc.saving
      BY MadeDocument
    <3> HIDE DEF doc
    <3>3. /\ t \in Seq(Document) /\ Len(t) = Len(ds)
          /\ \A j \in 1..Len(ds) : t[j] = IF j = i THEN doc ELSE ds[j]
      BY <1>1, <2>1, <3>2
    <3> HIDE DEF t
    <3>4. \A j \in 1..Len(ds) :
            /\ t[j].path = ds[j].path
            /\ ~t[j].moved => /\ t[j].loading => LoadsAt(ds, ign \ {p}, q2, j)
                              /\ t[j].saving => SavesAt(ds, q2, j)
      BY <1>2, <1>3, <1>4, <2>1, <3>2, <3>3
    <3> QED BY <1>1, <3>1, <3>3, <3>4, AllAreLeft
  <2> QED BY <2>2, <2>3
<1> QED BY <1>5, <1>6

\* The document that has been owed the result for p does not save any more.
LEMMA SaveTakenSafe ==
  ASSUME NEW ds, NEW ign, NEW q, NEW q2, NEW p, NEW text \in Content, Safe(ds, ign, q),
         \A op, x : OwedIn(q, op, x) => OwedIn(q2, op, x) \/ (op = "save" /\ x = p)
  PROVE  Safe(SaveFailed(ds, p), ign, q2) /\ Safe(SaveSucceeded(ds, p, text), ign, q2)
<1>1. ds \in Seq(Document) /\ \A j \in 1..Len(ds) : SafeAt(ds, ign, q, j) /\ ds[j] \in Document
  BY DEF Safe
<1>2. \A j \in 1..Len(ds) : j \notin At(ds, p) =>
        (~ds[j].moved => /\ ds[j].loading => LoadsAt(ds, ign, q2, j)
                         /\ ds[j].saving => SavesAt(ds, q2, j))
  BY <1>1 DEF SafeAt, LoadsAt, SavesAt
<1>3. \A j \in 1..Len(ds) : ~ds[j].moved => (ds[j].loading => LoadsAt(ds, ign, q2, j))
  BY <1>1 DEF SafeAt, LoadsAt
<1>4. Safe(SaveFailed(ds, p), ign, q2)
  <2> DEFINE new(d) == [d EXCEPT !.modified = TRUE, !.saving = FALSE]
             t == [j \in 1..Len(ds) |-> IF j \in At(ds, p) THEN new(ds[j]) ELSE ds[j]]
  <2>1. SaveFailed(ds, p) = t
    BY <1>1 DEF SaveFailed
  <2>2. \A d \in Document : /\ new(d) \in Document /\ new(d).path = d.path
                            /\ new(d).loading = d.loading /\ ~new(d).saving /\ new(d).moved = d.moved
    BY DEF Document
  <2> HIDE DEF new
  <2>3. t \in Seq(Document) /\ Len(t) = Len(ds)
    BY <1>1, <2>2
  <2>4. \A j \in 1..Len(ds) :
          /\ t[j].path = ds[j].path
          /\ ~t[j].moved => /\ t[j].loading => LoadsAt(ds, ign, q2, j)
                            /\ t[j].saving => SavesAt(ds, q2, j)
    BY <1>1, <1>2, <1>3, <2>2
  <2> HIDE DEF t
  <2> QED BY <1>1, <2>1, <2>3, <2>4, AllAreLeft
<1>5. Safe(SaveSucceeded(ds, p, text), ign, q2)
  <2> DEFINE new(d) == [d EXCEPT !.modified = FALSE, !.saving = FALSE, !.synced = text]
             t == [j \in 1..Len(ds) |-> IF j \in At(ds, p) THEN new(ds[j]) ELSE ds[j]]
  <2>1. SaveSucceeded(ds, p, text) = t
    BY <1>1 DEF SaveSucceeded
  <2>2. \A d \in Document : /\ new(d) \in Document /\ new(d).path = d.path
                            /\ new(d).loading = d.loading /\ ~new(d).saving /\ new(d).moved = d.moved
    BY DEF Document
  <2> HIDE DEF new
  <2>3. t \in Seq(Document) /\ Len(t) = Len(ds)
    BY <1>1, <2>2
  <2>4. \A j \in 1..Len(ds) :
          /\ t[j].path = ds[j].path
          /\ ~t[j].moved => /\ t[j].loading => LoadsAt(ds, ign, q2, j)
                            /\ t[j].saving => SavesAt(ds, q2, j)
    BY <1>1, <1>2, <1>3, <2>2
  <2> HIDE DEF t
  <2> QED BY <1>1, <2>1, <2>3, <2>4, AllAreLeft
<1> QED BY <1>4, <1>5

\* What is removed goes, or does not wait any more.
LEMMA RemovedSafe ==
  ASSUME NEW ds, NEW ign, NEW q, NEW q2, NEW p, NEW recursive, Safe(ds, ign, q),
         \A op, x : op \in {"open", "save"} /\ OwedIn(q, op, x) => OwedIn(q2, op, x)
  PROVE  Safe(Removed(ds, p, recursive), ign, q2)
<1>0. Safe(ds, ign, q2)
  BY StillSafe
<1>1. ds \in Seq(Document) /\ \A j \in 1..Len(ds) : SafeAt(ds, ign, q2, j) /\ ds[j] \in Document
  BY <1>0 DEF Safe
<1> DEFINE r == Removed(ds, p, recursive)
<1>2. PICK src : KeptFrom(ds, p, recursive, Len(ds), r, src)
  BY <1>1, RemovedDocs
<1> HIDE DEF r
<1>3. /\ r \in Seq(Document) /\ src \in [1..Len(r) -> 1..Len(ds)]
      /\ \A j, k \in 1..Len(r) : j < k => src[j] < src[k]
      /\ \A j \in 1..Len(r) : Kept(ds[src[j]], p, recursive, r[j])
  BY <1>2 DEF KeptFrom
<1>4. \A j \in 1..Len(r) :
        /\ r[j].path = ds[src[j]].path
        /\ ~r[j].moved => /\ r[j].loading => LoadsAt(ds, ign, q2, src[j])
                          /\ r[j].saving => SavesAt(ds, q2, src[j])
  <2> SUFFICES ASSUME NEW j \in 1..Len(r)
               PROVE  /\ r[j].path = ds[src[j]].path
                      /\ ~r[j].moved => /\ r[j].loading => LoadsAt(ds, ign, q2, src[j])
                                        /\ r[j].saving => SavesAt(ds, q2, src[j])
    OBVIOUS
  <2>1. src[j] \in 1..Len(ds)
    BY <1>3
  <2>2. CASE r[j] = ds[src[j]]
    BY <1>1, <2>1, <2>2 DEF SafeAt
  <2>3. CASE r[j] = CutOff(ds[src[j]])
    BY <1>1, <2>1, <2>3, CutOffDocument
  <2> QED BY <1>3, <2>2, <2>3 DEF Kept
<1> QED BY <1>1, <1>3, <1>4, SomeAreLeft DEF r

\* What is below from is below to, and is not found any more by what it waits
\* for; nor is what has had a path there.
LEMMA RenamedSafe ==
  ASSUME NEW ds, NEW ign, NEW q, NEW q2, NEW from \in Seq(Name), NEW to \in Seq(Name),
         Safe(ds, ign, q), \A op, x : op \in {"open", "save"} /\ OwedIn(q, op, x) => OwedIn(q2, op, x)
  PROVE  Safe(Renamed(ds, from, to), ign, q2)
<1>0. Safe(ds, ign, q2)
  BY StillSafe
<1>1. /\ ds \in Seq(Document) /\ DOMAIN ds = 1..Len(ds)
      /\ \A j \in 1..Len(ds) : SafeAt(ds, ign, q2, j) /\ ds[j] \in Document
  BY <1>0 DEF Safe
<1> DEFINE hit(i) == Matches(ds[i].path, from, TRUE)
           taken == {Rebase(ds[j].path, from, to) : j \in {k \in 1..Len(ds) : hit(k)}}
           there(d) == [d EXCEPT !.path = Rebase(@, from, to), !.missing = FALSE, !.moved = TRUE]
           here(d) == [d EXCEPT !.moved = @ \/ d.path \in taken]
           t == [i \in 1..Len(ds) |-> IF hit(i) THEN there(ds[i]) ELSE here(ds[i])]
<1>2. Renamed(ds, from, to) = t
  BY <1>1 DEF Renamed
<1>3. ASSUME NEW d \in Document, Matches(d.path, from, TRUE)
      PROVE  there(d) \in Document /\ there(d).path = Rebase(d.path, from, to) /\ there(d).moved = TRUE
  <2>1. IsPrefix(from, d.path) /\ d.path \in Seq(Name)
    BY <1>3, DocumentFields, PrefixTransitive DEF Matches
  <2>2. Rebase(d.path, from, to) \in Seq(Name)
    BY <2>1, RebasedPaths
  <2> QED BY <2>2 DEF Document
<1>4. ASSUME NEW d \in Document
      PROVE  /\ here(d) \in Document /\ here(d).path = d.path
             /\ here(d).loading = d.loading /\ here(d).saving = d.saving
             /\ ~here(d).moved => ~d.moved /\ d.path \notin taken
  <2> HIDE DEF taken
  <2> QED BY DEF Document
<1>5. \A i \in 1..Len(ds) : hit(i) => Rebase(ds[i].path, from, to) \in taken
  OBVIOUS
<1>a. \A i \in 1..Len(ds) : hit(i) => Matches(ds[i].path, from, TRUE)
  OBVIOUS
<1> HIDE DEF there, here, taken, hit
<1>6. /\ t \in Seq(Document) /\ Len(t) = Len(ds) /\ DOMAIN t = 1..Len(ds)
      /\ \A i \in 1..Len(ds) : /\ hit(i) => t[i].moved /\ t[i].path \in taken
                               /\ ~hit(i) => t[i] = here(ds[i])
  <2>1. \A i \in 1..Len(ds) :
          /\ hit(i) => there(ds[i]) \in Document /\ there(ds[i]).moved = TRUE
                     /\ there(ds[i]).path \in taken
          /\ here(ds[i]) \in Document
    <3> SUFFICES ASSUME NEW i \in 1..Len(ds)
                 PROVE  /\ hit(i) => there(ds[i]) \in Document /\ there(ds[i]).moved = TRUE
                                     /\ there(ds[i]).path \in taken
                        /\ here(ds[i]) \in Document
      OBVIOUS
    <3>1. ds[i] \in Document
      BY <1>1
    <3>2. here(ds[i]) \in Document
      BY <3>1, <1>4
    <3>3. CASE hit(i)
      <4>1. there(ds[i]) \in Document /\ there(ds[i]).path = Rebase(ds[i].path, from, to)
            /\ there(ds[i]).moved = TRUE
        BY <1>3, <1>a, <3>1, <3>3
      <4> QED BY <1>5, <3>2, <3>3, <4>1
    <3> QED BY <3>2, <3>3
  <2>2. \A i \in 1..Len(ds) : t[i] = IF hit(i) THEN there(ds[i]) ELSE here(ds[i])
    OBVIOUS
  <2>3. t \in Seq(Document) /\ Len(t) = Len(ds) /\ DOMAIN t = 1..Len(ds)
    BY <1>1, <2>1
  <2> HIDE DEF t
  <2> QED BY <2>1, <2>2, <2>3
<1> HIDE DEF t
<1>7. ASSUME NEW i \in 1..Len(ds), ~t[i].moved
      PROVE  /\ t[i].path = ds[i].path /\ t[i].loading = ds[i].loading /\ t[i].saving = ds[i].saving
             /\ ~ds[i].moved
             /\ \A k \in 1..Len(ds) : t[k].path = t[i].path => ds[k].path = ds[i].path
  <2>1. /\ t[i].path = ds[i].path /\ t[i].loading = ds[i].loading /\ t[i].saving = ds[i].saving
        /\ ~ds[i].moved /\ ds[i].path \notin taken
    BY <1>1, <1>4, <1>6, <1>7
  <2>2. \A k \in 1..Len(ds) : t[k].path = t[i].path => ds[k].path = ds[i].path
    BY <1>1, <1>4, <1>6, <2>1
  <2> QED BY <2>1, <2>2
<1>8. ASSUME NEW i \in 1..Len(ds), ~t[i].moved PROVE SafeAt(t, ign, q2, i)
  <2>1. LoadsAt(ds, ign, q2, i) => LoadsAt(t, ign, q2, i)
    BY <1>6, <1>7, <1>8 DEF LoadsAt
  <2>2. SavesAt(ds, q2, i) => SavesAt(t, q2, i)
    <3>1. \A k \in 1..i - 1 : k \in 1..Len(ds)
      BY <1>1
    <3> QED BY <1>1, <1>6, <1>7, <1>8, <3>1 DEF SavesAt, At
  <2> QED BY <1>1, <1>7, <1>8, <2>1, <2>2 DEF SafeAt
<1> QED BY <1>2, <1>6, <1>8 DEF Safe, SafeAt

(***************************************************************************)
(* The nodes of the file pane                                              *)
(***************************************************************************)
LEMMA RootApart ==
  /\ Root \notin Seq(Name) /\ Root \notin Path /\ Root # Home /\ Home \in Path
  /\ \A p \in Seq(Name) : p # <<>> => ~IsPrefix(p, Root)
<1>1. "/" \notin Name
  BY NamesAssumption DEF NamesAssumption
<1>2. Root \in Seq(Name \cup {"/"}) /\ Len(Root) = 1 /\ Root[1] = "/"
  BY DEF Root
<1>3. Root \notin Seq(Name)
  <2>1. \A s \in Seq(Name) : Len(s) = 1 => s[1] \in Name
    OBVIOUS
  <2> QED BY <1>1, <1>2, <2>1
<1>4. ASSUME NEW p \in Seq(Name), p # <<>> PROVE ~IsPrefix(p, Root)
  <2>1. p \in Seq(Name \cup {"/"}) /\ Len(p) \in Nat \ {0} /\ p[1] \in Name
    <3>1. Len(p) \in Nat \ {0}
      BY <1>4, EmptySeq
    <3>2. \A i \in 1..Len(p) : p[i] \in Name \cup {"/"}
      OBVIOUS
    <3>3. p \in Seq(Name \cup {"/"})
      BY <3>2
    <3> QED BY <3>1, <3>3
  <2>2. IsPrefix(p, Root) => p[1] = Root[1]
    <3>1. IsPrefix(p, Root) <=> Len(p) <= Len(Root) /\ \A i \in 1..Len(p) : p[i] = Root[i]
      BY <1>2, <2>1, PrefixElements
    <3> QED BY <2>1, <3>1
  <2> QED BY <1>1, <1>2, <2>1, <2>2
<1>5. <<>> \in Seq(Name)
  OBVIOUS
<1> QED BY <1>3, <1>4, <1>5, Paths DEF Home

NodesTyped(ns) ==
  /\ ns \in [DOMAIN ns -> TreeNode]
  /\ DOMAIN ns \subseteq (Path \ {Home}) \cup {Root} /\ Root \in DOMAIN ns
  /\ \A n \in DOMAIN ns \ {Root} : Front(n) = Home \/ Front(n) \in DOMAIN ns

\* A directory that loads is owed a listing.
NodesSafe(ns, q) ==
  /\ NodesTyped(ns)
  /\ \A n \in DOMAIN ns : ns[n].loading => OwedIn(q, "list", n)

LEMMA ClearedSafe ==
  ASSUME NEW q
  PROVE  NodesSafe(Cleared, q) /\ (OwedIn(q, "list", Root) => NodesSafe(Reloading, q))
<1>1. Fresh(TRUE) \in TreeNode /\ ~Fresh(TRUE).loading
  BY DEF Fresh, TreeNode
<1>2. DOMAIN Cleared = {Root} /\ Cleared[Root] = Fresh(TRUE)
  BY DEF Cleared
<1>3. NodesSafe(Cleared, q)
  BY <1>1, <1>2, Zenon DEF NodesSafe, NodesTyped, Cleared
<1>4. DOMAIN Reloading = {Root} /\ Reloading[Root] = [Fresh(TRUE) EXCEPT !.loading = TRUE]
  BY <1>2 DEF Reloading
<1>5. Reloading[Root] \in TreeNode
  BY <1>4 DEF Fresh, TreeNode
<1>6. NodesTyped(Reloading)
  <2>1. Reloading = [n \in {Root} |-> Reloading[n]]
    BY <1>2 DEF Reloading, Cleared
  <2> QED BY <1>4, <1>5, <2>1 DEF NodesTyped
<1> QED BY <1>3, <1>4, <1>6 DEF NodesSafe

LEMMA NodesStillSafe ==
  ASSUME NEW ns, NEW q, NEW q2, NodesSafe(ns, q),
         \A p : OwedIn(q, "list", p) => OwedIn(q2, "list", p)
  PROVE  NodesSafe(ns, q2)
BY DEF NodesSafe

LEMMA ExpandedSafe ==
  ASSUME NEW ns, NEW q, NEW q2, NodesSafe(ns, q), NEW n \in DOMAIN ns,
         \A op, p : OwedIn(q, op, p) => OwedIn(q2, op, p), OwedIn(q2, "list", n)
  PROVE  NodesSafe([ns EXCEPT ![n].loading = TRUE], q2)
<1> DEFINE m == [ns EXCEPT ![n].loading = TRUE]
<1>1. NodesTyped(ns) /\ ns[n] \in TreeNode
  BY DEF NodesSafe, NodesTyped
<1>2. PICK d \in TreeNode : d = ns[n]
  BY <1>1
<1>3. [d EXCEPT !.loading = TRUE] \in TreeNode
  BY DEF TreeNode
<1>4. /\ DOMAIN m = DOMAIN ns /\ m = [x \in DOMAIN ns |-> m[x]]
      /\ \A x \in DOMAIN ns : m[x] \in TreeNode /\ (x # n => m[x] = ns[x])
  BY <1>1, <1>2, <1>3 DEF NodesTyped
<1> HIDE DEF m
<1>5. NodesTyped(m)
  BY <1>1, <1>4 DEF NodesTyped
<1> QED BY <1>4, <1>5 DEF NodesSafe, m

\* A path has one node at most.
LEMMA OneNode ==
  ASSUME NEW ns, NodesTyped(ns), NEW p \in Place
  PROVE  /\ NodesFor(ns, p) \subseteq DOMAIN ns /\ \A n, m \in NodesFor(ns, p) : n = m
         /\ p \in DOMAIN ns => NodesFor(ns, p) = {p}
         /\ \A n \in NodesFor(ns, p) : Resolve(n) = Resolve(p)
<1>1. Home \notin DOMAIN ns
  BY RootApart DEF NodesTyped
<1> QED BY <1>1, RootApart DEF NodesFor, Resolve

LEMMA FailedToLoadSafe ==
  ASSUME NEW ns, NEW q, NEW q2, NEW p \in Place, NodesSafe(ns, q),
         \A op, x : OwedIn(q, op, x) => OwedIn(q2, op, x) \/ (op = "list" /\ x = p)
  PROVE  NodesSafe(FailedToLoad(ns, p), q2)
<1> DEFINE done(d) == [d EXCEPT !.loading = FALSE]
           m == [n \in DOMAIN ns |-> IF n \in NodesFor(ns, p) THEN done(ns[n]) ELSE ns[n]]
<1>1. FailedToLoad(ns, p) = m
  BY DEF FailedToLoad
<1>2. \A d \in TreeNode : done(d) \in TreeNode /\ ~done(d).loading
  BY DEF TreeNode
<1>3. NodesTyped(ns) /\ \A n \in DOMAIN ns : ns[n].loading => OwedIn(q, "list", n)
  BY DEF NodesSafe
<1>4. p \in DOMAIN ns => p \in NodesFor(ns, p)
  BY DEF NodesFor
<1> HIDE DEF done
<1>5. NodesTyped(m)
  BY <1>2, <1>3 DEF NodesTyped
<1>6. \A n \in DOMAIN m : m[n].loading => OwedIn(q2, "list", n)
  BY <1>2, <1>3, <1>4 DEF NodesTyped
<1> QED BY <1>1, <1>5, <1>6 DEF NodesSafe

\* A listing keeps the nodes in their directories, and what they wait for.
LEMMA ListedSafe ==
  ASSUME NEW ns, NEW q, NEW q2, NEW p \in Place, NodesSafe(ns, q),
         NEW entries, entries \subseteq [path : Path, kind : {"dir", "file", "link"}],
         \A e \in entries : e.path # Home /\ Front(e.path) = Resolve(p),
         \A op, x : OwedIn(q, op, x) => OwedIn(q2, op, x) \/ (op = "list" /\ x = p)
  PROVE  NodesSafe(Listed(ns, p, entries), q2)
<1>1. /\ NodesTyped(ns) /\ \A n \in DOMAIN ns : ns[n].loading => OwedIn(q, "list", n)
      /\ \A n \in DOMAIN ns : ns[n] \in TreeNode
  BY DEF NodesSafe, NodesTyped
<1>2. CASE NodesFor(ns, p) = {}
  <2>1. Listed(ns, p, entries) = ns
    BY <1>2 DEF Listed
  <2>2. p \notin DOMAIN ns
    BY <1>2 DEF NodesFor
  <2> QED BY <1>1, <2>1, <2>2 DEF NodesSafe
<1>3. CASE NodesFor(ns, p) # {}
  <2> DEFINE n == CHOOSE x \in NodesFor(ns, p) : TRUE
             listed == {e.path : e \in entries}
             gone == UNION {Within(x, DOMAIN ns) : x \in ShownIn(ns, n) \ listed}
             isDir(x) == Entry(x, "dir") \in entries
             m == [x \in (DOMAIN ns \ gone) \cup listed |->
                     CASE x = n -> [dir |-> ns[n].dir, loaded |-> TRUE, loading |-> FALSE]
                       [] x \in listed \ DOMAIN ns -> Fresh(isDir(x))
                       [] x \in listed \cap DOMAIN ns -> [ns[x] EXCEPT !.dir = isDir(x)]
                       [] OTHER -> ns[x]]
  <2>1. Listed(ns, p, entries) = m
    BY <1>3 DEF Listed
  <2>2. /\ n \in NodesFor(ns, p) /\ n \in DOMAIN ns /\ Resolve(n) = Resolve(p)
        /\ p \in DOMAIN ns => n = p
    <3> HIDE DEF n
    <3>1. n \in NodesFor(ns, p)
      BY <1>3 DEF n
    <3> QED BY <1>1, <3>1, OneNode
  <2>3. \A x \in listed : x \in Path \ {Home} /\ Front(x) = Resolve(n)
    BY <2>2
  <2>4. ShownIn(ns, n) = {x \in DOMAIN ns \ {Root} : Front(x) = Resolve(n)}
    BY DEF ShownIn
  <2>5. \A y \in gone : y \in DOMAIN ns /\ \E x \in DOMAIN ns \ {Root} :
          Front(x) = Resolve(n) /\ x \notin listed /\ IsPrefix(x, y)
    BY <2>4 DEF Within
  <2>6. \A x \in DOMAIN ns \ {Root}, y \in DOMAIN ns :
          Front(x) = Resolve(n) /\ x \notin listed /\ IsPrefix(x, y) => y \in gone
    <3> SUFFICES ASSUME NEW x \in DOMAIN ns \ {Root}, NEW y \in DOMAIN ns,
                        Front(x) = Resolve(n), x \notin listed, IsPrefix(x, y)
                 PROVE  y \in gone
      OBVIOUS
    <3>1. x \in ShownIn(ns, n) \ listed /\ y \in Within(x, DOMAIN ns)
      BY <2>4 DEF Within
    <3> QED BY <3>1
  <2>7. isDir(Root) \in BOOLEAN /\ \A x : isDir(x) \in BOOLEAN
    OBVIOUS
  <2> HIDE DEF n, gone, listed, isDir
  <2>8. \A x \in DOMAIN ns \ {Root} : x \in Path \ {Home} /\ x \in Seq(Name) /\ x # <<>>
    BY <1>1, Paths DEF NodesTyped, Home
  <2>9. Root \notin gone /\ Root \in DOMAIN ns
    BY <1>1, <2>5, <2>8, RootApart DEF NodesTyped
  <2>10. DOMAIN m = (DOMAIN ns \ gone) \cup listed /\ n \notin listed
    <3>1. n # Root => Resolve(n) = n /\ n \in Path /\ Front(n) # n
      BY <2>2, <2>8, Fronts DEF Resolve
    <3>2. n \notin listed
      BY <2>3, <3>1, RootApart
    <3> QED BY <3>2
  <2>11. ASSUME NEW x \in DOMAIN m
         PROVE  m[x] \in TreeNode /\ (m[x].loading => x \in DOMAIN ns /\ ns[x].loading /\ x # n)
    <3> DEFINE here == [dir |-> ns[n].dir, loaded |-> TRUE, loading |-> FALSE]
               kept(d) == [d EXCEPT !.dir = isDir(x)]
    <3>1. here \in TreeNode /\ ~here.loading
      BY <1>1, <2>2 DEF TreeNode
    <3>2. Fresh(isDir(x)) \in TreeNode /\ ~Fresh(isDir(x)).loading
      BY <2>7 DEF Fresh, TreeNode
    <3>3. \A d \in TreeNode : kept(d) \in TreeNode /\ kept(d).loading = d.loading
      BY <2>7 DEF TreeNode
    <3> HIDE DEF here, kept
    <3>4. CASE x = n
      <4>1. m[x] = here
        BY <2>10, <3>4 DEF here
      <4> QED BY <3>1, <4>1
    <3>5. CASE x # n /\ x \in listed \ DOMAIN ns
      <4>1. m[x] = Fresh(isDir(x))
        BY <3>5
      <4> QED BY <3>2, <4>1
    <3>6. CASE x # n /\ x \in listed \cap DOMAIN ns
      <4>1. m[x] = kept(ns[x])
        BY <3>6 DEF kept
      <4> QED BY <1>1, <3>3, <3>6, <4>1
    <3>7. CASE x # n /\ x \notin listed
      <4>1. m[x] = ns[x] /\ x \in DOMAIN ns
        BY <2>10, <3>7
      <4> QED BY <1>1, <3>7, <4>1
    <3> QED BY <3>4, <3>5, <3>6, <3>7
  <2>12. m = [x \in DOMAIN m |-> m[x]]
    BY <2>10
  <2> HIDE DEF m
  <2>13. ASSUME NEW x \in DOMAIN m \ {Root} PROVE Front(x) = Home \/ Front(x) \in DOMAIN m
    <3>1. CASE x \in listed
      <4>1. Front(x) = Resolve(n)
        BY <2>3, <3>1
      <4>2. CASE n = Root
        BY <4>1, <4>2 DEF Resolve
      <4>3. CASE n # Root
        <5>1. n \in Seq(Name) /\ n # <<>> /\ Front(x) = n
          BY <2>2, <2>8, <4>1, <4>3 DEF Resolve
        <5>2. n \notin gone
          <6> SUFFICES ASSUME NEW y \in DOMAIN ns \ {Root}, Front(y) = n, IsPrefix(y, n) PROVE FALSE
            BY <2>5, <4>3 DEF Resolve
          <6>1. y \in Seq(Name) /\ y # <<>>
            BY <2>8
          <6>2. IsPrefix(n, y) /\ n # y
            BY <5>1, <6>1, PrefixTransitive, PrefixOfFront
          <6> QED BY <5>1, <6>1, <6>2, PrefixTransitive
        <5> QED BY <2>2, <2>10, <5>1, <5>2
      <4> QED BY <4>2, <4>3
    <3>2. CASE x \in DOMAIN ns /\ x \notin gone
      <4>1. x \in Seq(Name) /\ x # <<>> /\ (Front(x) = Home \/ Front(x) \in DOMAIN ns)
        BY <1>1, <2>8, <3>2 DEF NodesTyped
      <4>2. Front(x) \notin gone
        <5> SUFFICES ASSUME NEW y \in DOMAIN ns \ {Root}, Front(y) = Resolve(n), y \notin listed,
                            IsPrefix(y, Front(x))
                     PROVE  FALSE
          BY <2>5
        <5>1. y \in Seq(Name) /\ IsPrefix(y, x)
          BY <2>8, <4>1, PrefixOfFront
        <5> QED BY <2>6, <3>2, <5>1
      <4> QED BY <2>10, <4>1, <4>2
    <3> QED BY <2>10, <3>1, <3>2
  <2>14. NodesTyped(m)
    <3>1. DOMAIN m \subseteq (Path \ {Home}) \cup {Root} /\ Root \in DOMAIN m
      BY <2>3, <2>8, <2>9, <2>10
    <3> QED BY <2>11, <2>12, <2>13, <3>1 DEF NodesTyped
  <2>15. \A x \in DOMAIN m : m[x].loading => OwedIn(q2, "list", x)
    BY <1>1, <2>2, <2>11
  <2> QED BY <2>1, <2>14, <2>15 DEF NodesSafe
<1> QED BY <1>2, <1>3

(***************************************************************************)
(* The invariant                                                           *)
(***************************************************************************)
LinkOps == States \cup {"connect", "disconnect"}
Bare(q) == \A op, p : OwedIn(q, op, p) => op \in LinkOps
Orphans(ds) ==
  \A i \in DOMAIN ds : ds[i].modified /\ ds[i].missing /\ ~ds[i].saving /\ ~ds[i].loading
Clips == {NoClip} \cup [path : Path \ {Home}, cut : BOOLEAN]

ServerFits == IsTree(server) /\ alive \in BOOLEAN /\ unseen \in SUBSET Seq(Name)
PaneFits == connected \in BOOLEAN /\ available \in BOOLEAN /\ clipboard \in Clips
CountersFit == moves \in 0..MaxMoves /\ typed \in 0..Len(Typed)
WaitersFit ==
  /\ InOrder(queue) /\ NodesSafe(nodes, queue)
  /\ Safe(docs, ignored, queue) /\ ignored \in SUBSET Seq(Name)
AloneFits ==
  ~connected => nodes = Cleared /\ ~available /\ Bare(queue) /\ Orphans(docs)

IInv == ServerFits /\ PaneFits /\ CountersFit /\ WaitersFit /\ AloneFits

LEMMA InvariantShows ==
  IInv => TypeOK /\ WaitersAreOwed /\ DisconnectedIsBare
<1> SUFFICES ASSUME IInv PROVE TypeOK /\ WaitersAreOwed /\ DisconnectedIsBare
  OBVIOUS
<1>1. InOrder(queue) /\ NodesSafe(nodes, queue) /\ Safe(docs, ignored, queue)
  BY DEF IInv, WaitersFit
<1>2. queue \in Seq(Requests) /\ \A i \in Answered, j \in Unanswered : i < j
  <2>1. queue \in Seq(Good) /\ Good \subseteq Requests
    BY <1>1 DEF InOrder, Good
  <2>2. queue \in Seq(Requests)
    BY <2>1
  <2> QED BY <1>1, <2>2, Served
<1>3. TypeOK
  BY <1>1, <1>2 DEF TypeOK, IInv, ServerFits, PaneFits, CountersFit, WaitersFit, NodesSafe, NodesTyped,
                    Safe, Clips, Shown
<1>4. DOMAIN docs = 1..Len(docs)
  BY <1>1 DEF Safe
<1>5. WaitersAreOwed
  BY <1>1, <1>4 DEF WaitersAreOwed, NodesSafe, Safe, SafeAt, LoadsAt, SavesAt, Owed, OwedIn
<1>6. DisconnectedIsBare
  BY DEF IInv, AloneFits, DisconnectedIsBare, Bare, Orphans, OwedIn, LinkOps
<1> QED BY <1>3, <1>5, <1>6

LEMMA InitEstablishes == Init => IInv
<1> SUFFICES ASSUME Init PROVE IInv
  OBVIOUS
<1>1. <<>> \in Seq(Good) /\ Len(<<>>) = 0 /\ DOMAIN <<>> = {} /\ <<>> \in Seq(Document)
  OBVIOUS
<1>2. InOrder(queue) /\ Bare(queue)
  BY <1>1 DEF Init, InOrder, Split, Bare, OwedIn
<1>3. NodesSafe(nodes, queue)
  BY ClearedSafe DEF Init
<1>4. Safe(docs, ignored, queue) /\ Orphans(docs)
  BY <1>1 DEF Init, Safe, Orphans
<1>5. 0 \in 0..MaxMoves /\ 0 \in 0..Len(Typed)
  BY BoundsAssumption, TypedAssumption DEF BoundsAssumption, TypedAssumption
<1>6. IsTree(server)
  BY TreeAssumption DEF Init, TreeAssumption
<1> QED BY <1>2, <1>3, <1>4, <1>5, <1>6
        DEF Init, IInv, ServerFits, PaneFits, CountersFit, WaitersFit, AloneFits, Clips

(***************************************************************************)
(* What happens to the queue                                               *)
(***************************************************************************)
LEMMA NewItem ==
  ASSUME NEW op \in Commands, NEW p \in Place
  PROVE  /\ Item(op, p) \in Requests /\ Item(op, p).op = op /\ Item(op, p).path = p
         /\ Item(op, p).answer = Pending /\ Item(op, p).known = TRUE
<1>1. Root \in Place /\ Empty \in Content /\ <<>> \in Seq(Place) /\ Pending \in Answers
  BY DEF Place, Content, Answers
<1> QED BY <1>1 DEF Item, Requests

LEMMA Asking ==
  ASSUME InOrder(queue), NEW items \in Seq(Good), queue' = queue \o items,
         \A i \in 1..Len(items) : items[i].answer = Pending
  PROVE  /\ InOrder(queue') /\ \A op, p : OwedIn(queue, op, p) => OwedIn(queue', op, p)
         /\ \A i \in 1..Len(items) : items[i].known => OwedIn(queue', items[i].op, items[i].path)
         /\ Bare(queue) /\ (\A i \in 1..Len(items) : items[i].op \in LinkOps) => Bare(queue')
<1>1. /\ InOrder(queue \o items)
      /\ \A op, p : OwedIn(queue, op, p) => OwedIn(queue \o items, op, p)
      /\ \A i \in 1..Len(items) :
           items[i].known => OwedIn(queue \o items, items[i].op, items[i].path)
      /\ \A op, p : OwedIn(queue \o items, op, p) =>
           OwedIn(queue, op, p) \/ \E i \in 1..Len(items) : items[i].op = op
  BY Asked
<1> QED BY <1>1 DEF Bare

LEMMA AskingOne ==
  ASSUME InOrder(queue), NEW item \in Good, item.answer = Pending, item.known, queue' = queue \o <<item>>
  PROVE  /\ InOrder(queue') /\ \A op, p : OwedIn(queue, op, p) => OwedIn(queue', op, p)
         /\ OwedIn(queue', item.op, item.path)
         /\ Bare(queue) /\ item.op \in LinkOps => Bare(queue')
<1> DEFINE items == <<item>>
<1>1. items \in Seq(Good) /\ Len(items) = 1 /\ items[1] = item /\ \A i \in 1..Len(items) : items[i] = item
  OBVIOUS
<1>2. queue' = queue \o items
  OBVIOUS
<1> HIDE DEF items
<1>3. /\ InOrder(queue') /\ \A op, p : OwedIn(queue, op, p) => OwedIn(queue', op, p)
      /\ \A i \in 1..Len(items) : items[i].known => OwedIn(queue', items[i].op, items[i].path)
      /\ Bare(queue) /\ (\A i \in 1..Len(items) : items[i].op \in LinkOps) => Bare(queue')
  BY <1>1, <1>2, Asking
<1> QED BY <1>1, <1>3

\* The driver answers the first request that waits.
LEMMA Answering ==
  ASSUME InOrder(queue), Unanswered # {}, NEW answer \in Answers \ {Pending},
         answer # Error /\ Request.op = "list" =>
           answer.kind = "listing"
           /\ \A e \in answer.entries : e.path # Home /\ Front(e.path) = Resolve(Request.path),
         answer # Error /\ Request.op = "open" => answer.kind = "content",
         queue' = [queue EXCEPT ![Next1].answer = answer]
  PROVE  /\ InOrder(queue') /\ \A op, p : OwedIn(queue, op, p) => OwedIn(queue', op, p)
         /\ Bare(queue) => Bare(queue')
<1>1. /\ Next1 \in 1..Len(queue) /\ Request \in Good /\ Split(queue, Next1 - 1)
      /\ queue \in Seq(Good)
  BY Served DEF InOrder
<1>2. PICK n \in 1..Len(queue) : n = Next1
  BY <1>1
<1>3. PICK r \in Good : r = queue[n] /\ r = Request
  BY <1>1, <1>2 DEF Request
<1> DEFINE new == [r EXCEPT !.answer = answer]
<1>4. queue' = [queue EXCEPT ![n] = new]
  BY <1>1, <1>2, <1>3
<1>5. /\ new \in Requests /\ new.answer = answer
      /\ new.known = r.known /\ new.op = r.op /\ new.path = r.path /\ new.to = r.to
      /\ new.refresh = r.refresh
  BY <1>3 DEF Good, Requests
<1> HIDE DEF new
<1>6. Fits(new)
  <2>1. Fits(r)
    BY DEF Good
  <2> QED BY <1>3, <1>5, <2>1 DEF Fits, Relists
<1>7. new \in Good /\ new.answer # Pending
  BY <1>5, <1>6 DEF Good
<1>8. /\ Split(queue, n - 1) /\ new.known = queue[n].known
      /\ new.op = queue[n].op /\ new.path = queue[n].path
  BY <1>1, <1>2, <1>3, <1>5
<1>9. InOrder(queue') /\ \A op, p : OwedIn(queue, op, p) <=> OwedIn(queue', op, p)
  BY <1>1, <1>4, <1>7, <1>8, AnsweredOne
<1> QED BY <1>9 DEF Bare

\* What waits still does when what is awaited is still owed.
LEMMA OnlyTheQueue ==
  ASSUME IInv, UNCHANGED <<nodes, docs, ignored, connected, available, clipboard>>,
         ServerFits', CountersFit', InOrder(queue'),
         \A op, p : op \in Awaited /\ OwedIn(queue, op, p) => OwedIn(queue', op, p),
         connected \/ (Bare(queue) => Bare(queue'))
  PROVE  IInv'
<1>1. WaitersFit'
  <2>1. NodesSafe(nodes, queue) /\ Safe(docs, ignored, queue) /\ ignored \in SUBSET Seq(Name)
    BY DEF IInv, WaitersFit
  <2>2. NodesSafe(nodes, queue')
    BY <2>1, NodesStillSafe DEF Awaited
  <2>3. Safe(docs, ignored, queue')
    BY <2>1, StillSafe DEF Awaited
  <2> QED BY <2>1, <2>2, <2>3 DEF WaitersFit
<1>2. PaneFits' /\ AloneFits'
  BY DEF IInv, PaneFits, AloneFits
<1> QED BY <1>1, <1>2 DEF IInv

LEMMA Moves ==
  ASSUME CountersFit, Move, typed' \in 0..Len(Typed)
  PROVE  CountersFit'
BY BoundsAssumption DEF CountersFit, Move, BoundsAssumption

(***************************************************************************)
(* The connection                                                          *)
(***************************************************************************)
LEMMA LinkStep ==
  ASSUME IInv, Connect \/ Disconnect
  PROVE  IInv'
<1>1. InOrder(queue) /\ CountersFit /\ ServerFits
  BY DEF IInv, WaitersFit
<1>2. PICK op \in {"connect", "disconnect"} : queue' = Append(queue, Item(op, Root))
  BY DEF Connect, Disconnect
<1> DEFINE item == Item(op, Root)
<1>3. Root \in Place /\ op \in Commands /\ op \in LinkOps
  BY DEF Place, Commands, LinkOps
<1>4. item \in Requests /\ item.op = op /\ item.answer = Pending /\ item.known = TRUE
  BY <1>3, NewItem
<1> HIDE DEF item
<1>5. item \in Good
  BY <1>2, <1>4 DEF Good, Fits, Mutations
<1>6. queue' = queue \o <<item>>
  BY <1>1, <1>2, <1>5, AppendIsConcat DEF InOrder, item
<1>7. /\ InOrder(queue') /\ \A o, p : OwedIn(queue, o, p) => OwedIn(queue', o, p)
      /\ Bare(queue) => Bare(queue')
  BY <1>1, <1>3, <1>4, <1>5, <1>6, AskingOne
<1>8. CountersFit'
  BY <1>1, Moves DEF Connect, Disconnect, CountersFit
<1>9. ServerFits' /\ UNCHANGED <<nodes, docs, ignored, connected, available, clipboard>>
  BY <1>1 DEF Connect, Disconnect, ServerFits, remote, pane, editor
<1> QED BY <1>7, <1>8, <1>9, OnlyTheQueue

LEMMA NewState ==
  ASSUME NEW s \in States
  PROVE  State(s) \in Good /\ State(s).answer # Pending /\ State(s).op = s
<1>1. PICK r \in Requests : r = Item(s, Root) /\ r.op = s
  BY NewItem DEF Place, Commands
<1> DEFINE new == [r EXCEPT !.answer = Ok]
<1>2. new \in Requests /\ new.op = s /\ new.answer = Ok
  BY <1>1 DEF Requests, Answers
<1>3. Fits(new)
  BY <1>2 DEF Fits, States, Mutations
<1> QED BY <1>1, <1>2, <1>3 DEF Good, State, Ok, Pending

LEMMA DropStep ==
  ASSUME IInv, Drop
  PROVE  IInv'
<1>1. InOrder(queue) /\ queue \in Seq(Good) /\ CountersFit /\ ServerFits
  BY DEF IInv, WaitersFit, InOrder
<1>2. Next1 \in 1..Len(queue) + 1 /\ Split(queue, Next1 - 1)
  BY <1>1, Served
<1>3. PICK n \in 1..Len(queue) + 1 : n = Next1 /\ Split(queue, n - 1)
  BY <1>2
<1>4. PICK r \in Good : r = State("down") /\ r.answer # Pending /\ r.op = "down"
  BY NewState DEF States
<1>5. queue' = InsertAt(queue, n, r)
  BY <1>3, <1>4 DEF Drop, Next1
<1>6. /\ InOrder(queue')
      /\ \A op, p : /\ OwedIn(queue, op, p) => OwedIn(queue', op, p)
                    /\ OwedIn(queue', op, p) => OwedIn(queue, op, p) \/ op = "down"
  BY <1>1, <1>3, <1>4, <1>5, Told
<1>7. Bare(queue) => Bare(queue')
  BY <1>6 DEF Bare, LinkOps, States
<1>8. CountersFit'
  BY <1>1, Moves DEF Drop, CountersFit
<1>9. ServerFits' /\ UNCHANGED <<nodes, docs, ignored, connected, available, clipboard>>
  BY <1>1 DEF Drop, ServerFits, pane, editor
<1> QED BY <1>6, <1>7, <1>8, <1>9, OnlyTheQueue

LEMMA ServeLinkStep ==
  ASSUME IInv, ServeLink
  PROVE  IInv'
<1>1. InOrder(queue) /\ queue \in Seq(Good) /\ CountersFit /\ ServerFits
  BY DEF IInv, WaitersFit, InOrder
<1>2. /\ Next1 \in 1..Len(queue) /\ Split(queue, Next1 - 1)
      /\ Request.op \in {"connect", "disconnect"}
  BY <1>1, Served DEF ServeLink, Waiting
<1>3. PICK n \in 1..Len(queue) : n = Next1 /\ Split(queue, n - 1)
  BY <1>2
<1>4. queue[n].op \in {"connect", "disconnect"} /\ queue[n].op \in LinkOps
  BY <1>2, <1>3 DEF Request, LinkOps
<1>5. /\ InOrder(queue')
      /\ \A op, p : OwedIn(queue, op, p) => OwedIn(queue', op, p) \/ queue[n].op = op
      /\ \A op, p : OwedIn(queue', op, p) => OwedIn(queue, op, p) \/ op \in LinkOps
  <2>1. CASE queue' = RemoveAt(queue, n)
    BY <1>1, <1>3, <2>1, Refused
  <2>2. CASE queue' # RemoveAt(queue, n)
    <3>1. PICK s \in States : queue' = [queue EXCEPT ![n] = State(s)]
      BY <1>3, <2>2 DEF ServeLink, States
    <3>2. PICK r \in Good : r = State(s) /\ r.answer # Pending /\ r.op = s
      BY NewState
    <3>3. queue' = [queue EXCEPT ![n] = r]
      BY <3>1, <3>2
    <3>4. queue \in Seq(Good) /\ Split(queue, n - 1) /\ r.answer # Pending
      BY <1>1, <1>3, <3>2
    <3>5. /\ InOrder(queue')
          /\ \A op, p : OwedIn(queue, op, p) => OwedIn(queue', op, p) \/ queue[n].op = op
          /\ \A op, p : OwedIn(queue', op, p) => OwedIn(queue, op, p) \/ r.op = op
      BY <3>3, <3>4, Replaced
    <3> QED BY <3>2, <3>5 DEF LinkOps
  <2> QED BY <2>1, <2>2
<1>6. /\ \A op, p : op \in Awaited /\ OwedIn(queue, op, p) => OwedIn(queue', op, p)
      /\ Bare(queue) => Bare(queue')
  BY <1>4, <1>5 DEF Awaited, Bare
<1>7. ServerFits' /\ CountersFit' /\ UNCHANGED <<nodes, docs, ignored, connected, available, clipboard>>
  BY <1>1 DEF ServeLink, ServerFits, CountersFit, pane, editor, counters
<1> QED BY <1>5, <1>6, <1>7, OnlyTheQueue

(***************************************************************************)
(* The driver                                                              *)
(***************************************************************************)
LEMMA ReplyStep ==
  ASSUME IInv, Unanswered # {}, NEW answer \in Answers \ {Pending},
         answer # Error /\ Request.op = "list" =>
           answer.kind = "listing"
           /\ \A e \in answer.entries : e.path # Home /\ Front(e.path) = Resolve(Request.path),
         answer # Error /\ Request.op = "open" => answer.kind = "content",
         Reply(answer), IsTree(server'), unseen' \in SUBSET Seq(Name)
  PROVE  IInv'
<1>1. InOrder(queue) /\ CountersFit /\ ServerFits
  BY DEF IInv, WaitersFit
<1>2. /\ InOrder(queue') /\ \A op, p : OwedIn(queue, op, p) => OwedIn(queue', op, p)
      /\ Bare(queue) => Bare(queue')
  BY <1>1, Answering DEF Reply
<1>3. ServerFits' /\ CountersFit' /\ UNCHANGED <<nodes, docs, ignored, connected, available, clipboard>>
  BY <1>1 DEF Reply, ServerFits, CountersFit, pane, editor, counters
<1> QED BY <1>2, <1>3, OnlyTheQueue

LEMMA Replies ==
  ASSUME IInv, Unanswered # {}
  PROVE  /\ Request \in Requests /\ Fits(Request)
         /\ IsTree(server) /\ DOMAIN server \subseteq Path /\ Path \subseteq Seq(Name)
         /\ unseen \in SUBSET Seq(Name) /\ \A p \in DOMAIN server : server[p] \in Node
         /\ \A p \in DOMAIN server : DirAt(server, Parent(p))
<1>1. InOrder(queue) /\ IsTree(server) /\ unseen \in SUBSET Seq(Name)
  BY DEF IInv, ServerFits, WaitersFit
<1>2. Request \in Good
  BY <1>1, Served
<1> QED BY <1>1, <1>2, Paths DEF Good, IsTree, TreeOf, WellFormed

LEMMA Kinds ==
  ASSUME NEW n \in Node
  PROVE  n.kind \in {"dir", "file", "link"} /\ (n.kind = "file" => n.data \in Content)
BY DEF Node, Dir, File, Link

\* What a listing tells of a directory.
LEMMA Listing ==
  ASSUME IInv, Unanswered # {}, NEW d, NEW p \in Children(server, d),
         NEW e, e = Entry(p, server[p].kind)
  PROVE  e \in [path : Path, kind : {"dir", "file", "link"}] /\ e.path # Home /\ Front(e.path) = d
<1>1. p \in DOMAIN server /\ p # Home /\ Front(p) = d
  BY DEF Children, Home
<1>2. p \in Path /\ server[p].kind \in {"dir", "file", "link"}
  BY <1>1, Replies, Kinds
<1> QED BY <1>1, <1>2 DEF Entry

LEMMA ServeListStep ==
  ASSUME IInv, ServeList
  PROVE  IInv'
<1> DEFINE d == Resolve(Request.path)
           entries == {Entry(p, server[p].kind) : p \in Children(server, d)}
           answer == [kind |-> "listing", entries |-> entries]
<1>1. Unanswered # {} /\ Reply(answer) /\ server' = server /\ unseen' \subseteq unseen
  BY DEF ServeList, Waiting
<1>2. \A e \in entries : /\ e \in [path : Path, kind : {"dir", "file", "link"}]
                         /\ e.path # Home /\ Front(e.path) = d
  BY <1>1, Listing
<1>3. answer \in Answers \ {Pending} /\ answer # Error /\ answer.kind = "listing"
      /\ answer.entries = entries
  <2> HIDE DEF entries
  <2> QED BY <1>2 DEF Answers, Pending, Error
<1>4. Request.op = "list"
  BY DEF ServeList, Waiting
<1> HIDE DEF answer, entries
<1> QED BY <1>1, <1>2, <1>3, <1>4, Replies, ReplyStep

LEMMA ServeOpenStep ==
  ASSUME IInv, ServeOpen
  PROVE  IInv'
<1> DEFINE answer == [kind |-> "content", text |-> server[Request.path].data]
<1>1. Unanswered # {} /\ Reply(answer) /\ server' = server /\ unseen' = unseen /\ Request.op = "open"
  BY DEF ServeOpen, Waiting
<1>2. server[Request.path].data \in Content
  BY <1>1, Replies, Kinds DEF ServeOpen, FileAt
<1>3. answer \in Answers \ {Pending} /\ answer.kind = "content"
  BY <1>2 DEF Answers, Pending
<1> HIDE DEF answer
<1> QED BY <1>1, <1>3, Replies, ReplyStep

LEMMA EffectFits ==
  ASSUME IInv, Unanswered # {}, Effect,
         Request.op \in {"save", "write", "mkdir", "rename", "remove", "copy"}
  PROVE  IsTree(server') /\ unseen' \in SUBSET Seq(Name)
<1> DEFINE r == Request
<1>1. /\ r \in Requests /\ Fits(r) /\ IsTree(server) /\ DOMAIN server \subseteq Path
      /\ Path \subseteq Seq(Name) /\ unseen \in SUBSET Seq(Name)
      /\ \A p \in DOMAIN server : server[p] \in Node /\ DirAt(server, Parent(p))
  BY Replies
<1>2. r.text \in Content
  BY <1>1 DEF Requests
<1>3. Dir \in Node /\ File(r.text) \in Node
  BY <1>2 DEF Node
<1>4. CASE r.op \in {"save", "write"}
  <2>1. /\ r.path \in Path
        /\ FileAt(server, r.path) \/ (r.path \notin DOMAIN server /\ DirAt(server, Parent(r.path)))
        /\ server' = Put(server, r.path, File(r.text)) /\ unseen' = unseen
    BY <1>4 DEF Effect
  <2>2. DirAt(server, Parent(r.path)) /\ (FileAt(server, r.path) \/ r.path \notin DOMAIN server)
    BY <1>1, <2>1 DEF FileAt
  <2> QED BY <1>1, <1>3, <2>1, <2>2, PutTree DEF IsTree, FileAt, DirAt
<1>5. CASE r.op = "mkdir"
  <2>1. /\ r.path \notin DOMAIN server /\ DirAt(server, Parent(r.path))
        /\ server' = Put(server, r.path, Dir) /\ unseen' = unseen
    BY <1>5 DEF Effect
  <2>2. r.path \in Path
    BY <1>1, <1>5 DEF Fits
  <2> QED BY <1>1, <1>3, <2>1, <2>2, PutTree DEF IsTree, FileAt, DirAt
<1>6. CASE r.op = "copy"
  <2>1. /\ FileAt(server, r.path)
        /\ FileAt(server, r.to) \/ (r.to \notin DOMAIN server /\ DirAt(server, Parent(r.to)))
        /\ server' = Put(server, r.to, server[r.path]) /\ unseen' = unseen
    BY <1>6 DEF Effect
  <2>2. r.to \in Path /\ server[r.path] \in Node
    BY <1>1, <1>6, <2>1 DEF Fits, FileAt
  <2>3. DirAt(server, Parent(r.to)) /\ (FileAt(server, r.to) \/ r.to \notin DOMAIN server)
    BY <1>1, <2>1 DEF FileAt
  <2> QED BY <1>1, <2>1, <2>2, <2>3, PutTree DEF IsTree, FileAt, DirAt
<1>7. CASE r.op = "rename"
  <2>1. /\ r.path \in DOMAIN server /\ DirAt(server, Parent(r.to))
        /\ r.to \in DOMAIN server => server[r.to] # Dir /\ server[r.path] # Dir
        /\ ~IsPrefix(r.path, r.to) /\ Rebased(DOMAIN server, r.path, r.to) \subseteq Path
        /\ server' = Moved(server, r.path, r.to)
        /\ unseen' = unseen \cup Within(r.path, DOMAIN server)
    BY <1>7 DEF Effect, Lost
  <2>2. r.to \in Path /\ r.to # <<>>
    BY <1>1, <1>7 DEF Fits, Home
  <2>3. IsTree(server')
    BY <1>1, <2>1, <2>2, OneDirectory, MovedTree DEF IsTree, DirAt
  <2> QED BY <1>1, <2>1, <2>3 DEF Within
<1>8. CASE r.op = "remove"
  <2>1. /\ server' = Without(server, Within(r.path, DOMAIN server))
        /\ unseen' = unseen \cup Within(r.path, DOMAIN server)
    BY <1>8 DEF Effect, Lost
  <2>2. r.path \in Seq(Name) /\ r.path # <<>>
    BY <1>1, <1>8 DEF Fits, Home
  <2>3. IsTree(server')
    BY <1>1, <2>1, <2>2, WithoutTree DEF IsTree
  <2> QED BY <1>1, <2>1, <2>3 DEF Within
<1> QED BY <1>4, <1>5, <1>6, <1>7, <1>8

LEMMA ServeMutationStep ==
  ASSUME IInv, ServeMutation
  PROVE  IInv'
<1>1. /\ Unanswered # {} /\ Effect /\ Reply(Ok)
      /\ Request.op \in {"save", "write", "mkdir", "copy", "rename", "remove"}
  BY DEF ServeMutation, Waiting
<1>2. IsTree(server') /\ unseen' \in SUBSET Seq(Name)
  BY <1>1, EffectFits
<1>3. Ok \in Answers \ {Pending}
  BY DEF Ok, Pending, Answers
<1> QED BY <1>1, <1>2, <1>3, ReplyStep

\* Of a request that fails half way, a tree is left.
LEMMA HalfDone ==
  ASSUME IInv, Unanswered # {}, HalfRemoved \/ HalfWritten
  PROVE  IsTree(server') /\ unseen' \in SUBSET Seq(Name)
<1>1. /\ Request \in Requests /\ IsTree(server) /\ DOMAIN server \subseteq Path
      /\ Path \subseteq Seq(Name) /\ unseen \in SUBSET Seq(Name)
      /\ \A p \in DOMAIN server : server[p] \in Node /\ DirAt(server, Parent(p))
  BY Replies
<1>2. \A p \in Path : Parent(p) \in Seq(Name)
  BY <1>1, Fronts DEF Parent
<1>3. CASE HalfRemoved
  <2>1. PICK S : /\ S \subseteq DOMAIN server /\ WellFormed(Without(server, S))
                 /\ server' = Without(server, S) /\ unseen' = unseen \cup (S \cup {Parent(p) : p \in S})
    BY <1>3 DEF HalfRemoved, Lost, Within
  <2>2. Without(server, S) = [q \in DOMAIN server \ S |-> server[q]]
    BY DEF Without, Restrict
  <2>3. Without(server, S) \in [DOMAIN Without(server, S) -> Node] /\ DOMAIN Without(server, S) \subseteq Path
    BY <1>1, <2>2
  <2> QED BY <1>1, <1>2, <2>1, <2>3 DEF IsTree, TreeOf
<1>4. CASE HalfWritten
  <2> DEFINE p == IF Request.op = "copy" THEN Request.to ELSE Request.path
  <2>1. /\ p \in Path
        /\ FileAt(server, p) \/ (p \notin DOMAIN server /\ DirAt(server, Parent(p)))
        /\ server' = Put(server, p, File(Torn)) /\ unseen' = unseen \cup {Parent(p)}
    BY <1>4 DEF HalfWritten, Lost
  <2> HIDE DEF p
  <2>2. DirAt(server, Parent(p)) /\ (FileAt(server, p) \/ p \notin DOMAIN server)
    BY <1>1, <2>1 DEF FileAt
  <2>3. File(Torn) \in Node
    BY DEF Node, Content
  <2>4. IsTree(server')
    BY <1>1, <2>1, <2>2, <2>3, PutTree DEF IsTree, FileAt, DirAt
  <2> QED BY <1>1, <1>2, <2>1, <2>4
<1> QED BY <1>3, <1>4

LEMMA ServeFailsStep ==
  ASSUME IInv, ServeFails
  PROVE  IInv'
<1>1. Unanswered # {} /\ Reply(Error)
  BY DEF ServeFails, Waiting
<1>2. /\ Request \in Requests /\ IsTree(server) /\ unseen \in SUBSET Seq(Name)
  BY <1>1, Replies
<1>3. Resolve(Request.path) \in Seq(Name)
  BY <1>2, Paths DEF Requests, Place, Resolve, Home
<1>4. IsTree(server') /\ unseen' \in SUBSET Seq(Name)
  <2>1. CASE HalfRemoved \/ HalfWritten
    BY <1>1, <2>1, HalfDone
  <2>2. CASE ~(HalfRemoved \/ HalfWritten)
    BY <1>2, <1>3, <2>2 DEF ServeFails, Lost
  <2> QED BY <2>1, <2>2
<1>5. Error \in Answers \ {Pending}
  BY DEF Error, Pending, Answers
<1> QED BY <1>1, <1>4, <1>5, ReplyStep

(***************************************************************************)
(* The user: browsing                                                      *)
(***************************************************************************)
LEMMA ListFits ==
  ASSUME NEW p \in Place
  PROVE  /\ List(p) \in Good /\ List(p).op = "list" /\ List(p).path = p
         /\ List(p).answer = Pending /\ List(p).known = TRUE
<1>1. /\ List(p) \in Requests /\ List(p).op = "list" /\ List(p).path = p
      /\ List(p).answer = Pending /\ List(p).known = TRUE
  BY NewItem DEF List, Commands
<1> QED BY <1>1 DEF Good, Fits, Mutations

\* One more request.
LEMMA Submitted ==
  ASSUME IInv, NEW item \in Good, item.answer = Pending, item.known = TRUE, Submit(<<item>>)
  PROVE  /\ InOrder(queue') /\ \A op, p : OwedIn(queue, op, p) => OwedIn(queue', op, p)
         /\ OwedIn(queue', item.op, item.path)
         /\ connected /\ connected' /\ ServerFits' /\ CountersFit'
         /\ ServerFits /\ PaneFits /\ WaitersFit
<1>1. InOrder(queue) /\ CountersFit /\ ServerFits /\ PaneFits /\ WaitersFit
  BY DEF IInv, WaitersFit
<1>2. queue' = queue \o <<item>> /\ connected /\ connected'
  BY DEF Submit
<1>3. /\ InOrder(queue') /\ \A op, p : OwedIn(queue, op, p) => OwedIn(queue', op, p)
      /\ OwedIn(queue', item.op, item.path)
  BY <1>1, <1>2, AskingOne
<1>4. CountersFit'
  BY <1>1, Moves DEF Submit, CountersFit
<1>5. ServerFits'
  BY <1>1 DEF Submit, ServerFits, remote
<1> QED BY <1>1, <1>2, <1>3, <1>4, <1>5

LEMMA ExpandStep ==
  ASSUME IInv, NEW n \in DOMAIN nodes, Expand(n)
  PROVE  IInv'
<1>1. NodesSafe(nodes, queue) /\ Safe(docs, ignored, queue) /\ ignored \in SUBSET Seq(Name)
  BY DEF IInv, WaitersFit
<1>2. n \in Place
  BY <1>1, Paths DEF NodesSafe, NodesTyped, Place
<1>3. /\ InOrder(queue') /\ \A op, p : OwedIn(queue, op, p) => OwedIn(queue', op, p)
      /\ OwedIn(queue', "list", n) /\ connected' /\ ServerFits' /\ CountersFit' /\ PaneFits
  BY <1>2, ListFits, Submitted DEF Expand
<1>4. NodesSafe(nodes', queue')
  BY <1>1, <1>3, ExpandedSafe DEF Expand
<1>5. Safe(docs, ignored, queue')
  BY <1>1, <1>3, StillSafe
<1>6. UNCHANGED <<docs, ignored, available, clipboard, connected>>
  BY DEF Expand, editor, Submit
<1> QED BY <1>1, <1>3, <1>4, <1>5, <1>6 DEF IInv, WaitersFit, PaneFits, AloneFits

LEMMA ReloadFilesStep ==
  ASSUME IInv, ReloadFiles
  PROVE  IInv'
<1>1. Safe(docs, ignored, queue) /\ ignored \in SUBSET Seq(Name)
  BY DEF IInv, WaitersFit
<1>2. Root \in Place
  BY DEF Place
<1>3. /\ InOrder(queue') /\ \A op, p : OwedIn(queue, op, p) => OwedIn(queue', op, p)
      /\ OwedIn(queue', "list", Root) /\ connected' /\ ServerFits' /\ CountersFit' /\ PaneFits
  BY <1>2, ListFits, Submitted DEF ReloadFiles
<1>4. NodesSafe(nodes', queue')
  BY <1>3, ClearedSafe DEF ReloadFiles
<1>5. Safe(docs, ignored, queue')
  BY <1>1, <1>3, StillSafe
<1>6. UNCHANGED <<docs, ignored, clipboard, connected>> /\ available' = FALSE
  BY DEF ReloadFiles, editor, Submit
<1> QED BY <1>1, <1>3, <1>4, <1>5, <1>6 DEF IInv, WaitersFit, PaneFits, AloneFits

(***************************************************************************)
(* The user: changing files                                                *)
(***************************************************************************)
LEMMA MutateStep ==
  ASSUME IInv, NEW item \in Good, item.answer = Pending, item.known = TRUE, Mutate(item)
  PROVE  IInv'
<1>1. Submit(<<item>>) /\ UNCHANGED <<available, nodes, docs, ignored, clipboard>>
  BY DEF Mutate, editor
<1>2. /\ InOrder(queue') /\ \A op, p : OwedIn(queue, op, p) => OwedIn(queue', op, p)
      /\ connected /\ connected' /\ ServerFits' /\ CountersFit' /\ connected \in BOOLEAN
  BY <1>1, Submitted DEF PaneFits
<1>3. UNCHANGED <<nodes, docs, ignored, connected, available, clipboard>>
  BY <1>1 DEF Submit
<1> QED BY <1>2, <1>3, OnlyTheQueue

\* A request that is well formed is asked for.
AsksTo == \E item \in Good : item.answer = Pending /\ item.known = TRUE /\ Mutate(item)

\* What one directory is listed again for.
LEMMA OneRelisted ==
  ASSUME NEW r, NEW d, r.refresh = <<d>>
  PROVE  Relists(r, Resolve(d))
<1>1. 1 \in DOMAIN <<d>> /\ <<d>>[1] = d
  OBVIOUS
<1> QED BY <1>1 DEF Relists

\* The places the pane offers.
LEMMA Offered ==
  ASSUME IInv
  PROVE  /\ Shown \subseteq Path \ {Home} /\ Folders \subseteq Place /\ Path \subseteq Seq(Name)
         /\ \A p \in Shown : /\ Parent(p) \in Path /\ Parent(p) \in Place
                             /\ \A name \in Name : Append(Parent(p), name) \in Path \ {Home}
         /\ \A d \in Place : Resolve(d) \in Seq(Name)
         /\ \A s \in Seq(Name), name \in Name : Append(s, name) # Home
<1>1. Path \subseteq Seq(Name) /\ \A p \in Seq(Name) : p \in Path <=> Len(p) <= MaxDepth
  BY Paths
<1>2. DOMAIN nodes \subseteq (Path \ {Home}) \cup {Root}
  BY DEF IInv, WaitersFit, NodesSafe, NodesTyped
<1>3. \A d \in Place : Resolve(d) \in Seq(Name)
  BY DEF Place, Resolve, Home
<1>4. \A s \in Seq(Name), name \in Name : Append(s, name) # Home
  BY FrontAppend DEF Home
<1>5. ASSUME NEW p \in Path \ {Home}
      PROVE  /\ Parent(p) \in Path /\ \A name \in Name : Append(Parent(p), name) \in Path \ {Home}
  <2>1. /\ Parent(p) \in Path /\ Len(Parent(p)) = Len(p) - 1 /\ Len(p) \in Nat /\ Len(p) <= MaxDepth
        /\ Parent(p) \in Seq(Name)
    BY <1>1, Fronts DEF Home
  <2>2. ASSUME NEW name \in Name PROVE Append(Parent(p), name) \in Path \ {Home}
    <3>1. /\ Append(Parent(p), name) \in Seq(Name) /\ Append(Parent(p), name) # Home
          /\ Len(Append(Parent(p), name)) = Len(Parent(p)) + 1
      BY <1>4, <2>1
    <3>2. Len(Append(Parent(p), name)) <= MaxDepth
      BY <2>1, <3>1
    <3> QED BY <1>1, <3>1, <3>2
  <2> QED BY <2>1, <2>2
<1>6. Shown \subseteq Path \ {Home} /\ Folders \subseteq Place
  BY <1>1, <1>2 DEF Shown, Folders, Directories, Place
<1> QED BY <1>1, <1>3, <1>4, <1>5, <1>6 DEF Place

LEMMA MakeAsks ==
  ASSUME IInv, NEW name \in Name, NEW d \in Folders \cup {Parent(p) : p \in Shown},
         MakeDir(d, name) \/ MakeFile(d, name)
  PROVE  AsksTo
<1> DEFINE p == Append(Resolve(d), name)
<1>1. d \in Place
  BY Offered
<1>2. p \in Path \ {Home} /\ p \in Place
  <2>1. p \in Path
    BY DEF MakeDir, MakeFile
  <2> QED BY <1>1, <2>1, Offered DEF Place
<1>3. PICK op \in {"mkdir", "write"} : Mutate([Item(op, p) EXCEPT !.refresh = <<d>>])
  BY DEF MakeDir, MakeFile
<1> HIDE DEF p
<1>4. PICK r \in Requests : r = Item(op, p) /\ r.op = op /\ r.path = p /\ r.answer = Pending /\ r.known = TRUE
  BY <1>2, NewItem DEF Commands
<1> DEFINE new == [r EXCEPT !.refresh = <<d>>]
<1>5. <<d>> \in Seq(Place)
  BY <1>1
<1>6. /\ new \in Requests /\ new.op = op /\ new.path = p /\ new.answer = Pending /\ new.known = TRUE
      /\ new.refresh = <<d>>
  BY <1>4, <1>5 DEF Requests
<1>7. Mutate(new)
  BY <1>3, <1>4
<1> HIDE DEF new
<1>8. new \in Good
  <2>1. Parent(p) = Resolve(d)
    BY <1>1, Offered, FrontAppend DEF Parent, Home, p
  <2>2. Relists(new, Parent(p))
    BY <1>6, <2>1, OneRelisted
  <2> QED BY <1>2, <1>3, <1>6, <2>2 DEF Good, Fits
<1> QED BY <1>6, <1>7, <1>8 DEF AsksTo

LEMMA UploadAsks ==
  ASSUME IInv, NEW name \in Name, NEW d \in Folders, UploadFile(d, name)
  PROVE  AsksTo
<1> DEFINE p == Append(Resolve(d), name)
<1>1. d \in Place
  BY Offered
<1>2. p \in Path \ {Home} /\ p \in Place
  <2>1. p \in Path
    BY DEF UploadFile
  <2> QED BY <1>1, <2>1, Offered DEF Place
<1>3. Mutate([Item("write", p) EXCEPT !.text = Torn, !.refresh = <<d>>])
  BY DEF UploadFile
<1> HIDE DEF p
<1>4. PICK r \in Requests :
        r = Item("write", p) /\ r.op = "write" /\ r.path = p /\ r.answer = Pending /\ r.known = TRUE
  BY <1>2, NewItem DEF Commands
<1> DEFINE new == [r EXCEPT !.text = Torn, !.refresh = <<d>>]
<1>5. <<d>> \in Seq(Place) /\ Torn \in Content
  BY <1>1 DEF Content
<1>6. /\ new \in Requests /\ new.op = "write" /\ new.path = p /\ new.answer = Pending
      /\ new.known = TRUE /\ new.refresh = <<d>>
  BY <1>4, <1>5 DEF Requests
<1>7. Mutate(new)
  BY <1>3, <1>4
<1> HIDE DEF new
<1>8. new \in Good
  <2>1. Parent(p) = Resolve(d)
    BY <1>1, Offered, FrontAppend DEF Parent, Home, p
  <2>2. Relists(new, Parent(p))
    BY <1>6, <2>1, OneRelisted
  <2> QED BY <1>2, <1>3, <1>6, <2>2 DEF Good, Fits
<1> QED BY <1>6, <1>7, <1>8 DEF AsksTo

LEMMA RenamePathAsks ==
  ASSUME IInv, NEW p \in Shown, NEW name \in Name, RenamePath(p, name)
  PROVE  AsksTo
<1> DEFINE to == Append(Parent(p), name)
<1>1. p \in Path \ {Home} /\ p \in Place /\ to \in Path \ {Home} /\ to \in Place /\ Parent(p) \in Place
  BY Offered DEF Place
<1>2. Mutate([Item("rename", p) EXCEPT !.to = to, !.refresh = <<Parent(p)>>])
  BY DEF RenamePath
<1> HIDE DEF to
<1>3. PICK r \in Requests :
        r = Item("rename", p) /\ r.op = "rename" /\ r.path = p /\ r.answer = Pending /\ r.known = TRUE
  BY <1>1, NewItem DEF Commands
<1> DEFINE new == [r EXCEPT !.to = to, !.refresh = <<Parent(p)>>]
<1>4. <<Parent(p)>> \in Seq(Place)
  BY <1>1
<1>5. /\ new \in Requests /\ new.op = "rename" /\ new.path = p /\ new.to = to
      /\ new.answer = Pending /\ new.known = TRUE /\ new.refresh = <<Parent(p)>>
  BY <1>1, <1>3, <1>4 DEF Requests
<1>6. Mutate(new)
  BY <1>2, <1>3
<1> HIDE DEF new
<1>7. new \in Good
  <2>1. Parent(to) = Parent(p) /\ Resolve(Parent(p)) = Parent(p)
    BY Offered, Paths, FrontAppend, RootApart DEF Parent, Home, Resolve, to
  <2>2. Relists(new, Parent(p))
    BY <1>5, <2>1, OneRelisted
  <2> QED BY <1>1, <1>5, <2>1, <2>2 DEF Good, Fits
<1> QED BY <1>5, <1>6, <1>7 DEF AsksTo

LEMMA DeletePathAsks ==
  ASSUME IInv, NEW p \in Shown, DeletePath(p)
  PROVE  AsksTo
<1>1. p \in Path \ {Home} /\ p \in Place /\ Parent(p) \in Place
  BY Offered DEF Place
<1>2. nodes[p] \in TreeNode
  BY DEF IInv, WaitersFit, NodesSafe, NodesTyped, Shown
<1>3. PICK b \in BOOLEAN : b = nodes[p].dir
  BY <1>2 DEF TreeNode
<1>4. Mutate([Item("remove", p) EXCEPT !.recursive = b, !.refresh = <<Parent(p)>>])
  BY <1>3 DEF DeletePath
<1>5. PICK r \in Requests :
        r = Item("remove", p) /\ r.op = "remove" /\ r.path = p /\ r.answer = Pending /\ r.known = TRUE
  BY <1>1, NewItem DEF Commands
<1> DEFINE new == [r EXCEPT !.recursive = b, !.refresh = <<Parent(p)>>]
<1>6. <<Parent(p)>> \in Seq(Place)
  BY <1>1
<1>7. /\ new \in Requests /\ new.op = "remove" /\ new.path = p /\ new.answer = Pending
      /\ new.known = TRUE /\ new.refresh = <<Parent(p)>>
  BY <1>5, <1>6 DEF Requests
<1>8. Mutate(new)
  BY <1>4, <1>5
<1> HIDE DEF new
<1>9. new \in Good
  <2>1. Resolve(Parent(p)) = Parent(p)
    BY Offered, RootApart DEF Resolve
  <2>2. Relists(new, Parent(p))
    BY <1>7, <2>1, OneRelisted
  <2> QED BY <1>1, <1>7, <2>2 DEF Good, Fits
<1> QED BY <1>7, <1>8, <1>9 DEF AsksTo

LEMMA ClipStep ==
  ASSUME IInv, NEW p \in Shown, NEW cut \in BOOLEAN, Clip(p, cut)
  PROVE  IInv'
<1>1. p \in Path \ {Home}
  BY Offered
<1>2. clipboard' \in Clips
  BY <1>1 DEF Clip, Clips
<1>3. CountersFit'
  BY Moves DEF Clip, IInv, CountersFit
<1> QED BY <1>2, <1>3 DEF Clip, IInv, ServerFits, PaneFits, WaitersFit, AloneFits, remote, pane, editor

LEMMA PasteAsks ==
  ASSUME IInv, NEW d \in Folders \ {Root}, Paste(d)
  PROVE  AsksTo
<1>1. clipboard \in [path : Path \ {Home}, cut : BOOLEAN]
  BY DEF Paste, IInv, PaneFits, Clips
<1>2. PICK from \in Path \ {Home} : from = clipboard.path
  BY <1>1
<1> DEFINE to == Append(Resolve(d), Last(from))
           again == IF d = Parent(from) THEN <<d>> ELSE <<d, Parent(from)>>
<1>3. /\ d \in Place /\ from \in Place /\ Parent(from) \in Place /\ Resolve(d) \in Seq(Name)
      /\ Last(from) \in Name
  BY Offered, Paths, Fronts, FrontLast DEF Place, Home
<1>4. to \in Path \ {Home} /\ to \in Place
  <2>1. to \in Path
    BY <1>2 DEF Paste
  <2> QED BY <1>3, <2>1, Offered DEF Place
<1>5. <<d>> \in Seq(Place) /\ again \in Seq(Place)
  BY <1>3
<1>6. \/ Mutate([Item("rename", from) EXCEPT !.to = to, !.cut = TRUE, !.refresh = again])
      \/ Mutate([Item("copy", from) EXCEPT !.to = to, !.refresh = <<d>>])
  BY <1>2 DEF Paste
<1>9. Parent(to) = Resolve(d) /\ Parent(from) = Resolve(Parent(from))
  <2>1. Parent(to) = Resolve(d)
    BY <1>3, Offered, FrontAppend DEF Parent, Home
  <2>2. Parent(from) \in Seq(Name)
    BY Paths, Fronts DEF Home
  <2> QED BY <2>1, <2>2, RootApart DEF Resolve
<1> HIDE DEF to, again
<1>7. CASE Mutate([Item("rename", from) EXCEPT !.to = to, !.cut = TRUE, !.refresh = again])
  <2>1. PICK r \in Requests : /\ r = Item("rename", from) /\ r.op = "rename" /\ r.path = from
                              /\ r.answer = Pending /\ r.known = TRUE
    BY <1>3, NewItem DEF Commands
  <2> DEFINE new == [r EXCEPT !.to = to, !.cut = TRUE, !.refresh = again]
  <2>2. /\ new \in Requests /\ new.op = "rename" /\ new.path = from /\ new.to = to
        /\ new.answer = Pending /\ new.known = TRUE /\ new.refresh = again
    BY <1>4, <1>5, <2>1 DEF Requests
  <2>3. Mutate(new)
    BY <1>7, <2>1
  <2> HIDE DEF new
  <2>4. Relists(new, Resolve(d)) /\ Relists(new, Resolve(Parent(from)))
    <3>1. CASE d = Parent(from)
      BY <2>2, <3>1, OneRelisted DEF again
    <3>2. CASE d # Parent(from)
      <4>1. new.refresh = <<d, Parent(from)>>
        BY <2>2, <3>2 DEF again
      <4>2. 1 \in DOMAIN new.refresh /\ new.refresh[1] = d
        BY <4>1
      <4>3. 2 \in DOMAIN new.refresh /\ new.refresh[2] = Parent(from)
        BY <4>1
      <4> QED BY <4>2, <4>3 DEF Relists
    <3> QED BY <3>1, <3>2
  <2>5. new \in Good
    BY <1>4, <1>9, <2>2, <2>4 DEF Good, Fits
  <2> QED BY <2>2, <2>3, <2>5 DEF AsksTo
<1>8. CASE Mutate([Item("copy", from) EXCEPT !.to = to, !.refresh = <<d>>])
  <2>1. PICK r \in Requests : /\ r = Item("copy", from) /\ r.op = "copy" /\ r.path = from
                              /\ r.answer = Pending /\ r.known = TRUE
    BY <1>3, NewItem DEF Commands
  <2> DEFINE new == [r EXCEPT !.to = to, !.refresh = <<d>>]
  <2>2. /\ new \in Requests /\ new.op = "copy" /\ new.path = from /\ new.to = to
        /\ new.answer = Pending /\ new.known = TRUE /\ new.refresh = <<d>>
    BY <1>4, <1>5, <2>1 DEF Requests
  <2>3. Mutate(new)
    BY <1>8, <2>1
  <2> HIDE DEF new
  <2>4. new \in Good
    <3>1. Relists(new, Parent(to))
      BY <1>9, <2>2, OneRelisted
    <3> QED BY <1>4, <2>2, <3>1 DEF Good, Fits
  <2> QED BY <2>2, <2>3, <2>4 DEF AsksTo
<1> QED BY <1>6, <1>7, <1>8

(***************************************************************************)
(* The user: editing                                                       *)
(***************************************************************************)
LEMMA RequestOpenStep ==
  ASSUME IInv, NEW p \in Shown, RequestOpen(p)
  PROVE  IInv'
<1>1. p \in Seq(Name) /\ p \in Place
  BY Offered DEF Place
<1> DEFINE item == Item("open", p)
<1>2. item \in Requests /\ item.op = "open" /\ item.path = p /\ item.answer = Pending /\ item.known = TRUE
  BY <1>1, NewItem DEF Commands
<1>3. Submit(<<item>>)
  BY DEF RequestOpen
<1> HIDE DEF item
<1>4. item \in Good
  BY <1>1, <1>2 DEF Good, Fits, Pending, Mutations
<1>5. /\ InOrder(queue') /\ \A op, x : OwedIn(queue, op, x) => OwedIn(queue', op, x)
      /\ OwedIn(queue', "open", p) /\ connected' /\ ServerFits' /\ CountersFit' /\ PaneFits /\ WaitersFit
  BY <1>2, <1>3, <1>4, Submitted
<1>6. Safe(docs', ignored', queue')
  BY <1>1, <1>5, OpenedSafe DEF RequestOpen, WaitersFit
<1>7. NodesSafe(nodes', queue') /\ ignored' \in SUBSET Seq(Name)
  BY <1>5, NodesStillSafe DEF RequestOpen, WaitersFit
<1>8. PaneFits'
  BY <1>3, <1>5 DEF PaneFits, RequestOpen, Submit
<1> QED BY <1>5, <1>6, <1>7, <1>8 DEF IInv, WaitersFit, AloneFits

LEMMA TypeStep ==
  ASSUME IInv, NEW i \in DOMAIN docs, Type(i)
  PROVE  IInv'
<1>1. /\ Safe(docs, ignored, queue) /\ docs \in Seq(Document) /\ typed \in 0..Len(Typed)
      /\ CountersFit /\ AloneFits
  BY DEF IInv, WaitersFit, Safe, CountersFit
<1>2. i \in 1..Len(docs) /\ DOMAIN docs = 1..Len(docs)
  BY <1>1
<1>3. Len(Typed) \in Nat /\ \A j \in 1..Len(Typed) : Typed[j] \in Content
  BY TypedAssumption DEF TypedAssumption
<1>4. typed' \in 1..Len(Typed) /\ typed' \in 0..Len(Typed)
  BY <1>1, <1>3 DEF Type
<1>5. Typed[typed'] \in Content
  BY <1>3, <1>4
<1>6. PICK text \in Content : text = Typed[typed']
  BY <1>5
<1>7. docs' = [docs EXCEPT ![i].text = text, ![i].modified = TRUE]
  BY <1>6 DEF Type
<1>8. Safe(docs', ignored, queue)
  BY <1>1, <1>2, <1>7, TypedSafe
<1>9. CountersFit'
  BY <1>1, <1>4, Moves DEF Type
<1>10. ~connected => Orphans(docs')
  <2> SUFFICES ASSUME ~connected PROVE Orphans(docs')
    OBVIOUS
  <2>1. Orphans(docs)
    BY <1>1 DEF AloneFits
  <2>2. PICK d \in Document : d = docs[i]
    BY <1>1, <1>2
  <2> DEFINE new == [d EXCEPT !.text = text, !.modified = TRUE]
  <2>3. /\ new.modified = TRUE /\ new.missing = d.missing
        /\ new.saving = d.saving /\ new.loading = d.loading
    BY DEF Document
  <2>4. docs' = [docs EXCEPT ![i] = new]
    BY <1>1, <1>2, <1>7, <2>2
  <2> HIDE DEF new
  <2>5. /\ DOMAIN docs' = DOMAIN docs /\ docs'[i] = new
        /\ \A j \in DOMAIN docs : j # i => docs'[j] = docs[j]
    BY <1>1, <1>2, <2>4
  <2>6. new.modified /\ new.missing /\ ~new.saving /\ ~new.loading
    BY <2>1, <2>2, <2>3 DEF Orphans
  <2> QED BY <2>1, <2>5, <2>6 DEF Orphans
<1> QED BY <1>8, <1>9, <1>10
        DEF Type, IInv, ServerFits, PaneFits, WaitersFit, AloneFits, remote, pane

LEMMA SaveAsks ==
  ASSUME IInv, NEW i \in DOMAIN docs, SaveCurrent(i)
  PROVE  \E item \in Good : /\ item.answer = Pending /\ item.known = TRUE
                            /\ item.op = "save" /\ item.path = docs[i].path /\ Submit(<<item>>)
<1>1. Safe(docs, ignored, queue) /\ docs \in Seq(Document)
  BY DEF IInv, WaitersFit, Safe
<1>2. i \in 1..Len(docs)
  BY <1>1
<1>3. PICK d \in Document : d = docs[i]
  BY <1>1, <1>2
<1>4. d.path \in Seq(Name) /\ d.path \in Place /\ d.text \in Content /\ Parent(d.path) \in Place
  <2>1. d.path \in Seq(Name) /\ d.text \in Content
    BY DEF Document
  <2>2. Parent(d.path) \in Seq(Name)
    BY <2>1, FrontLast DEF Parent
  <2> QED BY <2>1, <2>2 DEF Place
<1>5. PICK r \in Requests : /\ r = Item("save", d.path) /\ r.op = "save" /\ r.path = d.path
                            /\ r.answer = Pending /\ r.known = TRUE
  BY <1>4, NewItem DEF Commands
<1> DEFINE new == [r EXCEPT !.text = d.text, !.refresh = <<Parent(d.path)>>]
<1>6. <<Parent(d.path)>> \in Seq(Place)
  BY <1>4
<1>7. /\ new \in Requests /\ new.op = "save" /\ new.path = d.path /\ new.answer = Pending
      /\ new.known = TRUE /\ new.refresh = <<Parent(d.path)>>
  BY <1>4, <1>5, <1>6 DEF Requests
<1>8. Submit(<<new>>)
  BY <1>3, <1>5 DEF SaveCurrent
<1> HIDE DEF new
<1>9. new \in Good
  <2>1. Resolve(Parent(d.path)) = Parent(d.path)
    BY <1>4, RootApart, FrontLast DEF Resolve, Parent
  <2>2. Relists(new, Parent(d.path))
    BY <1>7, <2>1, OneRelisted
  <2> QED BY <1>4, <1>7, <2>2 DEF Good, Fits
<1> QED BY <1>3, <1>7, <1>8, <1>9

LEMMA SaveCurrentStep ==
  ASSUME IInv, NEW i \in DOMAIN docs, SaveCurrent(i)
  PROVE  IInv'
<1>1. Safe(docs, ignored, queue) /\ docs \in Seq(Document)
  BY DEF IInv, WaitersFit, Safe
<1>2. i \in 1..Len(docs)
  BY <1>1
<1>3. PICK d \in Document : d = docs[i]
  BY <1>1, <1>2
<1>4. PICK item \in Good : /\ item.answer = Pending /\ item.known = TRUE
                           /\ item.op = "save" /\ item.path = d.path /\ Submit(<<item>>)
  BY <1>3, SaveAsks
<1>5. /\ InOrder(queue') /\ \A op, x : OwedIn(queue, op, x) => OwedIn(queue', op, x)
      /\ OwedIn(queue', "save", d.path) /\ connected' /\ ServerFits' /\ CountersFit'
      /\ PaneFits /\ WaitersFit
  BY <1>4, Submitted
<1>6. Safe(docs', ignored, queue')
  BY <1>1, <1>2, <1>3, <1>5, SavedSafe DEF SaveCurrent
<1>7. NodesSafe(nodes', queue') /\ UNCHANGED <<available, nodes, ignored, clipboard>>
  BY <1>5, NodesStillSafe DEF SaveCurrent, WaitersFit
<1>8. PaneFits'
  BY <1>4, <1>5, <1>7 DEF PaneFits, Submit
<1> QED BY <1>5, <1>6, <1>7, <1>8 DEF IInv, WaitersFit, AloneFits

LEMMA CloseDocumentStep ==
  ASSUME IInv, NEW i \in DOMAIN docs, CloseDocument(i)
  PROVE  IInv'
<1>1. /\ Safe(docs, ignored, queue) /\ docs \in Seq(Document) /\ ignored \in SUBSET Seq(Name)
      /\ AloneFits
  BY DEF IInv, WaitersFit, Safe
<1>2. i \in 1..Len(docs)
  BY <1>1
<1>3. Safe(docs', ignored', queue)
  BY <1>1, <1>2, ClosedSafe DEF CloseDocument
<1>4. ignored' \in SUBSET Seq(Name)
  <2>1. docs[i] \in Document
    BY <1>1, <1>2
  <2>2. docs[i].path \in Seq(Name)
    BY <2>1 DEF Document
  <2> QED BY <1>1, <2>2 DEF CloseDocument, Ignoring
<1>5. CountersFit'
  BY Moves DEF CloseDocument, IInv, CountersFit
<1>6. Orphans(docs) => Orphans(docs')
  <2> SUFFICES ASSUME Orphans(docs) PROVE Orphans(docs')
    OBVIOUS
  <2>1. /\ docs' \in Seq(Document) /\ Len(docs') = Len(docs) - 1
        /\ \A j \in 1..i - 1 : docs'[j] = docs[j]
        /\ \A j \in i..Len(docs) - 1 : docs'[j] = docs[j + 1]
    BY <1>1, <1>2, RemoveAtProperties DEF CloseDocument
  <2>2. PICK m \in Nat : m = Len(docs)
    BY <1>1
  <2>3. \A j \in DOMAIN docs' : \E k \in DOMAIN docs : docs'[j] = docs[k]
    <3>0. DOMAIN docs = 1..m /\ DOMAIN docs' = 1..m - 1
      BY <1>1, <2>1, <2>2
    <3> SUFFICES ASSUME NEW j \in 1..m - 1 PROVE \E k \in 1..m : docs'[j] = docs[k]
      BY <3>0
    <3>1. CASE j \in 1..i - 1
      BY <2>1, <3>1
    <3>2. CASE j \in i..m - 1
      <4>1. j + 1 \in 1..m
        BY <3>2
      <4> QED BY <2>1, <2>2, <3>2, <4>1
    <3> QED BY <1>2, <2>2, <3>1, <3>2
  <2> QED BY <2>3 DEF Orphans
<1> QED BY <1>1, <1>3, <1>4, <1>5, <1>6
        DEF CloseDocument, IInv, ServerFits, PaneFits, WaitersFit, AloneFits, remote, pane

(***************************************************************************)
(* The UI thread takes in the first answer                                 *)
(***************************************************************************)
LEMMA Taking ==
  ASSUME IInv, queue # <<>>, Result.answer # Pending
  PROVE  /\ Result \in Requests /\ Fits(Result) /\ InOrder(Tail(queue))
         /\ \A op, p : OwedIn(queue, op, p) =>
              OwedIn(Tail(queue), op, p) \/ (Result.known /\ op = Result.op /\ p = Result.path)
         /\ \A op, p : OwedIn(Tail(queue), op, p) => OwedIn(queue, op, p)
         /\ Result.known /\ Result.op \notin LinkOps => connected
<1>1. InOrder(queue) /\ queue \in Seq(Good) /\ connected \in BOOLEAN
  BY DEF IInv, WaitersFit, InOrder, PaneFits
<1>2. 1 \in DOMAIN queue /\ queue[1] \in Good
  <2>1. Len(queue) \in Nat \ {0}
    BY <1>1, EmptySeq
  <2> QED BY <1>1, <2>1
<1>3. /\ InOrder(Tail(queue))
      /\ \A op, p : OwedIn(queue, op, p) =>
           OwedIn(Tail(queue), op, p) \/ (queue[1].known /\ queue[1].op = op /\ queue[1].path = p)
      /\ \A op, p : OwedIn(Tail(queue), op, p) => OwedIn(queue, op, p)
  BY <1>1, TakenIn
<1>4. ASSUME Result.known, Result.op \notin LinkOps PROVE connected
  <2>1. OwedIn(queue, Result.op, Result.path)
    BY <1>2, <1>4 DEF OwedIn, Result
  <2> QED BY <1>1, <1>4, <2>1 DEF IInv, AloneFits, Bare
<1> QED BY <1>2, <1>3, <1>4 DEF Result, Good

\* More may be asked for at once.
LEMMA TookMore ==
  ASSUME IInv, queue # <<>>, Result.answer # Pending, NEW more \in Seq(Good),
         \A i \in 1..Len(more) : more[i].answer = Pending, Took(more)
  PROVE  /\ InOrder(queue')
         /\ \A op, p : OwedIn(queue, op, p) =>
              OwedIn(queue', op, p) \/ (Result.known /\ op = Result.op /\ p = Result.path)
         /\ \A i \in 1..Len(more) : more[i].known => OwedIn(queue', more[i].op, more[i].path)
         /\ ServerFits' /\ CountersFit'
<1>1. /\ InOrder(Tail(queue))
      /\ \A op, p : OwedIn(queue, op, p) =>
           OwedIn(Tail(queue), op, p) \/ (Result.known /\ op = Result.op /\ p = Result.path)
  BY Taking
<1>2. /\ InOrder(Tail(queue) \o more)
      /\ \A op, p : OwedIn(Tail(queue), op, p) => OwedIn(Tail(queue) \o more, op, p)
      /\ \A i \in 1..Len(more) : more[i].known => OwedIn(Tail(queue) \o more, more[i].op, more[i].path)
  BY <1>1, Asked
<1>3. queue' = Tail(queue) \o more /\ UNCHANGED <<remote, counters>>
  BY DEF Took
<1>4. ServerFits' /\ CountersFit'
  BY <1>3 DEF IInv, ServerFits, CountersFit, remote, counters
<1> QED BY <1>1, <1>2, <1>3, <1>4

LEMMA AllListings ==
  ASSUME NEW ps \in Seq(Place)
  PROVE  /\ Listings(ps) \in Seq(Good) /\ \A i \in 1..Len(Listings(ps)) : Listings(ps)[i].answer = Pending
<1>1. Listings(ps) = [i \in 1..Len(ps) |-> List(ps[i])]
  BY DEF Listings
<1>2. \A p \in Place : List(p) \in Good /\ List(p).answer = Pending
  BY ListFits
<1> QED BY <1>1, <1>2

LEMMA TakeUpStep ==
  ASSUME IInv, TakeUp
  PROVE  IInv'
<1>1. queue # <<>> /\ Result.answer # Pending /\ Result.op = "up"
  BY DEF TakeUp, Arrived
<1>0. PICK item \in Good : /\ item = List(Root) /\ item.answer = Pending /\ item.known = TRUE
                          /\ item.op = "list" /\ item.path = Root
  BY ListFits DEF Place
<1> DEFINE more == <<item>>
<1>2. /\ more \in Seq(Good) /\ 1 \in 1..Len(more) /\ more[1] = item
      /\ \A i \in 1..Len(more) : more[i] = item
  OBVIOUS
<1>3. Took(more)
  BY <1>0 DEF TakeUp
<1> HIDE DEF more
<1>4. /\ InOrder(queue')
      /\ \A op, p : OwedIn(queue, op, p) =>
           OwedIn(queue', op, p) \/ (Result.known /\ op = Result.op /\ p = Result.path)
      /\ \A i \in 1..Len(more) : more[i].known => OwedIn(queue', more[i].op, more[i].path)
      /\ ServerFits' /\ CountersFit'
  BY <1>0, <1>1, <1>2, <1>3, TookMore
<1>5. NodesSafe(nodes', queue')
  <2>1. OwedIn(queue', "list", Root)
    BY <1>0, <1>2, <1>4
  <2> QED BY <2>1, ClearedSafe DEF TakeUp
<1>6. Safe(docs, ignored, queue')
  BY <1>1, <1>4, StillSafe DEF IInv, WaitersFit
<1> QED BY <1>4, <1>5, <1>6 DEF TakeUp, IInv, PaneFits, WaitersFit, AloneFits, editor

LEMMA TakeDownStep ==
  ASSUME IInv, TakeDown
  PROVE  IInv'
<1>1. queue # <<>> /\ Result.answer # Pending
  BY DEF TakeDown, Arrived
<1>2. InOrder(queue') /\ \A op, p : ~OwedIn(queue', op, p)
  BY <1>1, Taking, ForgottenOnes DEF TakeDown
<1>3. NodesSafe(nodes', queue')
  BY ClearedSafe DEF TakeDown
<1>4. docs \in Seq(Document)
  BY DEF IInv, WaitersFit, Safe
<1>5. PICK src : KeptFrom(docs, Home, TRUE, Len(docs), docs', src)
  BY <1>4, RemovedDocs DEF TakeDown
<1>6. /\ docs' \in Seq(Document) /\ src \in [1..Len(docs') -> 1..Len(docs)]
      /\ \A j \in 1..Len(docs') : Kept(docs[src[j]], Home, TRUE, docs'[j])
  BY <1>5 DEF KeptFrom
<1>7. ASSUME NEW j \in 1..Len(docs')
      PROVE  docs'[j].modified /\ docs'[j].missing /\ ~docs'[j].saving /\ ~docs'[j].loading
  <2>1. PICK d \in Document : d = docs[src[j]]
    BY <1>4, <1>6
  <2>2. Matches(d.path, Home, TRUE)
    <3>1. d.path \in Seq(Name)
      BY DEF Document
    <3>2. Home \in Seq(Name) /\ IsPrefix(Home, d.path)
      BY <3>1, PrefixTransitive DEF Home
    <3> QED BY <3>2 DEF Matches
  <2>3. d.modified /\ docs'[j] = CutOff(d)
    BY <1>6, <2>1, <2>2 DEF Kept
  <2> QED BY <2>3, CutOffDocument
<1>8. Safe(docs', ignored, queue') /\ Orphans(docs')
  <2>1. DOMAIN docs' = 1..Len(docs')
    BY <1>6
  <2> QED BY <1>6, <1>7, <2>1 DEF Safe, SafeAt, Orphans
<1>9. Bare(queue')
  BY <1>2 DEF Bare
<1> QED BY <1>2, <1>3, <1>8, <1>9
        DEF TakeDown, IInv, ServerFits, PaneFits, CountersFit, WaitersFit, AloneFits, remote, counters

\* Nothing more is asked for.
LEMMA NoMore ==
  /\ <<>> \in Seq(Good) /\ \A i \in 1..Len(<<>>) : <<>>[i].answer = Pending
  /\ \A s \in Seq(Good) : s \o <<>> = s
OBVIOUS

LEMMA TakeUnknownStep ==
  ASSUME IInv, TakeUnknown
  PROVE  IInv'
<1>1. queue # <<>> /\ Result.answer # Pending /\ ~Result.known /\ Took(<<>>)
  BY DEF TakeUnknown, Arrived
<1>2. /\ InOrder(Tail(queue)) /\ \A op, p : OwedIn(queue, op, p) => OwedIn(Tail(queue), op, p)
      /\ \A op, p : OwedIn(Tail(queue), op, p) => OwedIn(queue, op, p)
  BY <1>1, Taking
<1>3. queue' = Tail(queue)
  BY <1>1, <1>2, NoMore DEF Took, InOrder
<1>4. ServerFits' /\ CountersFit' /\ UNCHANGED <<nodes, docs, ignored, connected, available, clipboard>>
  BY <1>1 DEF TakeUnknown, Took, IInv, ServerFits, CountersFit, remote, counters, pane, editor
<1>5. Bare(queue) => Bare(queue')
  BY <1>2, <1>3 DEF Bare
<1> QED BY <1>2, <1>3, <1>4, <1>5, OnlyTheQueue

LEMMA TakeListingStep ==
  ASSUME IInv, TakeListing
  PROVE  IInv'
<1>1. queue # <<>> /\ Result.answer # Pending /\ Result.known /\ Result.op = "list"
  BY DEF TakeListing, Known, Arrived
<1>2. /\ Result \in Requests /\ Fits(Result) /\ InOrder(queue') /\ connected
      /\ \A op, x : OwedIn(queue, op, x) =>
           OwedIn(queue', op, x) \/ (op = "list" /\ x = Result.path)
  BY <1>1, Taking DEF TakeListing, LinkOps, States
<1>3. PICK p \in Place : p = Result.path
  BY <1>2 DEF Requests
<1>4. NodesSafe(nodes, queue) /\ Safe(docs, ignored, queue) /\ ignored \in SUBSET Seq(Name)
  BY DEF IInv, WaitersFit
<1>5. NodesSafe(nodes', queue')
  <2>1. CASE Failed
    BY <1>2, <1>3, <1>4, <2>1, FailedToLoadSafe DEF TakeListing
  <2>2. CASE ~Failed
    <3> DEFINE entries == Result.answer.entries
    <3>1. /\ Result.answer \in Answers \ {Pending, Error} /\ Result.answer.kind = "listing"
          /\ \A e \in entries : e.path # Home /\ Front(e.path) = Resolve(p)
      BY <1>1, <1>2, <1>3, <2>2 DEF Fits, Failed, Requests
    <3>2. entries \subseteq [path : Path, kind : {"dir", "file", "link"}]
      BY <3>1 DEF Answers, Ok
    <3>3. nodes' = Listed(nodes, p, entries)
      BY <1>3, <2>2 DEF TakeListing
    <3> HIDE DEF entries
    <3> QED BY <1>2, <1>3, <1>4, <3>1, <3>2, <3>3, ListedSafe
  <2> QED BY <2>1, <2>2
<1>6. Safe(docs, ignored, queue')
  BY <1>2, <1>4, StillSafe
<1>7. unseen' \in SUBSET Seq(Name)
  <2>1. unseen \in SUBSET Seq(Name) /\ Root \in DOMAIN nodes
    BY <1>4 DEF IInv, ServerFits, NodesSafe, NodesTyped
  <2>2. NodesFor(nodes, p) = {} => p # Root
    BY <2>1 DEF NodesFor
  <2> QED BY <1>3, <2>1, <2>2 DEF TakeListing, Place
<1>8. available' \in BOOLEAN
  BY DEF TakeListing, IInv, PaneFits
<1> QED BY <1>2, <1>4, <1>5, <1>6, <1>7, <1>8
        DEF TakeListing, IInv, ServerFits, PaneFits, CountersFit, WaitersFit, AloneFits, editor, counters

LEMMA TakeOpenStep ==
  ASSUME IInv, TakeOpen
  PROVE  IInv'
<1>1. queue # <<>> /\ Result.answer # Pending /\ Result.known /\ Result.op = "open" /\ Took(<<>>)
  BY DEF TakeOpen, Known, Arrived
<1>2. Result \in Requests /\ Fits(Result) /\ connected
  BY <1>1, Taking DEF LinkOps, States
<1>3. /\ InOrder(queue') /\ ServerFits' /\ CountersFit'
      /\ \A op, x : OwedIn(queue, op, x) =>
           OwedIn(queue', op, x) \/ (op = "open" /\ x = Result.path)
  BY <1>1, NoMore, TookMore
<1>4. PICK p \in Seq(Name) : p = Result.path
  BY <1>1, <1>2 DEF Fits
<1>5. NodesSafe(nodes, queue) /\ Safe(docs, ignored, queue) /\ ignored \in SUBSET Seq(Name)
  BY DEF IInv, WaitersFit
<1>6. Safe(docs', ignored', queue')
  <2>1. ignored' = ignored \ {p}
    BY <1>4 DEF TakeOpen
  <2>2. CASE Failed
    <3>1. docs' = OpenFailed(docs, p, ignored) /\ Empty \in Content
      BY <1>4, <2>2 DEF TakeOpen, Content
    <3> QED BY <1>3, <1>4, <1>5, <2>1, <3>1, OpenTakenSafe
  <2>3. CASE ~Failed
    <3>1. Result.answer \in Answers \ {Pending, Error} /\ Result.answer.kind = "content"
      BY <1>1, <1>2, <2>3 DEF Fits, Failed, Requests
    <3>2. PICK text \in Content : text = Result.answer.text
      BY <3>1 DEF Answers, Ok
    <3>3. docs' = Loaded(docs, p, text, ignored)
      BY <1>4, <2>3, <3>2 DEF TakeOpen
    <3> QED BY <1>3, <1>4, <1>5, <2>1, <3>3, OpenTakenSafe
  <2> QED BY <2>2, <2>3
<1>7. NodesSafe(nodes', queue') /\ ignored' \in SUBSET Seq(Name)
  BY <1>3, <1>5, NodesStillSafe DEF TakeOpen, pane
<1> QED BY <1>2, <1>3, <1>6, <1>7 DEF TakeOpen, IInv, PaneFits, WaitersFit, AloneFits, pane

\* What is listed again.
LEMMA ListedAgain ==
  ASSUME IInv, queue # <<>>, Result.answer # Pending,
         Took(IF Failed THEN <<>> ELSE Listings(Result.refresh))
  PROVE  /\ InOrder(queue') /\ ServerFits' /\ CountersFit'
         /\ \A op, x : OwedIn(queue, op, x) =>
              OwedIn(queue', op, x) \/ (Result.known /\ op = Result.op /\ x = Result.path)
<1> DEFINE more == IF Failed THEN <<>> ELSE Listings(Result.refresh)
<1>1. Result.refresh \in Seq(Place)
  BY Taking DEF Requests
<1>2. more \in Seq(Good) /\ \A i \in 1..Len(more) : more[i].answer = Pending
  <2>1. CASE Failed
    BY <2>1, NoMore
  <2>2. CASE ~Failed
    BY <1>1, <2>2, AllListings
  <2> QED BY <2>1, <2>2
<1> HIDE DEF more
<1>3. Took(more)
  BY DEF more
<1> QED BY <1>2, <1>3, TookMore

LEMMA TakeSaveStep ==
  ASSUME IInv, TakeSave
  PROVE  IInv'
<1>1. queue # <<>> /\ Result.answer # Pending /\ Result.known /\ Result.op = "save"
  BY DEF TakeSave, Known, Arrived
<1>2. Result \in Requests /\ connected
  BY <1>1, Taking DEF LinkOps, States
<1>3. /\ InOrder(queue') /\ ServerFits' /\ CountersFit'
      /\ \A op, x : OwedIn(queue, op, x) =>
           OwedIn(queue', op, x) \/ (op = "save" /\ x = Result.path)
  BY <1>1, ListedAgain DEF TakeSave
<1>4. PICK p \in Place, text \in Content : p = Result.path /\ text = Result.text
  BY <1>2 DEF Requests
<1>5. NodesSafe(nodes, queue) /\ Safe(docs, ignored, queue) /\ ignored \in SUBSET Seq(Name)
  BY DEF IInv, WaitersFit
<1>6. Safe(docs', ignored', queue')
  <2>1. docs' = SaveFailed(docs, p) \/ docs' = SaveSucceeded(docs, p, text)
    BY <1>4 DEF TakeSave
  <2>2. Safe(SaveFailed(docs, p), ignored, queue') /\ Safe(SaveSucceeded(docs, p, text), ignored, queue')
    BY <1>3, <1>4, <1>5, SaveTakenSafe
  <2> QED BY <2>1, <2>2 DEF TakeSave
<1>7. NodesSafe(nodes', queue')
  BY <1>3, <1>5, NodesStillSafe DEF TakeSave, pane
<1> QED BY <1>2, <1>3, <1>5, <1>6, <1>7 DEF TakeSave, IInv, PaneFits, WaitersFit, AloneFits, pane

LEMMA TakeMutationStep ==
  ASSUME IInv, TakeMutation
  PROVE  IInv'
<1>1. /\ queue # <<>> /\ Result.answer # Pending /\ Result.known
      /\ Result.op \in {"write", "mkdir", "copy", "rename", "remove"}
  BY DEF TakeMutation, Known, Arrived
<1>2. Result \in Requests /\ Fits(Result) /\ connected
  BY <1>1, Taking DEF LinkOps, States
<1>3. /\ InOrder(queue') /\ ServerFits' /\ CountersFit'
      /\ \A op, x : op \in Awaited /\ OwedIn(queue, op, x) => OwedIn(queue', op, x)
  BY <1>1, ListedAgain DEF TakeMutation, Awaited
<1>4. NodesSafe(nodes, queue) /\ Safe(docs, ignored, queue) /\ ignored \in SUBSET Seq(Name)
  BY DEF IInv, WaitersFit
<1>5. Safe(docs', ignored, queue')
  <2>1. \/ docs' = docs
        \/ docs' = Removed(docs, Result.path, Result.recursive)
        \/ Result.op = "rename" /\ docs' = Renamed(docs, Result.path, Result.to)
    BY DEF TakeMutation
  <2>2. CASE docs' = docs
    BY <1>3, <1>4, <2>2, StillSafe DEF Awaited
  <2>3. CASE docs' = Removed(docs, Result.path, Result.recursive)
    BY <1>3, <1>4, <2>3, RemovedSafe DEF Awaited
  <2>4. CASE Result.op = "rename" /\ docs' = Renamed(docs, Result.path, Result.to)
    <3>1. Result.path \in Seq(Name) /\ Result.to \in Seq(Name)
      BY <1>2, <2>4, Paths DEF Fits
    <3> QED BY <1>3, <1>4, <2>4, <3>1, RenamedSafe DEF Awaited
  <2> QED BY <2>1, <2>2, <2>3, <2>4
<1>6. NodesSafe(nodes', queue')
  BY <1>3, <1>4, NodesStillSafe DEF TakeMutation, pane, Awaited
<1>7. clipboard' \in Clips
  BY DEF TakeMutation, IInv, PaneFits, Clips
<1> QED BY <1>2, <1>3, <1>4, <1>5, <1>6, <1>7
        DEF TakeMutation, IInv, PaneFits, WaitersFit, AloneFits, pane

(***************************************************************************)
(* The theorems                                                            *)
(***************************************************************************)
LEMMA StutterStep == IInv /\ UNCHANGED vars => IInv'
BY DEF vars, IInv, ServerFits, PaneFits, CountersFit, WaitersFit, AloneFits

\* What the user does to the files is asked for, or is a matter of the pane.
LEMMA ChangeAsks ==
  ASSUME IInv, Change
  PROVE  AsksTo \/ \E p \in Shown : \E cut \in BOOLEAN : Clip(p, cut)
<1>1. CASE \E name \in Name : \E d \in Folders \cup {Parent(p) : p \in Shown} :
             MakeDir(d, name) \/ MakeFile(d, name)
  BY <1>1, MakeAsks
<1>2. CASE \E name \in Name : \E d \in Folders : UploadFile(d, name)
  BY <1>2, UploadAsks
<1>3. CASE \E p \in Shown : \E name \in Name : RenamePath(p, name)
  BY <1>3, RenamePathAsks
<1>4. CASE \E p \in Shown : DeletePath(p)
  BY <1>4, DeletePathAsks
<1>5. CASE \E p \in Shown : \E cut \in BOOLEAN : Clip(p, cut)
  BY <1>5
<1>6. CASE \E d \in Folders \ {Root} : Paste(d)
  BY <1>6, PasteAsks
<1> QED BY <1>1, <1>2, <1>3, <1>4, <1>5, <1>6 DEF Change

LEMMA ChangeStep == IInv /\ Change => IInv'
<1> QED BY ChangeAsks, ClipStep, MutateStep DEF AsksTo

LEMMA NextPreserves == IInv /\ [Next]_vars => IInv'
<1> SUFFICES ASSUME IInv, [Next]_vars PROVE IInv'
  OBVIOUS
<1>1. CASE Connect \/ Disconnect
  BY <1>1, LinkStep
<1>2. CASE Drop
  BY <1>2, DropStep
<1>3. CASE Serve
  BY <1>3, ServeLinkStep, ServeListStep, ServeOpenStep, ServeMutationStep, ServeFailsStep DEF Serve
<1>4. CASE Browse
  BY <1>4, ExpandStep, ReloadFilesStep DEF Browse
<1>5. CASE Change
  BY <1>5, ChangeStep
<1>6. CASE Edit
  BY <1>6, RequestOpenStep, TypeStep, SaveCurrentStep, CloseDocumentStep DEF Edit
<1>7. CASE Take
  BY <1>7, TakeUpStep, TakeDownStep, TakeUnknownStep, TakeListingStep, TakeOpenStep, TakeSaveStep,
     TakeMutationStep DEF Take
<1>8. CASE UNCHANGED vars
  BY <1>8, StutterStep
<1> QED BY <1>1, <1>2, <1>3, <1>4, <1>5, <1>6, <1>7, <1>8 DEF Next

LEMMA AlwaysFits == Spec => []IInv
<1> QED BY InitEstablishes, NextPreserves, PTL DEF Spec

\* Every value keeps its type, the server's files stay a tree, every node of
\* the pane has a directory above it, and the answers that have come are the
\* first of the queue, for any names, depth and bounds.
THEOREM TypeCorrect == Spec => []TypeOK
<1> QED BY AlwaysFits, InvariantShows, PTL

\* A directory that loads, and a document that loads or saves and has not
\* been renamed under its request, is owed an answer that will find it.
THEOREM NobodyWaitsInVain == Spec => []WaitersAreOwed
<1> QED BY AlwaysFits, InvariantShows, PTL

\* While not connected the pane is bare, nothing is awaited, and what is left
\* of the documents is unsaved text cut off from its file.
THEOREM BareWhenDisconnected == Spec => []DisconnectedIsBare
<1> QED BY AlwaysFits, InvariantShows, PTL

\* What has been modified keeps its text, unless an opening of its path is
\* answered, and its mark, unless a save of its path is.
Survives(ds, ds2, op, q) ==
  \A i \in DOMAIN ds : (ds[i].modified /\ ~(op = "open" /\ q = ds[i].path)) =>
    \E j \in DOMAIN ds2 :
      ds2[j].text = ds[i].text /\ (ds2[j].modified \/ (op = "save" /\ q = ds[i].path))

LEMMA RemovedSurvives ==
  ASSUME NEW ds \in Seq(Document), NEW p, NEW recursive, NEW op, NEW q
  PROVE  Survives(ds, Removed(ds, p, recursive), op, q)
<1> DEFINE r == Removed(ds, p, recursive)
<1>1. PICK src : KeptFrom(ds, p, recursive, Len(ds), r, src)
  BY RemovedDocs
<1> HIDE DEF r
<1>2. /\ DOMAIN r = 1..Len(r) /\ DOMAIN ds = 1..Len(ds) /\ src \in [1..Len(r) -> 1..Len(ds)]
      /\ \A j \in 1..Len(r) : Kept(ds[src[j]], p, recursive, r[j])
      /\ \A i \in 1..Len(ds) : ds[i].modified => \E j \in 1..Len(r) : src[j] = i
  BY <1>1 DEF KeptFrom
<1>3. ASSUME NEW i \in 1..Len(ds), ds[i].modified
      PROVE  \E j \in 1..Len(r) : r[j].text = ds[i].text /\ r[j].modified
  <2>1. PICK j \in 1..Len(r) : src[j] = i
    BY <1>2, <1>3
  <2>2. Kept(ds[i], p, recursive, r[j]) /\ ds[i] \in Document
    BY <1>2, <2>1
  <2>3. r[j].text = ds[i].text /\ r[j].modified
    BY <1>3, <2>2, CutOffDocument DEF Kept
  <2> QED BY <2>3
<1> QED BY <1>2, <1>3 DEF Survives, r

LEMMA RenamedSurvives ==
  ASSUME NEW ds \in Seq(Document), NEW from, NEW to, NEW op, NEW q
  PROVE  Survives(ds, Renamed(ds, from, to), op, q)
<1> DEFINE hit(i) == Matches(ds[i].path, from, TRUE)
           taken == {Rebase(ds[j].path, from, to) : j \in {k \in DOMAIN ds : hit(k)}}
           there(d) == [d EXCEPT !.path = Rebase(@, from, to), !.missing = FALSE, !.moved = TRUE]
           here(d) == [d EXCEPT !.moved = @ \/ d.path \in taken]
           r == Renamed(ds, from, to)
<1>1. r = [i \in DOMAIN ds |-> IF hit(i) THEN there(ds[i]) ELSE here(ds[i])]
  BY DEF Renamed
<1>2. ASSUME NEW d \in Document
      PROVE  /\ there(d).text = d.text /\ there(d).modified = d.modified
             /\ here(d).text = d.text /\ here(d).modified = d.modified
  BY DEF Document
<1> HIDE DEF hit, there, here, r
<1>3. \A i \in DOMAIN ds : r[i].text = ds[i].text /\ r[i].modified = ds[i].modified
  <2> SUFFICES ASSUME NEW i \in DOMAIN ds
               PROVE  r[i].text = ds[i].text /\ r[i].modified = ds[i].modified
    OBVIOUS
  <2>1. ds[i] \in Document
    OBVIOUS
  <2>2. r[i] = there(ds[i]) \/ r[i] = here(ds[i])
    BY <1>1
  <2> QED BY <1>2, <2>1, <2>2
<1>4. DOMAIN r = DOMAIN ds
  BY <1>1
<1> QED BY <1>3, <1>4 DEF Survives, r

LEMMA SavedSurvives ==
  ASSUME NEW ds \in Seq(Document), NEW p, NEW text
  PROVE  /\ Survives(ds, SaveFailed(ds, p), "save", p)
         /\ Survives(ds, SaveSucceeded(ds, p, text), "save", p)
<1> DEFINE failed(d) == [d EXCEPT !.modified = TRUE, !.saving = FALSE]
           done(d) == [d EXCEPT !.modified = FALSE, !.saving = FALSE, !.synced = text]
<1>1. \A d \in Document : failed(d).text = d.text /\ done(d).text = d.text
  BY DEF Document
<1>2. /\ SaveFailed(ds, p) = [i \in DOMAIN ds |-> IF i \in At(ds, p) THEN failed(ds[i]) ELSE ds[i]]
      /\ SaveSucceeded(ds, p, text) = [i \in DOMAIN ds |-> IF i \in At(ds, p) THEN done(ds[i]) ELSE ds[i]]
  BY DEF SaveFailed, SaveSucceeded
<1> HIDE DEF failed, done
<1>3. \A i \in DOMAIN ds : ds[i] \in Document /\ (i \in At(ds, p) => ds[i].path = p)
  BY DEF At
<1> QED BY <1>1, <1>2, <1>3 DEF Survives

LEMMA OpenedSurvives ==
  ASSUME NEW ds \in Seq(Document), NEW p, NEW text, NEW ign
  PROVE  /\ Survives(ds, OpenFailed(ds, p, ign), "open", p)
         /\ Survives(ds, Loaded(ds, p, text, ign), "open", p)
<1>1. \A i \in At(ds, p) : i \in 1..Len(ds) /\ ds[i].path = p
  BY DEF At
<1>2. Survives(ds, OpenFailed(ds, p, ign), "open", p)
  <2>1. CASE OpenFailed(ds, p, ign) = ds
    BY <2>1 DEF Survives
  <2>2. CASE OpenFailed(ds, p, ign) # ds
    <3>1. At(ds, p) # {} /\ OpenFailed(ds, p, ign) = RemoveAt(ds, CHOOSE k \in At(ds, p) : TRUE)
      BY <2>2 DEF OpenFailed
    <3>2. PICK k : k \in At(ds, p) /\ OpenFailed(ds, p, ign) = RemoveAt(ds, k)
      BY <3>1
    <3> DEFINE r == RemoveAt(ds, k)
    <3>3. k \in 1..Len(ds) /\ ds[k].path = p
      BY <1>1, <3>2
    <3>4. /\ r \in Seq(Document) /\ Len(r) = Len(ds) - 1
          /\ \A j \in 1..k - 1 : r[j] = ds[j]
          /\ \A j \in k..Len(ds) - 1 : r[j] = ds[j + 1]
      BY <3>3, RemoveAtProperties
    <3> HIDE DEF r
    <3>5. ASSUME NEW i \in 1..Len(ds), i # k
          PROVE  \E j \in 1..Len(r) : r[j] = ds[i]
      <4>1. CASE i < k
        <5>1. i \in 1..k - 1 /\ i \in 1..Len(r)
          BY <3>3, <3>4, <4>1
        <5> QED BY <3>4, <5>1
      <4>2. CASE i > k
        <5>1. i - 1 \in k..Len(ds) - 1 /\ i - 1 \in 1..Len(r) /\ i - 1 + 1 = i
          BY <3>3, <3>4, <4>2
        <5> QED BY <3>4, <5>1
      <4> QED BY <3>3, <3>5, <4>1, <4>2
    <3>6. DOMAIN r = 1..Len(r) /\ DOMAIN ds = 1..Len(ds) /\ OpenFailed(ds, p, ign) = r
      BY <3>2, <3>4 DEF r
    <3> QED BY <3>3, <3>5, <3>6 DEF Survives
  <2> QED BY <2>1, <2>2
<1>3. Survives(ds, Loaded(ds, p, text, ign), "open", p)
  <2> DEFINE d == MakeDocument(p, text, FALSE)
  <2> HIDE DEF d
  <2>1. CASE Loaded(ds, p, text, ign) = ds
    BY <2>1 DEF Survives
  <2>2. CASE Loaded(ds, p, text, ign) = Append(ds, d)
    <3>1. \A i \in DOMAIN ds : i \in DOMAIN Append(ds, d) /\ Append(ds, d)[i] = ds[i]
      OBVIOUS
    <3> QED BY <2>2, <3>1 DEF Survives
  <2>3. CASE Loaded(ds, p, text, ign) = [i \in DOMAIN ds |-> IF i \in At(ds, p) THEN d ELSE ds[i]]
    BY <1>1, <2>3 DEF Survives
  <2> QED BY <2>1, <2>2, <2>3 DEF Loaded, d
<1> QED BY <1>2, <1>3

\* Unsaved text outlives every answer but that to a reading of its own path,
\* and stays marked unless a save of its path is answered.
THEOREM ModifiedTextSurvives == Spec => ModifiedSurvives
<1>1. ASSUME IInv, Take
      PROVE  Survives(docs, docs', Result.op, Result.path)
  <2>1. docs \in Seq(Document)
    BY <1>1 DEF IInv, WaitersFit, Safe
  <2>2. CASE docs' = docs
    BY <2>2 DEF Survives
  <2>3. CASE TakeDown
    BY <2>1, <2>3, RemovedSurvives DEF TakeDown
  <2>4. CASE TakeSave
    <3>1. Result.op = "save"
      BY <2>4 DEF TakeSave, Known, Arrived
    <3> QED BY <2>1, <2>4, <3>1, SavedSurvives DEF TakeSave
  <2>5. CASE TakeOpen
    <3>1. Result.op = "open"
      BY <2>5 DEF TakeOpen, Known, Arrived
    <3> QED BY <2>1, <2>5, <3>1, OpenedSurvives DEF TakeOpen
  <2>6. CASE TakeMutation
    <3>1. \/ docs' = docs
          \/ docs' = Removed(docs, Result.path, Result.recursive)
          \/ docs' = Renamed(docs, Result.path, Result.to)
      BY <2>6 DEF TakeMutation
    <3> QED BY <2>1, <2>2, <3>1, RemovedSurvives, RenamedSurvives
  <2> QED BY <1>1, <2>2, <2>3, <2>4, <2>5, <2>6
          DEF Take, TakeUp, TakeUnknown, TakeListing, editor
<1>2. IInv /\ [Next]_vars =>
        [Take =>
           \A i \in DOMAIN docs : (docs[i].modified /\ ~AnswerTo("open", docs[i])) =>
             \E j \in DOMAIN docs' :
               /\ docs'[j].text = docs[i].text
               /\ docs'[j].modified \/ AnswerTo("save", docs[i])]_vars
  BY <1>1 DEF Survives, AnswerTo
<1> QED BY <1>2, AlwaysFits, PTL DEF Spec, ModifiedSurvives

(***************************************************************************)
(* What the queue will say of the directories                              *)
(***************************************************************************)
IsRequest(r) == r.op \notin LinkOps

\* A listing of d that has come, and one that is still to come, or to be asked
\* for once an answer is taken in.
Hears(r, d) ==
  r.known /\ r.op = "list" /\ r.answer \notin {Pending, Error} /\ Resolve(r.path) = d
Lists(r, d) ==
  /\ r.known
  /\ \/ r.op = "list" /\ r.answer = Pending /\ Resolve(r.path) = d
     \/ r.op \in Mutations /\ r.answer = Ok /\ Relists(r, d)

Heard(q, d) == {i \in 1..Len(q) : Hears(q[i], d)}
Quiet(q, d) == Heard(q, d) = {}
Tells(q, d, E) ==
  \E i \in Heard(q, d) : (\A j \in Heard(q, d) : j <= i) /\ q[i].answer.entries = E
WillHear(q, d) == \E i \in 1..Len(q) : Lists(q[i], d)

\* What has been forgotten is ahead of what has been asked for since.
ForgottenFirst(q) ==
  \A i, j \in 1..Len(q) :
    IsRequest(q[i]) /\ IsRequest(q[j]) /\ ~q[i].known /\ q[j].known => i < j
AllKnown(q) == \A i \in 1..Len(q) : IsRequest(q[i]) => q[i].known

QueueKeeps(q, r) ==
  /\ \A d : Quiet(q, d) => Quiet(r, d)
  /\ \A d, E : Tells(q, d, E) => Tells(r, d, E)
  /\ \A d : WillHear(q, d) => WillHear(r, d)
  /\ ForgottenFirst(q) => ForgottenFirst(r)
  /\ AllKnown(q) => AllKnown(r)

\* The elements of q are in r, in their order, but for those about the connection.
Renumbers(q, r, f) ==
  /\ f \in [1..Len(q) -> 1..Len(r)]
  /\ \A i, j \in 1..Len(q) : i < j => f[i] < f[j]
  /\ \A i \in 1..Len(q) :
       r[f[i]] = q[i] \/ (q[i].op \in LinkOps /\ r[f[i]].op \in LinkOps)
  /\ \A k \in 1..Len(r) : (\E i \in 1..Len(q) : k = f[i]) \/ r[k].op \in LinkOps

LEMMA LinksSayNothing ==
  ASSUME NEW r, r.op \in LinkOps
  PROVE  (\A d : ~Hears(r, d) /\ ~Lists(r, d)) /\ ~IsRequest(r)
BY DEF Hears, Lists, IsRequest, LinkOps, States, Mutations

LEMMA RenumberedKeeps ==
  ASSUME NEW q, NEW r, NEW f, Renumbers(q, r, f), Len(q) \in Nat, Len(r) \in Nat
  PROVE  QueueKeeps(q, r) /\ QueueKeeps(r, q)
<1>1. /\ f \in [1..Len(q) -> 1..Len(r)]
      /\ \A i, j \in 1..Len(q) : i < j => f[i] < f[j]
      /\ \A i \in 1..Len(q) : r[f[i]] = q[i] \/ (q[i].op \in LinkOps /\ r[f[i]].op \in LinkOps)
      /\ \A k \in 1..Len(r) : (\E i \in 1..Len(q) : k = f[i]) \/ r[k].op \in LinkOps
  BY DEF Renumbers
<1>2. \A i, j \in 1..Len(q) : f[i] <= f[j] <=> i <= j
  <2> SUFFICES ASSUME NEW i \in 1..Len(q), NEW j \in 1..Len(q) PROVE f[i] <= f[j] <=> i <= j
    OBVIOUS
  <2>1. f[i] \in 1..Len(r) /\ f[j] \in 1..Len(r)
    BY <1>1
  <2>2. (i < j => f[i] < f[j]) /\ (j < i => f[j] < f[i])
    BY <1>1
  <2>3. i < j \/ i = j \/ j < i
    OBVIOUS
  <2> QED BY <2>1, <2>2, <2>3
<1>3. ASSUME NEW i \in 1..Len(q), NEW d
      PROVE  /\ Hears(q[i], d) <=> Hears(r[f[i]], d)
             /\ Lists(q[i], d) <=> Lists(r[f[i]], d)
             /\ Hears(q[i], d) => q[i] = r[f[i]]
  BY <1>1, LinksSayNothing, Zenon
<1>4. ASSUME NEW k \in 1..Len(r), NEW d, Hears(r[k], d) \/ Lists(r[k], d) \/ IsRequest(r[k])
      PROVE  \E i \in 1..Len(q) : k = f[i]
  BY <1>1, <1>4, LinksSayNothing, Zenon
<1>5. ASSUME NEW d PROVE Quiet(q, d) <=> Quiet(r, d)
  <2>1. ASSUME NEW i \in Heard(q, d) PROVE f[i] \in Heard(r, d)
    BY <1>1, <1>3 DEF Heard
  <2>2. ASSUME NEW k \in Heard(r, d) PROVE \E i \in Heard(q, d) : k = f[i]
    BY <1>3, <1>4 DEF Heard
  <2> QED BY <2>1, <2>2 DEF Quiet
<1>6. ASSUME NEW d, NEW E PROVE Tells(q, d, E) <=> Tells(r, d, E)
  <2>1. ASSUME NEW i \in Heard(q, d) PROVE i \in 1..Len(q) /\ f[i] \in Heard(r, d) /\ r[f[i]] = q[i]
    BY <1>1, <1>3 DEF Heard
  <2>2. ASSUME NEW k \in Heard(r, d) PROVE \E i \in Heard(q, d) : k = f[i]
    BY <1>3, <1>4 DEF Heard
  <2>3. ASSUME Tells(q, d, E) PROVE Tells(r, d, E)
    <3>1. PICK i \in Heard(q, d) : (\A j \in Heard(q, d) : j <= i) /\ q[i].answer.entries = E
      BY <2>3 DEF Tells
    <3>2. ASSUME NEW k \in Heard(r, d) PROVE k <= f[i]
      BY <1>2, <2>1, <2>2, <3>1
    <3> QED BY <2>1, <3>1, <3>2 DEF Tells
  <2>4. ASSUME Tells(r, d, E) PROVE Tells(q, d, E)
    <3>1. PICK k \in Heard(r, d) : (\A j \in Heard(r, d) : j <= k) /\ r[k].answer.entries = E
      BY <2>4 DEF Tells
    <3>2. PICK i \in Heard(q, d) : k = f[i]
      BY <2>2
    <3>3. ASSUME NEW j \in Heard(q, d) PROVE j <= i
      BY <1>2, <2>1, <3>1, <3>2
    <3> QED BY <2>1, <3>1, <3>2, <3>3 DEF Tells
  <2> QED BY <2>3, <2>4
<1>7. ASSUME NEW d PROVE WillHear(q, d) <=> WillHear(r, d)
  BY <1>1, <1>3, <1>4 DEF WillHear
<1>8. \A i \in 1..Len(q) : (IsRequest(q[i]) <=> IsRequest(r[f[i]])) /\ (IsRequest(q[i]) => q[i] = r[f[i]])
  BY <1>1, LinksSayNothing, Zenon
<1>9. AllKnown(q) <=> AllKnown(r)
  <2>1. AllKnown(q) => AllKnown(r)
    <3> SUFFICES ASSUME AllKnown(q), NEW k \in 1..Len(r), IsRequest(r[k]) PROVE r[k].known
      BY DEF AllKnown
    <3>1. PICK i \in 1..Len(q) : k = f[i]
      BY <1>4
    <3> QED BY <1>8, <3>1 DEF AllKnown
  <2>2. AllKnown(r) => AllKnown(q)
    <3> SUFFICES ASSUME AllKnown(r), NEW i \in 1..Len(q), IsRequest(q[i]) PROVE q[i].known
      BY DEF AllKnown
    <3>1. f[i] \in 1..Len(r)
      BY <1>1
    <3> QED BY <1>8, <3>1 DEF AllKnown
  <2> QED BY <2>1, <2>2
<1>10. ForgottenFirst(q) <=> ForgottenFirst(r)
  <2>1. ASSUME ForgottenFirst(r) PROVE ForgottenFirst(q)
    <3> SUFFICES ASSUME NEW i \in 1..Len(q), NEW j \in 1..Len(q), IsRequest(q[i]), IsRequest(q[j]),
                        ~q[i].known, q[j].known
                 PROVE  i < j
      BY DEF ForgottenFirst
    <3>1. f[i] < f[j] /\ f[i] \in 1..Len(r) /\ f[j] \in 1..Len(r)
      BY <1>1, <1>8, <2>1 DEF ForgottenFirst
    <3>2. ~(f[j] <= f[i])
      BY <3>1
    <3> QED BY <1>2, <3>2
  <2>2. ASSUME ForgottenFirst(q) PROVE ForgottenFirst(r)
    <3> SUFFICES ASSUME NEW k \in 1..Len(r), NEW l \in 1..Len(r), IsRequest(r[k]), IsRequest(r[l]),
                        ~r[k].known, r[l].known
                 PROVE  k < l
      BY DEF ForgottenFirst
    <3>1. PICK i \in 1..Len(q), j \in 1..Len(q) : k = f[i] /\ l = f[j]
      BY <1>4
    <3>2. i < j
      BY <1>8, <2>2, <3>1 DEF ForgottenFirst
    <3> QED BY <1>1, <3>1, <3>2
  <2> QED BY <2>1, <2>2
<1> QED BY <1>5, <1>6, <1>7, <1>9, <1>10 DEF QueueKeeps

\* One element about the connection comes, goes, or gives way to another.
LEMMA LinkInserted ==
  ASSUME NEW q \in Seq(Good), NEW n \in 1..Len(q) + 1, NEW r \in Good, r.op \in LinkOps
  PROVE  QueueKeeps(q, InsertAt(q, n, r))
<1> DEFINE s == InsertAt(q, n, r)
<1>1. PICK m \in Nat : Len(q) = m
  OBVIOUS
<1>2. /\ s \in Seq(Good) /\ Len(s) = Len(q) + 1
      /\ \A j \in 1..n - 1 : s[j] = q[j]
      /\ s[n] = r
      /\ \A j \in n + 1..Len(q) + 1 : s[j] = q[j - 1]
  BY InsertAtProperties
<1>3. /\ Len(s) = m + 1 /\ s[n] = r /\ n \in 1..m + 1
      /\ \A j \in 1..n - 1 : s[j] = q[j]
      /\ \A j \in n + 1..m + 1 : s[j] = q[j - 1]
  BY <1>1, <1>2
<1> HIDE DEF s
<1> DEFINE f == [i \in 1..m |-> IF i < n THEN i ELSE i + 1]
<1>4. ASSUME NEW i \in 1..m PROVE f[i] \in 1..m + 1 /\ s[f[i]] = q[i]
  <2>1. CASE i < n
    BY <1>3, <2>1
  <2>2. CASE i >= n
    <3>1. i + 1 \in n + 1..m + 1 /\ i + 1 - 1 = i /\ f[i] = i + 1
      BY <1>3, <2>2
    <3> QED BY <1>3, <3>1
  <2> QED BY <1>3, <2>1, <2>2
<1>5. ASSUME NEW k \in 1..m + 1, k # n PROVE \E i \in 1..m : k = f[i]
  <2>1. CASE k < n
    <3>1. k \in 1..m /\ f[k] = k
      BY <1>3, <2>1
    <3> QED BY <3>1
  <2>2. CASE k > n
    <3>1. k - 1 \in 1..m /\ f[k - 1] = k
      BY <1>3, <2>2
    <3> QED BY <3>1
  <2> QED BY <1>3, <1>5, <2>1, <2>2
<1>6. \A i, j \in 1..m : i < j => f[i] < f[j]
  BY <1>3
<1>7. f \in [1..m -> 1..m + 1]
  BY <1>4
<1> HIDE DEF f
<1>8. Renumbers(q, s, f)
  BY <1>1, <1>3, <1>4, <1>5, <1>6, <1>7 DEF Renumbers
<1>9. Len(q) \in Nat /\ Len(s) \in Nat
  BY <1>1, <1>3
<1> QED BY <1>8, <1>9, RenumberedKeeps DEF s

LEMMA LinkRemoved ==
  ASSUME NEW q \in Seq(Good), NEW n \in 1..Len(q), q[n].op \in LinkOps
  PROVE  QueueKeeps(q, RemoveAt(q, n))
<1> DEFINE s == RemoveAt(q, n)
<1>1. PICK m \in Nat : Len(q) = m + 1
  <2>1. Len(q) - 1 \in Nat /\ Len(q) = Len(q) - 1 + 1
    OBVIOUS
  <2> QED BY <2>1
<1>2. /\ s \in Seq(Good) /\ Len(s) = Len(q) - 1
      /\ \A j \in 1..n - 1 : s[j] = q[j]
      /\ \A j \in n..Len(q) - 1 : s[j] = q[j + 1]
  BY RemoveAtProperties
<1>3. /\ Len(s) = m /\ n \in 1..m + 1
      /\ \A j \in 1..n - 1 : s[j] = q[j]
      /\ \A j \in n..m : s[j] = q[j + 1]
  BY <1>1, <1>2
<1> HIDE DEF s
<1> DEFINE f == [i \in 1..m |-> IF i < n THEN i ELSE i + 1]
<1>4. ASSUME NEW i \in 1..m PROVE f[i] \in 1..m + 1 /\ q[f[i]] = s[i]
  BY <1>3
<1>5. ASSUME NEW k \in 1..m + 1, k # n PROVE \E i \in 1..m : k = f[i]
  <2>1. CASE k < n
    <3>1. k \in 1..m /\ f[k] = k
      BY <1>3, <2>1
    <3> QED BY <3>1
  <2>2. CASE k > n
    <3>1. k - 1 \in 1..m /\ f[k - 1] = k
      BY <1>3, <2>2
    <3> QED BY <3>1
  <2> QED BY <1>3, <1>5, <2>1, <2>2
<1>6. \A i, j \in 1..m : i < j => f[i] < f[j]
  BY <1>3
<1>7. f \in [1..m -> 1..m + 1]
  BY <1>4
<1> HIDE DEF f
<1>8. Renumbers(s, q, f)
  BY <1>1, <1>3, <1>4, <1>5, <1>6, <1>7 DEF Renumbers
<1>9. Len(q) \in Nat /\ Len(s) \in Nat
  BY <1>1, <1>3
<1> QED BY <1>8, <1>9, RenumberedKeeps DEF s

LEMMA LinkReplaced ==
  ASSUME NEW q \in Seq(Good), NEW n \in 1..Len(q), q[n].op \in LinkOps,
         NEW r \in Good, r.op \in LinkOps, NEW s, s = [q EXCEPT ![n] = r]
  PROVE  QueueKeeps(q, s)
<1>1. /\ Len(s) = Len(q) /\ s[n] = r /\ \A i \in 1..Len(q) : i # n => s[i] = q[i]
  BY ExceptSeq
<1> DEFINE f == [i \in 1..Len(q) |-> i]
<1>2. Renumbers(q, s, f)
  BY <1>1 DEF Renumbers
<1>3. Len(q) \in Nat /\ Len(s) \in Nat
  BY <1>1
<1> QED BY <1>2, <1>3, RenumberedKeeps

\* More is asked for.
LEMMA AskedKeeps ==
  ASSUME NEW q \in Seq(Good), NEW items \in Seq(Good),
         \A i \in 1..Len(items) : items[i].answer = Pending /\ items[i].known = TRUE
  PROVE  /\ QueueKeeps(q, q \o items)
         /\ \A i \in 1..Len(items) :
              items[i].op = "list" => WillHear(q \o items, Resolve(items[i].path))
<1> DEFINE r == q \o items
<1>1. PICK m \in Nat, n \in Nat : m = Len(q) /\ n = Len(items)
  <2>1. Len(q) \in Nat /\ Len(items) \in Nat
    OBVIOUS
  <2> QED BY <2>1
<1>2. /\ r \in Seq(Good) /\ Len(r) = Len(q) + Len(items)
      /\ \A j \in 1..Len(q) : r[j] = q[j]
      /\ \A j \in Len(q) + 1..Len(q) + Len(items) : r[j] = items[j - Len(q)]
  BY Concat, Zenon
<1>3. /\ Len(r) = m + n /\ \A j \in 1..m : r[j] = q[j]
      /\ \A j \in m + 1..m + n : r[j] = items[j - m]
  BY <1>1, <1>2
<1> HIDE DEF r
<1>4. \A k \in 1..m + n : k \in 1..m \/ k \in m + 1..m + n
  OBVIOUS
<1>5. \A k \in m + 1..m + n : r[k].answer = Pending /\ r[k].known = TRUE
  <2> SUFFICES ASSUME NEW k \in m + 1..m + n PROVE r[k].answer = Pending /\ r[k].known = TRUE
    OBVIOUS
  <2>1. k - m \in 1..n
    OBVIOUS
  <2> QED BY <1>1, <1>3, <2>1
<1>6. \A d : Heard(r, d) = Heard(q, d)
  <2> SUFFICES ASSUME NEW d PROVE Heard(r, d) = Heard(q, d)
    OBVIOUS
  <2>1. \A k \in m + 1..m + n : ~Hears(r[k], d)
    BY <1>5 DEF Hears
  <2>2. \A k \in 1..m : k \in 1..m + n
    OBVIOUS
  <2> QED BY <1>1, <1>3, <1>4, <2>1, <2>2 DEF Heard
<1>7. \A d, E : Tells(q, d, E) => Tells(r, d, E)
  <2> SUFFICES ASSUME NEW d, NEW E, Tells(q, d, E) PROVE Tells(r, d, E)
    OBVIOUS
  <2>1. PICK i \in Heard(q, d) : (\A j \in Heard(q, d) : j <= i) /\ q[i].answer.entries = E
    BY DEF Tells
  <2>2. r[i] = q[i]
    BY <1>1, <1>3 DEF Heard
  <2> QED BY <1>6, <2>1, <2>2 DEF Tells
<1>8. \A d : WillHear(q, d) => WillHear(r, d)
  BY <1>1, <1>3 DEF WillHear
<1>9. AllKnown(q) => AllKnown(r)
  BY <1>1, <1>3, <1>4, <1>5 DEF AllKnown
<1>10. ForgottenFirst(q) => ForgottenFirst(r)
  <2> SUFFICES ASSUME ForgottenFirst(q), NEW i \in 1..m + n, NEW j \in 1..m + n,
                      IsRequest(r[i]), IsRequest(r[j]), ~r[i].known, r[j].known
               PROVE  i < j
    BY <1>3 DEF ForgottenFirst
  <2>1. i \in 1..m
    BY <1>4, <1>5
  <2>2. CASE j \in 1..m
    BY <1>1, <1>3, <2>1, <2>2 DEF ForgottenFirst
  <2>3. CASE j \in m + 1..m + n
    BY <2>1, <2>3
  <2> QED BY <1>4, <2>2, <2>3
<1>11. ASSUME NEW i \in 1..n, items[i].op = "list" PROVE WillHear(r, Resolve(items[i].path))
  <2>1. m + i \in m + 1..m + n /\ m + i \in 1..m + n /\ m + i - m = i
    OBVIOUS
  <2>2. r[m + i] = items[i]
    BY <1>3, <2>1
  <2>3. Lists(items[i], Resolve(items[i].path))
    BY <1>1, <1>11 DEF Lists
  <2> QED BY <1>3, <2>1, <2>2, <2>3 DEF WillHear
<1>12. QueueKeeps(q, r)
  BY <1>6, <1>7, <1>8, <1>9, <1>10 DEF QueueKeeps, Quiet
<1> QED BY <1>1, <1>11, <1>12 DEF r

\* The first answer is taken in.
LEMMA TakenKeeps ==
  ASSUME NEW q \in Seq(Good), q # <<>>
  PROVE  /\ \A d : Quiet(q, d) => Quiet(Tail(q), d)
         /\ \A d, E : Tells(q, d, E) /\ ~Hears(q[1], d) => Tells(Tail(q), d, E)
         /\ \A d, E : Tells(q, d, E) =>
              Tells(Tail(q), d, E)
              \/ (Quiet(Tail(q), d) /\ Hears(q[1], d) /\ q[1].answer.entries = E)
         /\ \A d : WillHear(q, d) => WillHear(Tail(q), d) \/ Lists(q[1], d)
         /\ ForgottenFirst(q) => ForgottenFirst(Tail(q))
         /\ AllKnown(q) => AllKnown(Tail(q))
         /\ ForgottenFirst(q) /\ IsRequest(q[1]) /\ q[1].known => AllKnown(q)
<1> DEFINE r == Tail(q)
<1>1. PICK n \in Nat : Len(q) = n + 1
  <2>1. Len(q) \in Nat \ {0}
    BY EmptySeq
  <2>2. Len(q) - 1 \in Nat /\ Len(q) = Len(q) - 1 + 1
    BY <2>1
  <2> QED BY <2>2
<1>2. r \in Seq(Good) /\ Len(r) = Len(q) - 1 /\ \A j \in 1..Len(r) : r[j] = q[j + 1]
  BY HeadTailProperties
<1>3. Len(r) = n /\ \A j \in 1..n : r[j] = q[j + 1]
  BY <1>1, <1>2
<1> HIDE DEF r
<1>4. \A i \in 1..n + 1 : i = 1 \/ (i - 1 \in 1..n /\ r[i - 1] = q[i])
  <2> SUFFICES ASSUME NEW i \in 1..n + 1, i # 1 PROVE i - 1 \in 1..n /\ r[i - 1] = q[i]
    OBVIOUS
  <2>1. i - 1 \in 1..n /\ i - 1 + 1 = i
    OBVIOUS
  <2> QED BY <1>3, <2>1
<1>5. ASSUME NEW d, NEW j \in Heard(r, d) PROVE j + 1 \in Heard(q, d) /\ j \in 1..n
  <2>1. j \in 1..n /\ j + 1 \in 1..n + 1 /\ r[j] = q[j + 1]
    BY <1>3 DEF Heard
  <2> QED BY <1>1, <2>1 DEF Heard
<1>6. ASSUME NEW d, NEW i \in Heard(q, d), i # 1
      PROVE  i - 1 \in Heard(r, d) /\ r[i - 1] = q[i] /\ i \in 1..n + 1
  BY <1>1, <1>3, <1>4, <1>6 DEF Heard
<1>7. \A d : Quiet(q, d) => Quiet(r, d)
  BY <1>5 DEF Quiet
<1>8. ASSUME NEW d, NEW E, Tells(q, d, E), ~Tells(r, d, E)
      PROVE  Quiet(r, d) /\ Hears(q[1], d) /\ q[1].answer.entries = E
  <2>1. PICK i \in Heard(q, d) : (\A j \in Heard(q, d) : j <= i) /\ q[i].answer.entries = E
    BY <1>8 DEF Tells
  <2>2. CASE i # 1
    <3>1. i - 1 \in Heard(r, d) /\ r[i - 1] = q[i] /\ i \in 1..n + 1
      BY <1>6, <2>2
    <3>2. ASSUME NEW j \in Heard(r, d) PROVE j <= i - 1
      <4>1. j + 1 <= i /\ j \in 1..n
        BY <1>5, <2>1
      <4> QED BY <3>1, <4>1
    <3>3. Tells(r, d, E)
      BY <2>1, <3>1, <3>2 DEF Tells
    <3> QED BY <1>8, <3>3
  <2>3. CASE i = 1
    <3>1. ASSUME NEW j \in Heard(r, d) PROVE FALSE
      <4>1. j + 1 <= 1 /\ j \in 1..n
        BY <1>5, <2>1, <2>3
      <4> QED BY <4>1
    <3> QED BY <2>1, <2>3, <3>1 DEF Quiet, Heard
  <2> QED BY <2>2, <2>3
<1>9. ASSUME NEW d, WillHear(q, d), ~Lists(q[1], d) PROVE WillHear(r, d)
  BY <1>1, <1>3, <1>4, <1>9 DEF WillHear
<1>10. AllKnown(q) => AllKnown(r)
  <2> SUFFICES ASSUME AllKnown(q), NEW j \in 1..n, IsRequest(r[j]) PROVE r[j].known
    BY <1>3 DEF AllKnown
  <2>1. j + 1 \in 1..n + 1 /\ r[j] = q[j + 1]
    BY <1>3
  <2> QED BY <1>1, <2>1 DEF AllKnown
<1>11. ForgottenFirst(q) => ForgottenFirst(r)
  <2> SUFFICES ASSUME ForgottenFirst(q), NEW i \in 1..n, NEW j \in 1..n,
                      IsRequest(r[i]), IsRequest(r[j]), ~r[i].known, r[j].known
               PROVE  i < j
    BY <1>3 DEF ForgottenFirst
  <2>1. i + 1 \in 1..n + 1 /\ r[i] = q[i + 1] /\ j + 1 \in 1..n + 1 /\ r[j] = q[j + 1]
    BY <1>3
  <2>2. i + 1 < j + 1
    BY <1>1, <2>1 DEF ForgottenFirst
  <2> QED BY <2>2
<1>12. ASSUME ForgottenFirst(q), IsRequest(q[1]), q[1].known PROVE AllKnown(q)
  <2> SUFFICES ASSUME NEW i \in 1..n + 1, IsRequest(q[i]), ~q[i].known PROVE FALSE
    BY <1>1 DEF AllKnown
  <2>1. 1 \in 1..n + 1
    OBVIOUS
  <2>2. i < 1
    BY <1>1, <1>12, <2>1 DEF ForgottenFirst
  <2> QED BY <2>2
<1>13. \A d, E : Tells(q, d, E) /\ ~Hears(q[1], d) => Tells(r, d, E)
  BY <1>8
<1> QED BY <1>7, <1>8, <1>9, <1>10, <1>11, <1>12, <1>13 DEF r

\* The first request that waits is answered.
LEMMA AnsweredKeeps ==
  ASSUME NEW q \in Seq(Good), NEW n \in 1..Len(q), Split(q, n - 1), q[n].answer = Pending,
         NEW r \in Good, r.answer # Pending, NEW s, s = [q EXCEPT ![n] = r],
         r.known = q[n].known, r.op = q[n].op, r.path = q[n].path
  PROVE  /\ \A d : ~Hears(r, d) => (Quiet(q, d) => Quiet(s, d))
         /\ \A d, E : ~Hears(r, d) /\ Tells(q, d, E) => Tells(s, d, E)
         /\ \A d : Hears(r, d) => Tells(s, d, r.answer.entries)
         /\ \A d : WillHear(q, d) => WillHear(s, d) \/ Lists(q[n], d)
         /\ \A d : Lists(r, d) => WillHear(s, d)
         /\ ForgottenFirst(q) => ForgottenFirst(s)
         /\ AllKnown(q) => AllKnown(s)
<1>1. /\ Len(s) = Len(q) /\ s[n] = r /\ \A i \in 1..Len(q) : i # n => s[i] = q[i]
  BY ExceptSeq
<1>2. \A d : ~Hears(q[n], d)
  BY DEF Hears
<1>3. ASSUME NEW d, ~Hears(r, d) PROVE Heard(s, d) = Heard(q, d)
  BY <1>1, <1>2, <1>3 DEF Heard
<1>4. \A d : ~Hears(r, d) => (Quiet(q, d) => Quiet(s, d))
  BY <1>3 DEF Quiet
<1>5. ASSUME NEW d, NEW E, ~Hears(r, d), Tells(q, d, E) PROVE Tells(s, d, E)
  <2>1. PICK i \in Heard(q, d) : (\A j \in Heard(q, d) : j <= i) /\ q[i].answer.entries = E
    BY <1>5 DEF Tells
  <2>2. s[i] = q[i]
    BY <1>1, <1>2, <2>1 DEF Heard
  <2> QED BY <1>3, <1>5, <2>1, <2>2 DEF Tells
<1>6. ASSUME NEW d, Hears(r, d) PROVE Tells(s, d, r.answer.entries)
  <2>1. n \in Heard(s, d)
    BY <1>1, <1>6 DEF Heard
  <2>2. ASSUME NEW j \in Heard(s, d) PROVE j <= n
    <3>1. CASE j # n
      <4>1. j \in 1..Len(q) /\ q[j].answer # Pending
        BY <1>1, <3>1 DEF Heard, Hears
      <4>2. j <= n - 1
        BY <4>1 DEF Split
      <4> QED BY <4>1, <4>2
    <3> QED BY <3>1
  <2> QED BY <1>1, <2>1, <2>2 DEF Tells
<1>7. ASSUME NEW d, WillHear(q, d), ~Lists(q[n], d) PROVE WillHear(s, d)
  BY <1>1, <1>7 DEF WillHear
<1>8. \A d : Lists(r, d) => WillHear(s, d)
  BY <1>1 DEF WillHear
<1>9. \A i \in 1..Len(q) : s[i].known = q[i].known /\ (IsRequest(s[i]) <=> IsRequest(q[i]))
  BY <1>1 DEF IsRequest
<1>10. (ForgottenFirst(q) => ForgottenFirst(s)) /\ (AllKnown(q) => AllKnown(s))
  BY <1>1, <1>9 DEF ForgottenFirst, AllKnown
<1> QED BY <1>4, <1>5, <1>6, <1>7, <1>8, <1>10

LEMMA ForgottenKeeps ==
  ASSUME NEW q \in Seq(Good)
  PROVE  (\A d : Quiet(Forgotten(q), d)) /\ ForgottenFirst(Forgotten(q))
<1> DEFINE s == Forgotten(q)
<1>1. s = [i \in 1..Len(q) |-> [q[i] EXCEPT !.known = FALSE]]
  BY DEF Forgotten
<1>2. Len(q) \in Nat /\ Len(s) = Len(q)
  BY <1>1
<1>3. \A i \in 1..Len(q) : s[i].known = FALSE
  <2> SUFFICES ASSUME NEW i \in 1..Len(q) PROVE s[i].known = FALSE
    OBVIOUS
  <2>1. q[i] \in Requests
    BY DEF Good
  <2> QED BY <1>1, <2>1 DEF Requests
<1> HIDE DEF s
<1>4. (\A d : Quiet(s, d)) /\ ForgottenFirst(s)
  BY <1>2, <1>3 DEF Quiet, Heard, Hears, ForgottenFirst
<1> QED BY <1>4 DEF s

(***************************************************************************)
(* What the pane shows of the directories                                  *)
(***************************************************************************)
NoneLoaded(ns) == \A n \in DOMAIN ns : ~ns[n].loaded
Blank(ns, d) == \A n \in DOMAIN ns : ns[n].loaded => Resolve(n) # d
Shows(ns, t, d) ==
  \A n \in DOMAIN ns : ns[n].loaded /\ Resolve(n) = d =>
    /\ ShownIn(ns, n) = Children(t, d)
    /\ \A p \in ShownIn(ns, n) : ns[p].dir = DirAt(t, p)

PaneKeeps(ns, ms) ==
  /\ \A t, d : Shows(ns, t, d) => Shows(ms, t, d)
  /\ \A d : Blank(ns, d) => Blank(ms, d)
  /\ NoneLoaded(ns) => NoneLoaded(ms)

\* What is not loaded does not matter.
LEMMA NothingShown ==
  ASSUME NEW ns, NoneLoaded(ns)
  PROVE  (\A t, d : Shows(ns, t, d)) /\ (\A d : Blank(ns, d)) /\ \A ms : PaneKeeps(ms, ns)
BY DEF NoneLoaded, Shows, Blank, PaneKeeps

LEMMA ClearedShowsNothing == NoneLoaded(Cleared) /\ NoneLoaded(Reloading)
<1>1. ~Fresh(TRUE).loaded /\ ~[Fresh(TRUE) EXCEPT !.loading = TRUE].loaded
  BY DEF Fresh
<1>2. DOMAIN Cleared = {Root} /\ Cleared[Root] = Fresh(TRUE)
  BY DEF Cleared
<1>3. DOMAIN Reloading = {Root} /\ Reloading[Root] = [Fresh(TRUE) EXCEPT !.loading = TRUE]
  BY <1>2 DEF Reloading
<1> QED BY <1>1, <1>2, <1>3 DEF NoneLoaded

\* Nor does which directories are being listed.
LEMMA LoadingKeeps ==
  ASSUME NEW ns, NEW ms, DOMAIN ms = DOMAIN ns,
         \A n \in DOMAIN ns : ms[n].dir = ns[n].dir /\ ms[n].loaded = ns[n].loaded
  PROVE  PaneKeeps(ns, ms)
<1>1. \A n : ShownIn(ms, n) = ShownIn(ns, n) /\ ShownIn(ns, n) \subseteq DOMAIN ns
  BY DEF ShownIn
<1>2. \A t, d : Shows(ns, t, d) => Shows(ms, t, d)
  <2> SUFFICES ASSUME NEW t, NEW d, Shows(ns, t, d), NEW n \in DOMAIN ns, ms[n].loaded, Resolve(n) = d
               PROVE  /\ ShownIn(ms, n) = Children(t, d)
                      /\ \A p \in ShownIn(ms, n) : ms[p].dir = DirAt(t, p)
    BY DEF Shows
  <2>1. /\ ShownIn(ns, n) = Children(t, d)
        /\ \A p \in ShownIn(ns, n) : ns[p].dir = DirAt(t, p)
    BY Zenon DEF Shows
  <2> QED BY <1>1, <2>1, Zenon
<1> QED BY <1>2 DEF PaneKeeps, Blank, NoneLoaded

LEMMA ExpandedKeeps ==
  ASSUME NEW ns, NodesTyped(ns), NEW n \in DOMAIN ns
  PROVE  PaneKeeps(ns, [ns EXCEPT ![n].loading = TRUE])
<1> DEFINE ms == [ns EXCEPT ![n].loading = TRUE]
<1>1. \A x \in DOMAIN ns : ns[x] \in TreeNode
  BY DEF NodesTyped
<1>2. PICK old \in TreeNode : old = ns[n]
  BY <1>1
<1> DEFINE new == [old EXCEPT !.loading = TRUE]
<1>3. new.dir = old.dir /\ new.loaded = old.loaded
  BY DEF TreeNode
<1>4. DOMAIN ms = DOMAIN ns /\ \A x \in DOMAIN ns : (x = n /\ ms[x] = new) \/ ms[x] = ns[x]
  BY <1>2
<1> HIDE DEF ms, new
<1>5. \A x \in DOMAIN ns : ms[x].dir = ns[x].dir /\ ms[x].loaded = ns[x].loaded
  BY <1>2, <1>3, <1>4, Zenon
<1> QED BY <1>4, <1>5, LoadingKeeps DEF ms

LEMMA FailedToLoadKeeps ==
  ASSUME NEW ns, NodesTyped(ns), NEW p
  PROVE  PaneKeeps(ns, FailedToLoad(ns, p))
<1> DEFINE done(x) == [x EXCEPT !.loading = FALSE]
           ms == [n \in DOMAIN ns |-> IF n \in NodesFor(ns, p) THEN done(ns[n]) ELSE ns[n]]
<1>1. FailedToLoad(ns, p) = ms
  BY DEF FailedToLoad
<1>2. \A x \in TreeNode : done(x).dir = x.dir /\ done(x).loaded = x.loaded
  BY DEF TreeNode
<1>3. \A n \in DOMAIN ns : ns[n] \in TreeNode
  BY DEF NodesTyped
<1> HIDE DEF done
<1>4. DOMAIN ms = DOMAIN ns /\ \A n \in DOMAIN ns : ms[n] = done(ns[n]) \/ ms[n] = ns[n]
  OBVIOUS
<1> HIDE DEF ms
<1>5. \A n \in DOMAIN ns : ms[n].dir = ns[n].dir /\ ms[n].loaded = ns[n].loaded
  BY <1>2, <1>3, <1>4, Zenon
<1> QED BY <1>1, <1>4, <1>5, LoadingKeeps

\* The directory p, of the node n, is listed, which does not touch the others.
NowListed(ns, p, entries, m, n) ==
  /\ Resolve(n) = Resolve(p) /\ ShownIn(m, n) = {e.path : e \in entries}
  /\ \A x \in ShownIn(m, n) : m[x].dir = (Entry(x, "dir") \in entries)
  /\ \A x \in DOMAIN m : x # n /\ m[x].loaded => x \in DOMAIN ns /\ ns[x].loaded
  /\ \A x \in DOMAIN m : x # n /\ x \in DOMAIN ns =>
       /\ Resolve(x) # Resolve(n) /\ ShownIn(m, x) = ShownIn(ns, x)
       /\ \A y \in ShownIn(ns, x) : m[y].dir = ns[y].dir

\* A directory that is listed shows what was listed, and the others what they did.
LEMMA ListedPane ==
  ASSUME NEW ns, NodesTyped(ns), NEW p \in Place, NodesFor(ns, p) # {},
         NEW entries, entries \subseteq [path : Path, kind : {"dir", "file", "link"}],
         \A e \in entries : e.path # Home /\ Front(e.path) = Resolve(p),
         NEW m, m = Listed(ns, p, entries)
  PROVE  \E n \in DOMAIN ns : NowListed(ns, p, entries, m, n)
<1> DEFINE n == CHOOSE x \in NodesFor(ns, p) : TRUE
           listed == {e.path : e \in entries}
           gone == UNION {Within(x, DOMAIN ns) : x \in ShownIn(ns, n) \ listed}
           isDir(x) == Entry(x, "dir") \in entries
           here == [dir |-> ns[n].dir, loaded |-> TRUE, loading |-> FALSE]
           kept(d, x) == [d EXCEPT !.dir = isDir(x)]
<1>1. m = [x \in (DOMAIN ns \ gone) \cup listed |->
             CASE x = n -> here
               [] x \in listed \ DOMAIN ns -> Fresh(isDir(x))
               [] x \in listed \cap DOMAIN ns -> kept(ns[x], x)
               [] OTHER -> ns[x]]
  BY DEF Listed
<1>2. n \in NodesFor(ns, p) /\ n \in DOMAIN ns /\ Resolve(n) = Resolve(p)
  <2> HIDE DEF n
  <2>1. n \in NodesFor(ns, p)
    BY DEF n
  <2> QED BY <2>1, OneNode
<1>3. \A x \in listed : x \in Path \ {Home} /\ Front(x) = Resolve(n)
  BY <1>2
<1>4. ShownIn(ns, n) = {x \in DOMAIN ns \ {Root} : Front(x) = Resolve(n)}
  BY DEF ShownIn
<1>5. \A y \in gone : y \in DOMAIN ns /\ \E x \in DOMAIN ns \ {Root} :
        Front(x) = Resolve(n) /\ x \notin listed /\ IsPrefix(x, y)
  BY <1>4 DEF Within
<1>6. \A x \in DOMAIN ns \ {Root}, y \in DOMAIN ns :
        Front(x) = Resolve(n) /\ x \notin listed /\ IsPrefix(x, y) => y \in gone
  <2> SUFFICES ASSUME NEW x \in DOMAIN ns \ {Root}, NEW y \in DOMAIN ns,
                      Front(x) = Resolve(n), x \notin listed, IsPrefix(x, y)
               PROVE  y \in gone
    OBVIOUS
  <2>1. x \in ShownIn(ns, n) \ listed /\ y \in Within(x, DOMAIN ns)
    BY <1>4 DEF Within
  <2> QED BY <2>1
<1>7. \A x : \A d \in TreeNode : kept(d, x).dir = isDir(x) /\ kept(d, x).loaded = d.loaded
  BY DEF TreeNode
<1>8. \A x : Fresh(isDir(x)).dir = isDir(x) /\ ~Fresh(isDir(x)).loaded
  BY DEF Fresh
<1> HIDE DEF n, gone, listed, here, kept
<1>9. \A x \in DOMAIN ns \ {Root} : x \in Seq(Name) /\ x # <<>> /\ Resolve(x) = x /\ x # Root
  BY Paths DEF NodesTyped, Home, Resolve
<1>10. DOMAIN m = (DOMAIN ns \ gone) \cup listed /\ n \notin listed
  <2>1. n # Root => Resolve(n) = n /\ n \in Path /\ n # <<>> /\ Front(n) # n
    <3> SUFFICES ASSUME n # Root PROVE Resolve(n) = n /\ n \in Path /\ n # <<>> /\ Front(n) # n
      OBVIOUS
    <3>1. n \in Path /\ n # <<>> /\ Resolve(n) = n
      BY <1>2, <1>9 DEF NodesTyped
    <3> QED BY <3>1, Fronts
  <2>2. n \notin listed
    BY <1>3, <2>1, RootApart
  <2>3. DOMAIN m = (DOMAIN ns \ gone) \cup listed
    BY <1>1
  <2> QED BY <2>2, <2>3
<1>11. \A x \in listed : x \in DOMAIN m /\ x # Root /\ m[x].dir = isDir(x)
  <2> SUFFICES ASSUME NEW x \in listed PROVE x \in DOMAIN m /\ x # Root /\ m[x].dir = isDir(x)
    OBVIOUS
  <2>1. x \in DOMAIN m /\ x # n /\ x # Root
    BY <1>3, <1>10, RootApart
  <2>2. CASE x \in DOMAIN ns
    <3>1. m[x] = kept(ns[x], x) /\ ns[x] \in TreeNode
      BY <1>1, <1>10, <2>1, <2>2 DEF NodesTyped
    <3> QED BY <1>7, <2>1, <3>1
  <2>3. CASE x \notin DOMAIN ns
    <3>1. m[x] = Fresh(isDir(x))
      BY <1>1, <1>10, <2>1, <2>3
    <3> QED BY <1>8, <2>1, <3>1
  <2> QED BY <2>2, <2>3
<1>12. \A x \in DOMAIN m : x # n /\ x \notin listed => x \in DOMAIN ns /\ m[x] = ns[x]
  BY <1>1, <1>10
<1>13. \A x \in DOMAIN m : x # n /\ m[x].loaded => x \in DOMAIN ns /\ ns[x].loaded
  <2> SUFFICES ASSUME NEW x \in DOMAIN m, x # n, m[x].loaded PROVE x \in DOMAIN ns /\ ns[x].loaded
    OBVIOUS
  <2>1. CASE x \notin listed
    BY <1>12, <2>1
  <2>2. CASE x \in listed \ DOMAIN ns
    BY <1>1, <1>8, <2>2
  <2>3. CASE x \in listed \cap DOMAIN ns
    <3>1. m[x] = kept(ns[x], x) /\ ns[x] \in TreeNode
      BY <1>1, <2>3 DEF NodesTyped
    <3> QED BY <1>7, <2>3, <3>1
  <2> QED BY <2>1, <2>2, <2>3
<1>14. ShownIn(m, n) = listed
  <2>1. ASSUME NEW x \in DOMAIN m \ {Root}, Front(x) = Resolve(n) PROVE x \in listed
    <3> SUFFICES ASSUME x \notin listed PROVE FALSE
      OBVIOUS
    <3>1. x \in DOMAIN ns \ {Root} /\ x \notin gone
      BY <1>10
    <3>2. IsPrefix(x, x)
      BY <1>9, <3>1, PrefixTransitive
    <3> QED BY <1>6, <2>1, <3>1, <3>2
  <2>2. ShownIn(m, n) = {x \in DOMAIN m \ {Root} : Front(x) = Resolve(n)}
    BY DEF ShownIn
  <2> QED BY <1>3, <1>11, <2>1, <2>2
<1>15. ASSUME NEW x \in DOMAIN m, x # n, x \in DOMAIN ns
       PROVE  /\ Resolve(x) # Resolve(n) /\ ShownIn(m, x) = ShownIn(ns, x)
              /\ \A y \in ShownIn(ns, x) : m[y].dir = ns[y].dir
  <2>1. Resolve(x) # Resolve(n)
    BY <1>2, <1>9, <1>15 DEF Resolve, Home
  <2>2. ASSUME NEW y \in DOMAIN ns \ {Root}, Front(y) = Resolve(x)
        PROVE  y \in DOMAIN m /\ y \notin listed
    <3>1. y \notin listed
      BY <1>3, <2>1, <2>2
    <3>2. ASSUME y \in gone PROVE FALSE
      <4>1. PICK z \in DOMAIN ns \ {Root} : Front(z) = Resolve(n) /\ z \notin listed /\ IsPrefix(z, y)
        BY <1>5, <3>2
      <4>2. z # y /\ z \in Seq(Name) /\ z # <<>> /\ y \in Seq(Name) /\ y # <<>>
        BY <1>9, <2>1, <2>2, <4>1
      <4>3. IsPrefix(z, Resolve(x))
        BY <2>2, <4>1, <4>2, PrefixOfFront
      <4>4. CASE x = Root
        <5>1. <<>> \in Seq(Name) /\ IsPrefix(z, <<>>) /\ IsPrefix(<<>>, z)
          BY <4>2, <4>3, <4>4, PrefixTransitive DEF Resolve, Home
        <5> QED BY <4>2, <5>1, PrefixTransitive
      <4>5. CASE x # Root
        <5>1. x \in Seq(Name) /\ x # <<>> /\ IsPrefix(z, x)
          BY <1>9, <1>15, <4>3, <4>5
        <5>2. x \in gone
          BY <1>6, <1>15, <4>1, <5>1
        <5>3. x \in listed /\ Front(x) = Front(z)
          BY <1>3, <1>10, <4>1, <5>2
        <5>4. z # x
          BY <4>1, <5>3
        <5>5. IsPrefix(z, Front(z))
          BY <4>2, <5>1, <5>3, <5>4, PrefixOfFront
        <5> QED BY <4>2, <5>5, PrefixOfFront
      <4> QED BY <4>4, <4>5
    <3> QED BY <1>10, <3>1, <3>2
  <2>3. ASSUME NEW y \in DOMAIN m \ {Root}, Front(y) = Resolve(x) PROVE y \in DOMAIN ns
    <3>1. y \notin listed
      BY <1>3, <2>1, <2>3
    <3> QED BY <1>10, <3>1
  <2>4. ShownIn(m, x) = ShownIn(ns, x)
    BY <2>2, <2>3 DEF ShownIn
  <2>5. ASSUME NEW y \in ShownIn(ns, x) PROVE m[y].dir = ns[y].dir
    <3>1. y \in DOMAIN ns \ {Root} /\ Front(y) = Resolve(x)
      BY DEF ShownIn
    <3>2. y \in DOMAIN m /\ y \notin listed
      BY <2>2, <3>1
    <3>3. CASE y = n
      <4>1. m[n] = here /\ here.dir = ns[n].dir
        BY <1>1, <1>10, <3>2, <3>3 DEF here
      <4> QED BY <3>3, <4>1
    <3>4. CASE y # n
      BY <1>12, <3>2, <3>4
    <3> QED BY <3>3, <3>4
  <2> QED BY <2>1, <2>4, <2>5
<1>16. \A x \in ShownIn(m, n) : m[x].dir = (Entry(x, "dir") \in entries)
  BY <1>11, <1>14
<1>17. ShownIn(m, n) = {e.path : e \in entries}
  BY <1>14 DEF listed
<1> HIDE DEF isDir
<1>18. NowListed(ns, p, entries, m, n)
  BY <1>2, <1>13, <1>15, <1>16, <1>17, Zenon DEF NowListed
<1> QED BY <1>2, <1>18, Zenon

\* What the server has in a directory, as a listing tells it.
Snapshot(t, d) == {Entry(p, t[p].kind) : p \in Children(t, d)}

LEMMA ListedKeeps ==
  ASSUME NEW ns, NodesTyped(ns), NEW p \in Place, NodesFor(ns, p) # {},
         NEW entries, entries \subseteq [path : Path, kind : {"dir", "file", "link"}],
         \A e \in entries : e.path # Home /\ Front(e.path) = Resolve(p),
         NEW m, m = Listed(ns, p, entries)
  PROVE  /\ \A t : entries = Snapshot(t, Resolve(p)) => Shows(m, t, Resolve(p))
         /\ \A t, d : d # Resolve(p) /\ Shows(ns, t, d) => Shows(m, t, d)
         /\ \A d : d # Resolve(p) /\ Blank(ns, d) => Blank(m, d)
<1>1. PICK n \in DOMAIN ns : NowListed(ns, p, entries, m, n)
  BY ListedPane
<1>2. /\ Resolve(n) = Resolve(p) /\ ShownIn(m, n) = {e.path : e \in entries}
      /\ \A x \in ShownIn(m, n) : m[x].dir = (Entry(x, "dir") \in entries)
      /\ \A x \in DOMAIN m : x # n /\ m[x].loaded => x \in DOMAIN ns /\ ns[x].loaded
      /\ \A x \in DOMAIN m : x # n /\ x \in DOMAIN ns =>
           /\ Resolve(x) # Resolve(n) /\ ShownIn(m, x) = ShownIn(ns, x)
           /\ \A y \in ShownIn(ns, x) : m[y].dir = ns[y].dir
  BY <1>1, Zenon DEF NowListed
<1>3. ASSUME NEW t, entries = Snapshot(t, Resolve(p)) PROVE Shows(m, t, Resolve(p))
  <2> SUFFICES ASSUME NEW x \in DOMAIN m, m[x].loaded, Resolve(x) = Resolve(p)
               PROVE  /\ ShownIn(m, x) = Children(t, Resolve(p))
                      /\ \A y \in ShownIn(m, x) : m[y].dir = DirAt(t, y)
    BY DEF Shows
  <2>1. x = n
    BY <1>2
  <2>2. \A y, k : Entry(y, k).path = y /\ Entry(y, k).kind = k
    BY DEF Entry
  <2>3. ShownIn(m, n) = Children(t, Resolve(p))
    BY <1>2, <1>3, <2>2 DEF Snapshot
  <2>4. ASSUME NEW y \in ShownIn(m, n) PROVE (Entry(y, "dir") \in entries) = DirAt(t, y)
    <3>1. y \in Children(t, Resolve(p)) /\ y \in DOMAIN t
      BY <2>3 DEF Children
    <3>2. ASSUME Entry(y, "dir") \in entries PROVE t[y].kind = "dir"
      <4>1. PICK z \in Children(t, Resolve(p)) : Entry(y, "dir") = Entry(z, t[z].kind)
        BY <1>3, <3>2 DEF Snapshot
      <4> QED BY <2>2, <4>1
    <3>3. ASSUME t[y].kind = "dir" PROVE Entry(y, "dir") \in entries
      BY <1>3, <3>1, <3>3 DEF Snapshot
    <3> QED BY <3>1, <3>2, <3>3 DEF DirAt
  <2>5. \A y \in ShownIn(m, n) : m[y].dir = DirAt(t, y)
    BY <1>2, <2>4, Zenon
  <2> QED BY <2>1, <2>3, <2>5
<1>4. ASSUME NEW t, NEW d, d # Resolve(p), Shows(ns, t, d) PROVE Shows(m, t, d)
  <2> SUFFICES ASSUME NEW x \in DOMAIN m, m[x].loaded, Resolve(x) = d
               PROVE  /\ ShownIn(m, x) = Children(t, d)
                      /\ \A y \in ShownIn(m, x) : m[y].dir = DirAt(t, y)
    BY DEF Shows
  <2>1. x # n /\ x \in DOMAIN ns /\ ns[x].loaded
    BY <1>2, <1>4
  <2>2. /\ ShownIn(m, x) = ShownIn(ns, x)
        /\ \A y \in ShownIn(ns, x) : m[y].dir = ns[y].dir
    BY <1>2, <2>1, Zenon
  <2>3. /\ ShownIn(ns, x) = Children(t, d)
        /\ \A y \in ShownIn(ns, x) : ns[y].dir = DirAt(t, y)
    BY <1>4, <2>1, Zenon DEF Shows
  <2> QED BY <2>2, <2>3, Zenon
<1>5. ASSUME NEW d, d # Resolve(p), Blank(ns, d) PROVE Blank(m, d)
  BY <1>2, <1>5 DEF Blank
<1> QED BY <1>3, <1>4, <1>5

(***************************************************************************)
(* What a change of the server's files is to the directories               *)
(***************************************************************************)
SameAt(t, u, d) == Children(u, d) = Children(t, d) /\ \A p \in Children(t, d) : u[p] = t[p]

\* From t to u, a directory of which nothing is lost stays, and is the same or
\* one of those that are to be listed.
Follows(t, u, lost, relisted) ==
  \A d \in Seq(Name) \ lost :
    DirAt(t, d) => DirAt(u, d) /\ (SameAt(t, u, d) \/ d \in relisted)

LEMMA SameShows ==
  ASSUME NEW t, NEW u, NEW d, SameAt(t, u, d)
  PROVE  Snapshot(u, d) = Snapshot(t, d) /\ \A ns : Shows(ns, t, d) => Shows(ns, u, d)
<1>1. Children(u, d) = Children(t, d) /\ \A p \in Children(t, d) : u[p] = t[p]
  BY DEF SameAt
<1>2. \A p \in Children(t, d) : DirAt(u, p) = DirAt(t, p)
  BY <1>1 DEF Children, DirAt
<1>3. Snapshot(u, d) = Snapshot(t, d)
  BY <1>1 DEF Snapshot
<1>4. ASSUME NEW ns, Shows(ns, t, d), NEW n \in DOMAIN ns, ns[n].loaded, Resolve(n) = d
      PROVE  /\ ShownIn(ns, n) = Children(u, d)
             /\ \A p \in ShownIn(ns, n) : ns[p].dir = DirAt(u, p)
  <2>1. /\ ShownIn(ns, n) = Children(t, d)
        /\ \A p \in ShownIn(ns, n) : ns[p].dir = DirAt(t, p)
    BY <1>4, Zenon DEF Shows
  <2> QED BY <1>1, <1>2, <2>1, Zenon
<1>5. ASSUME NEW ns, Shows(ns, t, d) PROVE Shows(ns, u, d)
  BY <1>4, <1>5, Zenon DEF Shows
<1> QED BY <1>3, <1>5

LEMMA PutFollows ==
  ASSUME NEW t, NEW p, NEW n, FileAt(t, p) \/ p \notin DOMAIN t, NEW lost
  PROVE  Follows(t, Put(t, p, n), lost, {Parent(p)})
<1> DEFINE u == Put(t, p, n)
<1>1. DOMAIN u = DOMAIN t \cup {p} /\ \A q \in DOMAIN u : q # p => u[q] = t[q]
  BY DEF Put
<1> HIDE DEF u
<1>2. ASSUME NEW d, DirAt(t, d) PROVE DirAt(u, d)
  <2>1. d # p
    BY <1>2 DEF DirAt, FileAt
  <2> QED BY <1>1, <1>2, <2>1 DEF DirAt
<1>3. ASSUME NEW d, d # Parent(p) PROVE SameAt(t, u, d)
  <2>1. \A q : q # <<>> /\ Front(q) = d => q # p
    BY <1>3 DEF Parent
  <2>2. Children(t, d) = {q \in DOMAIN t : q # <<>> /\ Front(q) = d}
    BY DEF Children
  <2>3. Children(u, d) = {q \in DOMAIN u : q # <<>> /\ Front(q) = d}
    BY DEF Children
  <2> QED BY <1>1, <2>1, <2>2, <2>3 DEF SameAt
<1>4. Follows(t, u, lost, {Parent(p)})
  BY <1>2, <1>3 DEF Follows
<1> QED BY <1>4 DEF u

\* What is removed leaves the directories it was not in as they are.
LEMMA WithoutFollows ==
  ASSUME NEW t, NEW S, NEW lost, NEW relisted, S \subseteq lost,
         \A p \in S : Parent(p) \in lost \cup relisted
  PROVE  Follows(t, Without(t, S), lost, relisted)
<1> DEFINE u == Without(t, S)
<1>1. DOMAIN u = DOMAIN t \ S /\ \A q \in DOMAIN u : u[q] = t[q]
  BY DEF Without, Restrict
<1> HIDE DEF u
<1>2. ASSUME NEW d, d \notin lost, DirAt(t, d) PROVE DirAt(u, d)
  BY <1>1, <1>2 DEF DirAt
<1>3. ASSUME NEW d, d \notin lost, d \notin relisted PROVE SameAt(t, u, d)
  <2>1. \A q \in S : q # <<>> => Front(q) # d
    BY <1>3 DEF Parent
  <2>2. Children(t, d) = {q \in DOMAIN t : q # <<>> /\ Front(q) = d}
    BY DEF Children
  <2>3. Children(u, d) = {q \in DOMAIN u : q # <<>> /\ Front(q) = d}
    BY DEF Children
  <2> QED BY <1>1, <2>1, <2>2, <2>3 DEF SameAt
<1>4. Follows(t, u, lost, relisted)
  BY <1>2, <1>3 DEF Follows
<1> QED BY <1>4 DEF u

\* All that lies at or below a path, whose directory is listed.
LEMMA RemovedFollows ==
  ASSUME NEW t, IsTree(t), NEW path \in Path, path # <<>>, NEW lost,
         Within(path, DOMAIN t) \subseteq lost
  PROVE  Follows(t, Without(t, Within(path, DOMAIN t)), lost, {Parent(path)})
<1> DEFINE S == Within(path, DOMAIN t)
<1>1. DOMAIN t \subseteq Seq(Name) /\ path \in Seq(Name)
  BY Paths DEF IsTree, TreeOf
<1>2. \A p \in DOMAIN t : DirAt(t, Parent(p))
  BY DEF IsTree, TreeOf, WellFormed
<1>3. S = {p \in DOMAIN t : IsPrefix(path, p)}
  BY DEF Within
<1>4. ASSUME NEW p \in S PROVE Parent(p) \in lost \cup {Parent(path)}
  <2> SUFFICES ASSUME p # path PROVE Parent(p) \in lost
    OBVIOUS
  <2>1. p # <<>>
    <3>1. <<>> \in Seq(Name) /\ IsPrefix(<<>>, path)
      BY <1>1, PrefixTransitive
    <3> QED BY <1>1, <1>3, <3>1, PrefixTransitive
  <2>2. IsPrefix(path, Front(p)) /\ Parent(p) = Front(p)
    BY <1>1, <1>3, <2>1, PrefixOfFront DEF Parent
  <2>3. Front(p) \in DOMAIN t
    BY <1>2, <1>3, <2>2 DEF DirAt
  <2> QED BY <1>3, <2>2, <2>3
<1> HIDE DEF S
<1>5. Follows(t, Without(t, S), lost, {Parent(path)})
  BY <1>4, WithoutFollows DEF S
<1> QED BY <1>5 DEF S

LEMMA MovedFollows ==
  ASSUME NEW t, IsTree(t), NEW from \in DOMAIN t, NEW to \in Path, to # <<>>, from # <<>>,
         to \in DOMAIN t => t[to] # Dir,
         NEW lost, Within(from, DOMAIN t) \subseteq lost
  PROVE  Follows(t, Moved(t, from, to), lost, {Parent(from), Parent(to)})
<1> DEFINE M == Rebased(DOMAIN t, from, to)
           W == Within(from, DOMAIN t)
           u == Moved(t, from, to)
<1>1. u = [q \in M \cup (DOMAIN t \ W) |-> IF q \in M THEN t[Rebase(q, to, from)] ELSE t[q]]
  BY DEF Moved
<1>2. /\ DOMAIN t \subseteq Seq(Name) /\ from \in Seq(Name) /\ to \in Seq(Name)
      /\ \A q \in DOMAIN t : t[q] \in Node
  BY Paths DEF IsTree, TreeOf
<1>3. W = {p \in DOMAIN t : IsPrefix(from, p)} /\ M = {Rebase(p, from, to) : p \in W}
  BY DEF Within, Rebased
<1> HIDE DEF M, W, u
<1>4. \A q \in M : q \in Seq(Name) /\ IsPrefix(to, q)
  BY <1>2, <1>3, RebasedPaths
<1>5. \A n \in Node : n.kind = "dir" => n = Dir
  BY DEF Node, Dir, File, Link
<1>6. \A p \in DOMAIN t : DirAt(t, p) => ~IsPrefix(to, p)
  BY <1>2, <1>5, Paths, DirectoriesAbove DEF DirAt, IsTree
<1>7. DOMAIN u = M \cup (DOMAIN t \ W) /\ \A q \in DOMAIN u : q \notin M => u[q] = t[q]
  BY <1>1
<1> SUFFICES ASSUME NEW d \in Seq(Name), d \notin lost, DirAt(t, d)
             PROVE  DirAt(u, d) /\ (SameAt(t, u, d) \/ d \in {Parent(from), Parent(to)})
  BY DEF Follows, u
<1>8. d \in DOMAIN t /\ d \notin W /\ ~IsPrefix(to, d) /\ ~IsPrefix(from, d)
  BY <1>3, <1>6 DEF DirAt, W
<1>9. DirAt(u, d)
  BY <1>4, <1>7, <1>8 DEF DirAt
<1>10. ASSUME d # Parent(from), d # Parent(to) PROVE SameAt(t, u, d)
  <2>1. \A q \in Seq(Name) : q # <<>> /\ Front(q) = d => ~IsPrefix(from, q) /\ ~IsPrefix(to, q)
    <3> SUFFICES ASSUME NEW q \in Seq(Name), q # <<>>, Front(q) = d
                 PROVE  ~IsPrefix(from, q) /\ ~IsPrefix(to, q)
      OBVIOUS
    <3>1. from # q /\ to # q
      BY <1>10 DEF Parent
    <3> QED BY <1>2, <1>8, <3>1, PrefixOfFront
  <2>2. Children(t, d) = {q \in DOMAIN t : q # <<>> /\ Front(q) = d}
    BY DEF Children
  <2>3. Children(u, d) = {q \in DOMAIN u : q # <<>> /\ Front(q) = d}
    BY DEF Children
  <2>4. \A q \in Children(t, d) : q \in DOMAIN u /\ q \notin M
    BY <1>2, <1>3, <1>4, <1>7, <2>1, <2>2
  <2>5. \A q \in Children(u, d) : q \in DOMAIN t
    BY <1>4, <1>7, <2>1, <2>3
  <2> QED BY <1>7, <2>2, <2>3, <2>4, <2>5 DEF SameAt
<1> QED BY <1>9, <1>10

(***************************************************************************)
(* What the pane shows is what the server has                              *)
(***************************************************************************)
\* The last listing of d that has come, or else the pane, tells what there is.
UpToDate(ns, q, t, d) ==
  (Quiet(q, d) /\ Shows(ns, t, d)) \/ Tells(q, d, Snapshot(t, d))

FreshAt(ns, q, t, d) ==
  /\ DirAt(t, d) => WillHear(q, d) \/ UpToDate(ns, q, t, d)
  /\ ~DirAt(t, d) => Quiet(q, d) /\ Blank(ns, d)

AllFresh(ns, q, t, lost) == \A d \in Seq(Name) \ lost : FreshAt(ns, q, t, d)
Remembered(ns, q) == ForgottenFirst(q) /\ (AllKnown(q) \/ NoneLoaded(ns))

TreeInv == Remembered(nodes, queue) /\ AllFresh(nodes, queue, server, unseen)

LEMMA NothingHeard ==
  ASSUME NEW ns, NEW q, NoneLoaded(ns), \A d : Quiet(q, d)
  PROVE  \A t, lost : AllFresh(ns, q, t, lost)
BY NothingShown DEF AllFresh, FreshAt, UpToDate


LEMMA TreeKept ==
  ASSUME NEW ns, NEW ms, NEW q, NEW r, NEW t, NEW lost, NEW more,
         Remembered(ns, q), AllFresh(ns, q, t, lost),
         QueueKeeps(q, r), PaneKeeps(ns, ms), lost \subseteq more
  PROVE  Remembered(ms, r) /\ AllFresh(ms, r, t, more)
<1>1. Remembered(ms, r)
  BY DEF Remembered, QueueKeeps, PaneKeeps
<1>2. ASSUME NEW d \in Seq(Name) \ more PROVE FreshAt(ms, r, t, d)
  <2>1. FreshAt(ns, q, t, d)
    BY DEF AllFresh
  <2>2. /\ Quiet(q, d) => Quiet(r, d)
        /\ \A E : Tells(q, d, E) => Tells(r, d, E)
        /\ WillHear(q, d) => WillHear(r, d)
    BY DEF QueueKeeps
  <2>3. (Shows(ns, t, d) => Shows(ms, t, d)) /\ (Blank(ns, d) => Blank(ms, d))
    BY DEF PaneKeeps
  <2> QED BY <2>1, <2>2, <2>3 DEF FreshAt, UpToDate
<1> QED BY <1>1, <1>2 DEF AllFresh

LEMMA Untouched == (\A ns : PaneKeeps(ns, ns)) /\ (\A q : QueueKeeps(q, q))
BY DEF PaneKeeps, QueueKeeps

\* r answers x, which no listing is lost for but those of lost, and after which
\* those of relisted are asked for.
Settles(x, r, lost, relisted) ==
  /\ r.answer # Pending /\ r.known = x.known /\ r.op = x.op /\ r.path = x.path
  /\ \A d : ~Hears(r, d)
  /\ \A d : Lists(x, d) => d \in lost
  /\ \A d \in relisted : Lists(r, d)

\* A request is answered with anything but a listing.
LEMMA ServedTree ==
  ASSUME NEW q \in Seq(Good), NEW n \in 1..Len(q), Split(q, n - 1), q[n].answer = Pending,
         NEW r \in Good, NEW s, s = [q EXCEPT ![n] = r],
         NEW ns, NEW t, NEW u, NEW lost, NEW more, NEW relisted, lost \subseteq more,
         Remembered(ns, q), AllFresh(ns, q, t, lost), Follows(t, u, more, relisted),
         Settles(q[n], r, more, relisted)
  PROVE  Remembered(ns, s) /\ AllFresh(ns, s, u, more)
<1>0. /\ r.answer # Pending /\ r.known = q[n].known /\ r.op = q[n].op /\ r.path = q[n].path
      /\ \A d : ~Hears(r, d)
      /\ \A d : Lists(q[n], d) => d \in more
      /\ \A d \in relisted : Lists(r, d)
  BY DEF Settles
<1>1. /\ \A d : Quiet(q, d) => Quiet(s, d)
      /\ \A d, E : Tells(q, d, E) => Tells(s, d, E)
      /\ \A d : WillHear(q, d) => WillHear(s, d) \/ Lists(q[n], d)
      /\ \A d : Lists(r, d) => WillHear(s, d)
      /\ ForgottenFirst(q) => ForgottenFirst(s)
      /\ AllKnown(q) => AllKnown(s)
  <2>1. /\ \A d : ~Hears(r, d) => (Quiet(q, d) => Quiet(s, d))
        /\ \A d, E : ~Hears(r, d) /\ Tells(q, d, E) => Tells(s, d, E)
        /\ \A d : WillHear(q, d) => WillHear(s, d) \/ Lists(q[n], d)
        /\ \A d : Lists(r, d) => WillHear(s, d)
        /\ ForgottenFirst(q) => ForgottenFirst(s)
        /\ AllKnown(q) => AllKnown(s)
    BY <1>0, AnsweredKeeps
  <2> QED BY <1>0, <2>1
<1>2. Remembered(ns, s)
  BY <1>1 DEF Remembered
<1>3. ASSUME NEW d \in Seq(Name) \ more PROVE FreshAt(ns, s, u, d)
  <2>1. FreshAt(ns, q, t, d) /\ ~Lists(q[n], d)
    BY <1>0 DEF AllFresh
  <2>2. DirAt(t, d) => DirAt(u, d) /\ (SameAt(t, u, d) \/ d \in relisted)
    BY DEF Follows
  <2>3. CASE ~DirAt(t, d)
    <3>1. Quiet(s, d) /\ Blank(ns, d)
      BY <1>1, <2>1, <2>3 DEF FreshAt
    <3>2. Shows(ns, u, d)
      BY <3>1 DEF Blank, Shows
    <3> QED BY <3>1, <3>2 DEF FreshAt, UpToDate
  <2>4. CASE DirAt(t, d) /\ d \in relisted
    BY <1>0, <1>1, <2>2, <2>4 DEF FreshAt
  <2>5. CASE DirAt(t, d) /\ SameAt(t, u, d)
    <3>1. Snapshot(u, d) = Snapshot(t, d) /\ (Shows(ns, t, d) => Shows(ns, u, d))
      BY <2>5, SameShows
    <3> QED BY <1>1, <2>1, <2>2, <2>5, <3>1 DEF FreshAt, UpToDate
  <2> QED BY <2>2, <2>3, <2>4, <2>5
<1> QED BY <1>2, <1>3 DEF AllFresh

\* What is answered and has been forgotten comes after nothing that is known.
LEMMA Unheard ==
  ASSUME NEW q \in Seq(Good), NEW n \in 1..Len(q), Split(q, n - 1), ForgottenFirst(q),
         IsRequest(q[n]), ~q[n].known
  PROVE  (\A d : Quiet(q, d)) /\ ~AllKnown(q)
<1>1. ASSUME NEW d, NEW i \in Heard(q, d) PROVE FALSE
  <2>1. i \in 1..Len(q) /\ q[i].known /\ IsRequest(q[i]) /\ q[i].answer # Pending
    BY DEF Heard, Hears, IsRequest, LinkOps, States
  <2>2. n < i
    BY <2>1 DEF ForgottenFirst
  <2>3. i <= n - 1
    BY <2>1 DEF Split
  <2> QED BY <2>1, <2>2, <2>3
<1> QED BY <1>1 DEF Quiet, AllKnown

\* An answer is taken in that says nothing, or after which more is asked for.
LEMMA TookKeeps ==
  ASSUME NEW q \in Seq(Good), q # <<>>, NEW more \in Seq(Good), NEW r, r = Tail(q) \o more,
         \A i \in 1..Len(more) : more[i].answer = Pending /\ more[i].known = TRUE,
         \A d : ~Hears(q[1], d),
         \A d : Lists(q[1], d) =>
           \E i \in 1..Len(more) : more[i].op = "list" /\ Resolve(more[i].path) = d
  PROVE  QueueKeeps(q, r)
<1>1. PICK rest \in Seq(Good) : rest = Tail(q)
  BY HeadTailProperties
<1>2. /\ \A d : Quiet(q, d) => Quiet(rest, d)
      /\ \A d, E : Tells(q, d, E) => Tells(rest, d, E)
      /\ \A d : WillHear(q, d) => WillHear(rest, d) \/ Lists(q[1], d)
      /\ ForgottenFirst(q) => ForgottenFirst(rest)
      /\ AllKnown(q) => AllKnown(rest)
  <2>1. /\ \A d : Quiet(q, d) => Quiet(rest, d)
        /\ \A d, E : Tells(q, d, E) /\ ~Hears(q[1], d) => Tells(rest, d, E)
        /\ \A d : WillHear(q, d) => WillHear(rest, d) \/ Lists(q[1], d)
        /\ ForgottenFirst(q) => ForgottenFirst(rest)
        /\ AllKnown(q) => AllKnown(rest)
    BY <1>1, TakenKeeps
  <2> QED BY <2>1
<1>3. /\ QueueKeeps(rest, rest \o more)
      /\ \A i \in 1..Len(more) :
           more[i].op = "list" => WillHear(rest \o more, Resolve(more[i].path))
  BY AskedKeeps
<1>4. r = rest \o more
  BY <1>1
<1> HIDE DEF QueueKeeps
<1>5. QueueKeeps(rest, r) /\ \A d : Lists(q[1], d) => WillHear(r, d)
  BY <1>3, <1>4
<1> QED BY <1>2, <1>5 DEF QueueKeeps

LEMMA TreeStays ==
  ASSUME TreeInv, QueueKeeps(queue, queue'), PaneKeeps(nodes, nodes'), server' = server,
         unseen \subseteq unseen'
  PROVE  TreeInv'
<1>1. Remembered(nodes', queue') /\ AllFresh(nodes', queue', server, unseen')
  BY TreeKept DEF TreeInv
<1> QED BY <1>1 DEF TreeInv

\* One more request, as the user makes it.
LEMMA OneAsked ==
  ASSUME NEW q \in Seq(Good), NEW item \in Good, item.answer = Pending, item.known = TRUE
  PROVE  QueueKeeps(q, q \o <<item>>)
<1> DEFINE items == <<item>>
<1>1. items \in Seq(Good) /\ Len(items) = 1 /\ \A i \in 1..Len(items) : items[i] = item
  OBVIOUS
<1> HIDE DEF items
<1>2. \A i \in 1..Len(items) : items[i].answer = Pending /\ items[i].known = TRUE
  BY <1>1
<1>3. QueueKeeps(q, q \o items)
  BY <1>1, <1>2, AskedKeeps
<1> QED BY <1>3 DEF items

LEMMA QueueFits ==
  ASSUME IInv
  PROVE  /\ queue \in Seq(Good) /\ InOrder(queue) /\ NodesTyped(nodes)
         /\ Next1 \in 1..Len(queue) + 1 /\ Split(queue, Next1 - 1)
         /\ Unanswered # {} =>
              Next1 \in 1..Len(queue) /\ Request \in Good /\ Request.answer = Pending
BY Served DEF IInv, WaitersFit, InOrder, NodesSafe

LEMMA LinkTree ==
  ASSUME IInv, TreeInv, Connect \/ Disconnect
  PROVE  TreeInv'
<1>1. PICK op \in {"connect", "disconnect"} : queue' = Append(queue, Item(op, Root))
  BY DEF Connect, Disconnect
<1>2. PICK item \in Requests : /\ item = Item(op, Root) /\ item.op = op /\ item.answer = Pending
                               /\ item.known = TRUE
  BY NewItem DEF Place, Commands
<1>3. item \in Good
  BY <1>1, <1>2 DEF Good, Fits, Mutations
<1>4. queue' = queue \o <<item>>
  BY <1>1, <1>2, <1>3, QueueFits, AppendIsConcat
<1>5. QueueKeeps(queue, queue')
  BY <1>2, <1>3, <1>4, QueueFits, OneAsked
<1>6. nodes' = nodes /\ server' = server /\ unseen' = unseen
  BY DEF Connect, Disconnect, remote, pane
<1> QED BY <1>5, <1>6, Untouched, TreeStays

LEMMA DropTree ==
  ASSUME IInv, TreeInv, Drop
  PROVE  TreeInv'
<1>1. PICK n \in 1..Len(queue) + 1 : n = Next1
  BY QueueFits
<1>2. PICK r \in Good : r = State("down") /\ r.op \in LinkOps
  BY NewState DEF States, LinkOps
<1>3. queue' = InsertAt(queue, n, r)
  BY <1>1, <1>2 DEF Drop, Next1
<1>4. QueueKeeps(queue, queue')
  BY <1>2, <1>3, QueueFits, LinkInserted
<1>5. nodes' = nodes /\ server' = server /\ unseen' = unseen
  BY DEF Drop, pane
<1> QED BY <1>4, <1>5, Untouched, TreeStays

LEMMA ServeLinkTree ==
  ASSUME IInv, TreeInv, ServeLink
  PROVE  TreeInv'
<1>1. PICK n \in 1..Len(queue) : n = Next1
  BY QueueFits DEF ServeLink, Waiting
<1>2. queue[n].op \in LinkOps
  BY <1>1 DEF ServeLink, Waiting, Request, LinkOps
<1>3. QueueKeeps(queue, queue')
  <2>1. CASE queue' = RemoveAt(queue, n)
    BY <1>2, <2>1, QueueFits, LinkRemoved
  <2>2. CASE queue' # RemoveAt(queue, n)
    <3>1. PICK s \in States : queue' = [queue EXCEPT ![n] = State(s)]
      BY <1>1, <2>2 DEF ServeLink, States
    <3>2. PICK r \in Good : r = State(s) /\ r.op \in LinkOps
      BY NewState DEF LinkOps
    <3>3. queue' = [queue EXCEPT ![n] = r]
      BY <3>1, <3>2
    <3> QED BY <1>2, <3>2, <3>3, QueueFits, LinkReplaced
  <2> QED BY <2>1, <2>2
<1>4. nodes' = nodes /\ server' = server /\ unseen' = unseen
  BY DEF ServeLink, pane
<1> QED BY <1>3, <1>4, Untouched, TreeStays

(***************************************************************************)
(* The driver's answers                                                    *)
(***************************************************************************)
\* The request that is answered, and the answer.
LEMMA ReplyIs ==
  ASSUME IInv, Unanswered # {}, NEW answer \in Answers \ {Pending}, Reply(answer),
         answer # Error /\ Request.op = "list" =>
           answer.kind = "listing"
           /\ \A e \in answer.entries : e.path # Home /\ Front(e.path) = Resolve(Request.path),
         answer # Error /\ Request.op = "open" => answer.kind = "content"
  PROVE  \E n \in 1..Len(queue) : \E r \in Good :
           /\ Split(queue, n - 1) /\ queue[n] = Request /\ Request.answer = Pending
           /\ Request \in Good
           /\ queue' = [queue EXCEPT ![n] = r] /\ nodes' = nodes
           /\ r.known = queue[n].known /\ r.op = queue[n].op /\ r.path = queue[n].path
           /\ r.refresh = queue[n].refresh /\ r.answer = answer
<1>1. PICK n \in 1..Len(queue) : n = Next1 /\ Split(queue, n - 1)
  BY QueueFits
<1>2. PICK old \in Good : old = queue[n] /\ old = Request /\ old.answer = Pending
  BY <1>1, QueueFits DEF Request
<1> DEFINE r == [old EXCEPT !.answer = answer]
<1>3. queue' = [queue EXCEPT ![n] = r] /\ nodes' = nodes
  BY <1>1, <1>2 DEF Reply, pane
<1>4. /\ r \in Requests /\ r.answer = answer /\ r.known = old.known /\ r.op = old.op
      /\ r.path = old.path /\ r.to = old.to /\ r.refresh = old.refresh
  BY <1>2 DEF Good, Requests
<1> HIDE DEF r
<1>5. Fits(r)
  <2>1. Fits(old)
    BY DEF Good
  <2> QED BY <1>2, <1>4, <2>1 DEF Fits, Relists
<1>6. r \in Good
  BY <1>4, <1>5 DEF Good
<1> QED BY <1>1, <1>2, <1>3, <1>4, <1>6

\* Of a request that has been forgotten the answer does not matter.
LEMMA UnheardTree ==
  ASSUME IInv, TreeInv, NEW n \in 1..Len(queue), Split(queue, n - 1), queue[n].answer = Pending,
         IsRequest(queue[n]), ~queue[n].known, NEW r \in Good, r.answer # Pending,
         queue' = [queue EXCEPT ![n] = r], nodes' = nodes,
         r.known = queue[n].known, r.op = queue[n].op, r.path = queue[n].path
  PROVE  TreeInv'
<1>1. queue \in Seq(Good) /\ ForgottenFirst(queue)
  BY QueueFits DEF TreeInv, Remembered
<1>2. (\A d : Quiet(queue, d)) /\ ~AllKnown(queue)
  BY <1>1, Unheard
<1>3. NoneLoaded(nodes)
  BY <1>2 DEF TreeInv, Remembered
<1>4. \A d : ~Hears(r, d)
  BY DEF Hears
<1>5. PICK s : s = queue'
  OBVIOUS
<1>6. /\ \A d : ~Hears(r, d) => (Quiet(queue, d) => Quiet(s, d))
      /\ ForgottenFirst(queue) => ForgottenFirst(s)
  BY <1>1, <1>5, AnsweredKeeps
<1>7. (\A d : Quiet(s, d)) /\ ForgottenFirst(s)
  BY <1>1, <1>2, <1>4, <1>6
<1> QED BY <1>3, <1>5, <1>7, NothingHeard DEF TreeInv, Remembered

LEMMA ServeListTree ==
  ASSUME IInv, TreeInv, ServeList
  PROVE  TreeInv'
<1> DEFINE d == Resolve(Request.path)
           entries == {Entry(p, server[p].kind) : p \in Children(server, d)}
           answer == [kind |-> "listing", entries |-> entries]
<1>1. /\ Unanswered # {} /\ Reply(answer) /\ server' = server /\ unseen' = unseen \ {d}
      /\ Request.op = "list" /\ DirAt(server, d)
  BY DEF ServeList, Waiting
<1>2. \A e \in entries : /\ e \in [path : Path, kind : {"dir", "file", "link"}]
                         /\ e.path # Home /\ Front(e.path) = d
  BY <1>1, Listing
<1>3. answer \in Answers \ {Pending} /\ answer # Error /\ answer.kind = "listing"
      /\ answer.entries = entries
  <2> HIDE DEF entries
  <2> QED BY <1>2 DEF Answers, Pending, Error
<1>4. entries = Snapshot(server, d)
  BY DEF Snapshot
<1> HIDE DEF answer, entries, d
<1>5. PICK n \in 1..Len(queue), r \in Good :
        /\ Split(queue, n - 1) /\ queue[n] = Request /\ Request.answer = Pending
        /\ queue' = [queue EXCEPT ![n] = r] /\ nodes' = nodes
        /\ r.known = queue[n].known /\ r.op = queue[n].op /\ r.path = queue[n].path
        /\ r.answer = answer
  BY <1>1, <1>2, <1>3, ReplyIs DEF d
<1>6. CASE ~Request.known
  BY <1>1, <1>3, <1>5, <1>6, UnheardTree DEF IsRequest, LinkOps, States
<1>7. CASE Request.known
  <2>1. /\ Hears(r, d) /\ \A x : Hears(r, x) => x = d
        /\ \A x : Lists(queue[n], x) => x = d
    BY <1>1, <1>3, <1>5, <1>7 DEF Hears, Lists, d, Mutations
  <2>2. PICK s : s = queue'
    OBVIOUS
  <2>3. /\ \A x : ~Hears(r, x) => (Quiet(queue, x) => Quiet(s, x))
        /\ \A x, E : ~Hears(r, x) /\ Tells(queue, x, E) => Tells(s, x, E)
        /\ \A x : Hears(r, x) => Tells(s, x, r.answer.entries)
        /\ \A x : WillHear(queue, x) => WillHear(s, x) \/ Lists(queue[n], x)
        /\ ForgottenFirst(queue) => ForgottenFirst(s)
        /\ AllKnown(queue) => AllKnown(s)
    BY <1>3, <1>5, <2>2, QueueFits, AnsweredKeeps
  <2>4. Remembered(nodes, s)
    BY <2>3 DEF TreeInv, Remembered
  <2>5. FreshAt(nodes, s, server, d)
    BY <1>1, <1>3, <1>4, <1>5, <2>1, <2>3 DEF FreshAt, UpToDate
  <2>6. ASSUME NEW x \in Seq(Name) \ unseen', x # d PROVE FreshAt(nodes, s, server, x)
    <3>1. FreshAt(nodes, queue, server, x) /\ ~Hears(r, x) /\ ~Lists(queue[n], x)
      BY <1>1, <2>1, <2>6 DEF TreeInv, AllFresh
    <3> QED BY <2>3, <3>1 DEF FreshAt, UpToDate
  <2>7. AllFresh(nodes, s, server, unseen')
    BY <2>5, <2>6 DEF AllFresh
  <2> QED BY <1>1, <1>5, <2>2, <2>4, <2>7 DEF TreeInv
<1> QED BY <1>6, <1>7

LEMMA ServeOpenTree ==
  ASSUME IInv, TreeInv, ServeOpen
  PROVE  TreeInv'
<1> DEFINE answer == [kind |-> "content", text |-> server[Request.path].data]
<1>1. Unanswered # {} /\ Reply(answer) /\ server' = server /\ unseen' = unseen /\ Request.op = "open"
  BY DEF ServeOpen, Waiting
<1>2. server[Request.path].data \in Content
  BY <1>1, Replies, Kinds DEF ServeOpen, FileAt
<1>3. answer \in Answers \ {Pending} /\ answer.kind = "content"
  BY <1>2 DEF Answers, Pending
<1> HIDE DEF answer
<1>4. PICK n \in 1..Len(queue), r \in Good :
        /\ Split(queue, n - 1) /\ queue[n] = Request /\ Request.answer = Pending
        /\ queue' = [queue EXCEPT ![n] = r] /\ nodes' = nodes
        /\ r.known = queue[n].known /\ r.op = queue[n].op /\ r.path = queue[n].path
        /\ r.answer = answer
  BY <1>1, <1>3, ReplyIs
<1>5. \A x : ~Hears(r, x) /\ ~Lists(queue[n], x)
  BY <1>1, <1>4 DEF Hears, Lists, Mutations
<1>6. PICK s : s = queue'
  OBVIOUS
<1>7. /\ \A x : ~Hears(r, x) => (Quiet(queue, x) => Quiet(s, x))
      /\ \A x, E : ~Hears(r, x) /\ Tells(queue, x, E) => Tells(s, x, E)
      /\ \A x : WillHear(queue, x) => WillHear(s, x) \/ Lists(queue[n], x)
      /\ ForgottenFirst(queue) => ForgottenFirst(s)
      /\ AllKnown(queue) => AllKnown(s)
  BY <1>3, <1>4, <1>6, QueueFits, AnsweredKeeps
<1>8. QueueKeeps(queue, s)
  BY <1>5, <1>7 DEF QueueKeeps
<1> QED BY <1>1, <1>4, <1>6, <1>8, Untouched, TreeStays

\* The directories that are listed again when the request has been served.
Relisted(r) == {d \in Seq(Name) : Relists(r, d)}

LEMMA FollowsMore ==
  ASSUME NEW t, NEW u, NEW lost, NEW some, NEW all, Follows(t, u, lost, some),
         \A d \in some : d \in Seq(Name) => d \in all
  PROVE  Follows(t, u, lost, all)
BY DEF Follows

LEMMA EffectFollows ==
  ASSUME IInv, Unanswered # {}, Effect, Request.op \in Mutations
  PROVE  unseen \subseteq unseen' /\ Follows(server, server', unseen', Relisted(Request))
<1> DEFINE r == Request
<1>1. /\ r \in Requests /\ Fits(r) /\ IsTree(server) /\ DOMAIN server \subseteq Path
  BY Replies
<1>2. CASE r.op \in {"save", "write"}
  <2>1. /\ FileAt(server, r.path) \/ r.path \notin DOMAIN server
        /\ server' = Put(server, r.path, File(r.text)) /\ unseen' = unseen
    BY <1>2 DEF Effect
  <2>2. Follows(server, server', unseen', {Parent(r.path)})
    BY <2>1, PutFollows
  <2>3. Relists(r, Parent(r.path))
    BY <1>1, <1>2 DEF Fits, Mutations
  <2> QED BY <2>1, <2>2, <2>3, FollowsMore DEF Relisted
<1>3. CASE r.op = "mkdir"
  <2>1. /\ r.path \notin DOMAIN server
        /\ server' = Put(server, r.path, Dir) /\ unseen' = unseen
    BY <1>3 DEF Effect
  <2>2. Follows(server, server', unseen', {Parent(r.path)})
    BY <2>1, PutFollows
  <2>3. Relists(r, Parent(r.path))
    BY <1>1, <1>3 DEF Fits, Mutations
  <2> QED BY <2>1, <2>2, <2>3, FollowsMore DEF Relisted
<1>4. CASE r.op = "copy"
  <2>1. /\ FileAt(server, r.to) \/ r.to \notin DOMAIN server
        /\ server' = Put(server, r.to, server[r.path]) /\ unseen' = unseen
    BY <1>4 DEF Effect
  <2>2. Follows(server, server', unseen', {Parent(r.to)})
    BY <2>1, PutFollows
  <2>3. Relists(r, Parent(r.to))
    BY <1>1, <1>4 DEF Fits
  <2> QED BY <2>1, <2>2, <2>3, FollowsMore DEF Relisted
<1>5. CASE r.op = "rename"
  <2>1. /\ r.path \in DOMAIN server
        /\ r.to \in DOMAIN server => server[r.to] # Dir
        /\ server' = Moved(server, r.path, r.to)
        /\ unseen' = unseen \cup Within(r.path, DOMAIN server)
    BY <1>5 DEF Effect, Lost
  <2>2. /\ r.to \in Path /\ r.to # <<>> /\ r.path # <<>>
        /\ Relists(r, Parent(r.path)) /\ Relists(r, Parent(r.to))
    BY <1>1, <1>5 DEF Fits, Home, Mutations
  <2>3. PICK t, u, lost : t = server /\ u = server' /\ lost = unseen'
    OBVIOUS
  <2>4. PICK from \in DOMAIN t, to \in Path : from = r.path /\ to = r.to
    BY <2>1, <2>2, <2>3
  <2>5. /\ IsTree(t) /\ to # <<>> /\ from # <<>> /\ (to \in DOMAIN t => t[to] # Dir)
        /\ Within(from, DOMAIN t) \subseteq lost /\ u = Moved(t, from, to)
    BY <1>1, <2>1, <2>2, <2>3, <2>4
  <2>6. Follows(t, u, lost, {Parent(from), Parent(to)})
    BY <2>5, MovedFollows
  <2>7. Follows(t, u, lost, Relisted(r))
    BY <2>2, <2>4, <2>6, FollowsMore DEF Relisted
  <2> QED BY <2>1, <2>3, <2>7
<1>6. CASE r.op = "remove"
  <2>1. /\ r.path \in DOMAIN server
        /\ server' = Without(server, Within(r.path, DOMAIN server))
        /\ unseen' = unseen \cup Within(r.path, DOMAIN server)
    BY <1>6 DEF Effect, Lost
  <2>2. r.path \in Path /\ r.path # <<>> /\ Relists(r, Parent(r.path))
    BY <1>1, <1>6 DEF Fits, Home, Mutations
  <2>3. Follows(server, server', unseen', {Parent(r.path)})
    BY <1>1, <2>1, <2>2, RemovedFollows
  <2> QED BY <2>1, <2>2, <2>3, FollowsMore DEF Relisted
<1> QED BY <1>2, <1>3, <1>4, <1>5, <1>6 DEF Mutations

\* A request that has failed half way leaves the directories it has touched unseen.
LEMMA HalfFollows ==
  ASSUME IInv, Unanswered # {}, HalfRemoved \/ HalfWritten
  PROVE  unseen \subseteq unseen' /\ Follows(server, server', unseen', {})
<1>1. CASE HalfRemoved
  <2>1. PICK S : server' = Without(server, S) /\ unseen' = unseen \cup (S \cup {Parent(p) : p \in S})
    BY <1>1 DEF HalfRemoved, Lost
  <2> QED BY <2>1, WithoutFollows
<1>2. CASE HalfWritten
  <2> DEFINE p == IF Request.op = "copy" THEN Request.to ELSE Request.path
  <2>1. /\ FileAt(server, p) \/ p \notin DOMAIN server
        /\ server' = Put(server, p, File(Torn)) /\ unseen' = unseen \cup {Parent(p)}
    BY <1>2 DEF HalfWritten, Lost
  <2> HIDE DEF p
  <2>2. Follows(server, server', unseen', {Parent(p)})
    BY <2>1, PutFollows
  <2> QED BY <2>1, <2>2 DEF Follows
<1> QED BY <1>1, <1>2

LEMMA ServeMutationTree ==
  ASSUME IInv, TreeInv, ServeMutation
  PROVE  TreeInv'
<1>1. Unanswered # {} /\ Effect /\ Reply(Ok) /\ Request.op \in Mutations
  BY DEF ServeMutation, Waiting, Mutations
<1>2. Ok \in Answers \ {Pending}
  BY DEF Ok, Pending, Answers
<1>3. PICK n \in 1..Len(queue), r \in Good :
        /\ Split(queue, n - 1) /\ queue[n] = Request /\ Request.answer = Pending
        /\ queue' = [queue EXCEPT ![n] = r] /\ nodes' = nodes
        /\ r.known = queue[n].known /\ r.op = queue[n].op /\ r.path = queue[n].path
        /\ r.refresh = queue[n].refresh /\ r.answer = Ok
  BY <1>1, <1>2, ReplyIs DEF Mutations
<1>4. CASE ~Request.known
  BY <1>1, <1>2, <1>3, <1>4, UnheardTree DEF IsRequest, LinkOps, States, Mutations
<1>5. CASE Request.known
  <2>1. unseen \subseteq unseen' /\ Follows(server, server', unseen', Relisted(Request))
    BY <1>1, EffectFollows
  <2>2. Settles(queue[n], r, unseen', Relisted(Request))
    <3>1. \A d : ~Hears(r, d) /\ ~Lists(queue[n], d)
      BY <1>1, <1>3 DEF Hears, Lists, Mutations, Ok, Pending
    <3>2. \A d \in Relisted(Request) : Lists(r, d)
      BY <1>1, <1>3, <1>5 DEF Relisted, Relists, Lists
    <3> QED BY <1>2, <1>3, <3>1, <3>2 DEF Settles
  <2>4. PICK s : s = queue'
    OBVIOUS
  <2>5. PICK t, u, lost, more : t = server /\ u = server' /\ lost = unseen /\ more = unseen'
    OBVIOUS
  <2>6. Remembered(nodes, queue) /\ AllFresh(nodes, queue, t, lost)
    BY <2>5 DEF TreeInv
  <2>7. /\ s = [queue EXCEPT ![n] = r] /\ lost \subseteq more
        /\ Follows(t, u, more, Relisted(Request)) /\ Settles(queue[n], r, more, Relisted(Request))
    BY <1>3, <2>1, <2>2, <2>4, <2>5
  <2>8. queue \in Seq(Good) /\ Split(queue, n - 1) /\ queue[n].answer = Pending
    BY <1>3, QueueFits
  <2>9. Remembered(nodes, s) /\ AllFresh(nodes, s, u, more)
    BY <2>6, <2>7, <2>8, ServedTree
  <2> QED BY <1>3, <2>4, <2>5, <2>9 DEF TreeInv
<1> QED BY <1>4, <1>5

LEMMA ServeFailsTree ==
  ASSUME IInv, TreeInv, ServeFails
  PROVE  TreeInv'
<1>1. Unanswered # {} /\ Reply(Error) /\ Request.op \in Commands \ {"connect", "disconnect"}
  BY DEF ServeFails, Waiting
<1>2. Error \in Answers \ {Pending} /\ Error # Ok
  BY DEF Error, Pending, Answers, Ok
<1>3. PICK n \in 1..Len(queue), r \in Good :
        /\ Split(queue, n - 1) /\ queue[n] = Request /\ Request.answer = Pending
        /\ queue' = [queue EXCEPT ![n] = r] /\ nodes' = nodes
        /\ r.known = queue[n].known /\ r.op = queue[n].op /\ r.path = queue[n].path
        /\ r.answer = Error
  BY <1>1, <1>2, ReplyIs
<1>4. /\ unseen \subseteq unseen' /\ Follows(server, server', unseen', {})
      /\ Request.op = "list" => Resolve(Request.path) \in unseen'
  <2>1. CASE HalfRemoved \/ HalfWritten
    <3>1. Request.op # "list"
      BY <2>1 DEF HalfRemoved, HalfWritten
    <3> QED BY <1>1, <2>1, <3>1, HalfFollows
  <2>2. CASE ~(HalfRemoved \/ HalfWritten)
    <3>1. /\ server' = server /\ unseen \subseteq unseen'
          /\ Request.op = "list" => Resolve(Request.path) \in unseen'
      BY <2>2 DEF ServeFails, Lost
    <3> QED BY <3>1 DEF Follows, SameAt
  <2> QED BY <2>1, <2>2
<1>5. Settles(queue[n], r, unseen', {})
  <2>1. \A d : ~Hears(r, d) /\ (Lists(queue[n], d) => d \in unseen')
    BY <1>2, <1>3, <1>4 DEF Hears, Lists, Ok, Pending
  <2> QED BY <1>2, <1>3, <2>1 DEF Settles
<1>6. PICK s : s = queue'
  OBVIOUS
<1>7. PICK t, u, lost, more : t = server /\ u = server' /\ lost = unseen /\ more = unseen'
  OBVIOUS
<1>8. Remembered(nodes, queue) /\ AllFresh(nodes, queue, t, lost)
  BY <1>7 DEF TreeInv
<1>9. /\ s = [queue EXCEPT ![n] = r] /\ lost \subseteq more
      /\ Follows(t, u, more, {}) /\ Settles(queue[n], r, more, {})
  BY <1>3, <1>4, <1>5, <1>6, <1>7
<1>10. queue \in Seq(Good) /\ Split(queue, n - 1) /\ queue[n].answer = Pending
  BY <1>3, QueueFits
<1>11. Remembered(nodes, s) /\ AllFresh(nodes, s, u, more)
  BY <1>8, <1>9, <1>10, ServedTree
<1> QED BY <1>3, <1>6, <1>7, <1>11 DEF TreeInv

(***************************************************************************)
(* What the user does                                                      *)
(***************************************************************************)
LEMMA SubmitTree ==
  ASSUME IInv, TreeInv, NEW item \in Good, item.answer = Pending, item.known = TRUE,
         Submit(<<item>>), PaneKeeps(nodes, nodes')
  PROVE  TreeInv'
<1>1. queue' = queue \o <<item>> /\ server' = server /\ unseen' = unseen
  BY DEF Submit, remote
<1>2. QueueKeeps(queue, queue')
  BY <1>1, QueueFits, OneAsked
<1> QED BY <1>1, <1>2, TreeStays

LEMMA BrowseTree ==
  ASSUME IInv, TreeInv, Browse
  PROVE  TreeInv'
<1>1. ASSUME NEW n \in DOMAIN nodes, Expand(n) PROVE TreeInv'
  <2>1. n \in Place
    BY QueueFits, Paths DEF NodesTyped, Place
  <2>2. PICK item \in Good : item = List(n) /\ item.answer = Pending /\ item.known = TRUE
    BY <2>1, ListFits
  <2>3. Submit(<<item>>) /\ nodes' = [nodes EXCEPT ![n].loading = TRUE]
    BY <1>1, <2>2 DEF Expand
  <2>4. PaneKeeps(nodes, nodes')
    BY <2>3, QueueFits, ExpandedKeeps
  <2> QED BY <2>2, <2>3, <2>4, SubmitTree
<1>2. CASE ReloadFiles
  <2>1. PICK item \in Good : item = List(Root) /\ item.answer = Pending /\ item.known = TRUE
    BY ListFits DEF Place
  <2>2. Submit(<<item>>) /\ nodes' = Reloading
    BY <1>2, <2>1 DEF ReloadFiles
  <2>3. PaneKeeps(nodes, nodes')
    BY <2>2, ClearedShowsNothing, NothingShown
  <2> QED BY <2>1, <2>2, <2>3, SubmitTree
<1> QED BY <1>1, <1>2 DEF Browse

LEMMA QuietStep ==
  ASSUME TreeInv, UNCHANGED <<queue, nodes, server, unseen>>
  PROVE  TreeInv'
BY Untouched, TreeStays

LEMMA ChangeTree ==
  ASSUME IInv, TreeInv, Change
  PROVE  TreeInv'
<1>1. CASE AsksTo
  <2>1. PICK item \in Good : item.answer = Pending /\ item.known = TRUE /\ Mutate(item)
    BY <1>1 DEF AsksTo
  <2>2. Submit(<<item>>) /\ nodes' = nodes
    BY <2>1 DEF Mutate
  <2> QED BY <2>1, <2>2, Untouched, SubmitTree
<1>2. CASE \E p \in Shown : \E cut \in BOOLEAN : Clip(p, cut)
  BY <1>2, QuietStep DEF Clip, remote, pane
<1> QED BY <1>1, <1>2, ChangeAsks

LEMMA EditTree ==
  ASSUME IInv, TreeInv, Edit
  PROVE  TreeInv'
<1>1. ASSUME NEW p \in Shown, RequestOpen(p) PROVE TreeInv'
  <2>1. p \in Place /\ p \in Seq(Name)
    BY Offered DEF Place
  <2>2. PICK item \in Requests : /\ item = Item("open", p) /\ item.op = "open" /\ item.path = p
                                 /\ item.answer = Pending /\ item.known = TRUE
    BY <2>1, NewItem DEF Commands
  <2>3. item \in Good
    BY <2>1, <2>2 DEF Good, Fits, Mutations
  <2>4. Submit(<<item>>) /\ nodes' = nodes
    BY <1>1, <2>2 DEF RequestOpen
  <2> QED BY <2>2, <2>3, <2>4, Untouched, SubmitTree
<1>2. ASSUME NEW i \in DOMAIN docs, SaveCurrent(i) PROVE TreeInv'
  <2>1. docs \in Seq(Document)
    BY DEF IInv, WaitersFit, Safe
  <2>2. PICK d \in Document : d = docs[i]
    BY <2>1
  <2>3. PICK item \in Good : item.answer = Pending /\ item.known = TRUE /\ Submit(<<item>>)
    BY <1>2, <2>2, SaveAsks
  <2>4. nodes' = nodes
    BY <1>2 DEF SaveCurrent
  <2> QED BY <2>3, <2>4, Untouched, SubmitTree
<1>3. ASSUME NEW i \in DOMAIN docs, Type(i) \/ CloseDocument(i) PROVE TreeInv'
  BY <1>3, QuietStep DEF Type, CloseDocument, remote, pane
<1> QED BY <1>1, <1>2, <1>3 DEF Edit

(***************************************************************************)
(* The answers that are taken in                                           *)
(***************************************************************************)
LEMMA TookTree ==
  ASSUME IInv, TreeInv, queue # <<>>, NEW more \in Seq(Good), Took(more),
         \A i \in 1..Len(more) : more[i].answer = Pending /\ more[i].known = TRUE,
         \A d : ~Hears(Result, d),
         \A d : Lists(Result, d) =>
           \E i \in 1..Len(more) : more[i].op = "list" /\ Resolve(more[i].path) = d,
         PaneKeeps(nodes, nodes')
  PROVE  TreeInv'
<1>1. queue' = Tail(queue) \o more /\ server' = server /\ unseen' = unseen
  BY DEF Took, remote
<1>2. QueueKeeps(queue, queue')
  <2>1. PICK r : r = queue'
    OBVIOUS
  <2>2. Result = queue[1]
    BY DEF Result
  <2>3. QueueKeeps(queue, r)
    BY <1>1, <2>1, <2>2, QueueFits, TookKeeps
  <2> QED BY <2>1, <2>3
<1> QED BY <1>1, <1>2, TreeStays

LEMMA TakeUpTree ==
  ASSUME IInv, TreeInv, TakeUp
  PROVE  TreeInv'
<1>1. queue # <<>> /\ Result.op \in LinkOps /\ nodes' = Reloading
  BY DEF TakeUp, Arrived, LinkOps, States
<1>2. PICK item \in Good : item = List(Root) /\ item.answer = Pending /\ item.known = TRUE
  BY ListFits DEF Place
<1> DEFINE more == <<item>>
<1>3. more \in Seq(Good) /\ \A i \in 1..Len(more) : more[i] = item
  OBVIOUS
<1>4. Took(more)
  BY <1>2 DEF TakeUp
<1> HIDE DEF more
<1>5. \A d : ~Hears(Result, d) /\ ~Lists(Result, d)
  BY <1>1, LinksSayNothing
<1>6. PaneKeeps(nodes, nodes')
  BY <1>1, ClearedShowsNothing, NothingShown
<1> QED BY <1>1, <1>2, <1>3, <1>4, <1>5, <1>6, TookTree

LEMMA TakeDownTree ==
  ASSUME IInv, TreeInv, TakeDown
  PROVE  TreeInv'
<1>1. queue # <<>> /\ queue' = Forgotten(Tail(queue)) /\ nodes' = Cleared
  BY DEF TakeDown, Arrived
<1>2. PICK rest \in Seq(Good) : rest = Tail(queue)
  BY <1>1, QueueFits, HeadTailProperties
<1>3. (\A d : Quiet(Forgotten(rest), d)) /\ ForgottenFirst(Forgotten(rest))
  BY ForgottenKeeps
<1>4. (\A d : Quiet(queue', d)) /\ ForgottenFirst(queue') /\ NoneLoaded(nodes')
  BY <1>1, <1>2, <1>3, ClearedShowsNothing
<1> QED BY <1>4, NothingHeard DEF TreeInv, Remembered

\* Nothing is asked for after an answer that says nothing of a directory.
LEMMA TookNothing ==
  ASSUME IInv, TreeInv, queue # <<>>, Took(<<>>), nodes' = nodes,
         \A d : ~Hears(Result, d) /\ ~Lists(Result, d)
  PROVE  TreeInv'
<1> DEFINE more == <<>>
<1>1. more \in Seq(Good) /\ \A i \in 1..Len(more) : more[i].answer = Pending /\ more[i].known = TRUE
  OBVIOUS
<1>2. Took(more)
  OBVIOUS
<1> HIDE DEF more
<1> QED BY <1>1, <1>2, Untouched, TookTree

LEMMA TakeUnknownTree ==
  ASSUME IInv, TreeInv, TakeUnknown
  PROVE  TreeInv'
<1>1. queue # <<>> /\ ~Result.known /\ Took(<<>>) /\ nodes' = nodes
  BY DEF TakeUnknown, Arrived, pane
<1> QED BY <1>1, TookNothing DEF Hears, Lists

LEMMA TakeOpenTree ==
  ASSUME IInv, TreeInv, TakeOpen
  PROVE  TreeInv'
<1>1. queue # <<>> /\ Result.op = "open" /\ Took(<<>>) /\ nodes' = nodes
  BY DEF TakeOpen, Known, Arrived, pane
<1> QED BY <1>1, TookNothing DEF Hears, Lists, Mutations

\* After a change the directories it is about are listed again.
LEMMA RelistedTree ==
  ASSUME IInv, TreeInv, queue # <<>>, Result.op \in Mutations, Result.answer # Pending,
         Took(IF Failed THEN <<>> ELSE Listings(Result.refresh)), nodes' = nodes
  PROVE  TreeInv'
<1>1. Result \in Requests /\ Result.refresh \in Seq(Place)
  BY Taking DEF Requests
<1>2. \A d : ~Hears(Result, d)
  BY DEF Hears, Mutations
<1>3. CASE Failed
  <2>1. \A d : ~Lists(Result, d)
    BY <1>3 DEF Lists, Failed, Error, Ok, Mutations
  <2> QED BY <1>2, <1>3, <2>1, TookNothing
<1>4. CASE ~Failed
  <2> DEFINE more == Listings(Result.refresh)
  <2>1. PICK ps \in Seq(Place) : ps = Result.refresh
    BY <1>1
  <2>2. more = [i \in 1..Len(ps) |-> List(ps[i])] /\ Len(ps) \in Nat
    BY <2>1 DEF Listings
  <2>3. \A i \in 1..Len(ps) : /\ List(ps[i]) \in Good /\ List(ps[i]).op = "list"
                              /\ List(ps[i]).path = ps[i] /\ List(ps[i]).answer = Pending
                              /\ List(ps[i]).known = TRUE
    <3>1. \A p \in Place : /\ List(p) \in Good /\ List(p).op = "list" /\ List(p).path = p
                           /\ List(p).answer = Pending /\ List(p).known = TRUE
      BY ListFits
    <3>2. \A i \in 1..Len(ps) : ps[i] \in Place
      OBVIOUS
    <3> QED BY <3>1, <3>2, Zenon
  <2>4. /\ more \in Seq(Good) /\ Len(more) = Len(ps)
        /\ \A i \in 1..Len(ps) : /\ more[i].op = "list" /\ more[i].path = ps[i]
                                 /\ more[i].answer = Pending /\ more[i].known = TRUE
    BY <2>2, <2>3
  <2>5. Took(more)
    BY <1>4
  <2> HIDE DEF more
  <2>6. ASSUME NEW d, Lists(Result, d)
        PROVE  \E i \in 1..Len(more) : more[i].op = "list" /\ Resolve(more[i].path) = d
    <3>1. Relists(Result, d)
      BY <2>6 DEF Lists, Mutations
    <3>2. PICK i \in 1..Len(ps) : Resolve(ps[i]) = d
      BY <2>1, <3>1 DEF Relists
    <3> QED BY <2>4, <3>2
  <2> QED BY <1>2, <2>4, <2>5, <2>6, Untouched, TookTree
<1> QED BY <1>3, <1>4

LEMMA TakeChangeTree ==
  ASSUME IInv, TreeInv, TakeSave \/ TakeMutation
  PROVE  TreeInv'
<1>1. /\ queue # <<>> /\ Result.op \in Mutations /\ Result.answer # Pending /\ nodes' = nodes
      /\ Took(IF Failed THEN <<>> ELSE Listings(Result.refresh))
  BY DEF TakeSave, TakeMutation, Known, Arrived, Mutations, pane
<1> QED BY <1>1, RelistedTree

LEMMA TakeListingTree ==
  ASSUME IInv, TreeInv, TakeListing
  PROVE  TreeInv'
<1>1. /\ queue # <<>> /\ Result.answer # Pending /\ Result.known /\ Result.op = "list"
      /\ queue' = Tail(queue) /\ server' = server /\ unseen \subseteq unseen'
  BY DEF TakeListing, Known, Arrived
<1>2. Result \in Requests /\ Fits(Result)
  BY <1>1, Taking
<1>3. PICK p \in Place : p = Result.path
  BY <1>2 DEF Requests
<1>4. queue \in Seq(Good) /\ NodesTyped(nodes) /\ queue[1] = Result
  BY QueueFits DEF Result
<1>5. PICK q, r : q = queue /\ r = queue'
  OBVIOUS
<1>6. /\ \A d : Quiet(q, d) => Quiet(r, d)
      /\ \A d, E : Tells(q, d, E) /\ ~Hears(Result, d) => Tells(r, d, E)
      /\ \A d, E : Tells(q, d, E) =>
           Tells(r, d, E) \/ (Quiet(r, d) /\ Hears(Result, d) /\ Result.answer.entries = E)
      /\ \A d : WillHear(q, d) => WillHear(r, d) \/ Lists(Result, d)
      /\ ForgottenFirst(q) => ForgottenFirst(r)
      /\ AllKnown(q) => AllKnown(r)
      /\ ForgottenFirst(q) /\ IsRequest(Result) /\ Result.known => AllKnown(q)
  BY <1>1, <1>4, <1>5, TakenKeeps
<1>7. \A d : ~Lists(Result, d)
  BY <1>1 DEF Lists, Mutations
<1>8. Remembered(nodes', r)
  BY <1>1, <1>5, <1>6 DEF TreeInv, Remembered, IsRequest, LinkOps, States
<1>9. CASE Failed
  <2>1. \A d : ~Hears(Result, d)
    BY <1>9 DEF Hears, Failed
  <2>2. QueueKeeps(queue, queue')
    BY <1>5, <1>6, <1>7, <2>1 DEF QueueKeeps
  <2>3. nodes' = FailedToLoad(nodes, p)
    BY <1>3, <1>9 DEF TakeListing
  <2>4. PaneKeeps(nodes, nodes')
    BY <1>4, <2>3, FailedToLoadKeeps
  <2> QED BY <1>1, <2>2, <2>4, TreeStays
<1>10. CASE ~Failed
  <2> DEFINE entries == Result.answer.entries
  <2>1. /\ Result.answer \in Answers \ {Pending, Error} /\ Result.answer.kind = "listing"
        /\ \A e \in entries : e.path # Home /\ Front(e.path) = Resolve(p)
    BY <1>1, <1>2, <1>3, <1>10 DEF Fits, Failed, Requests
  <2>2. entries \subseteq [path : Path, kind : {"dir", "file", "link"}]
    BY <2>1 DEF Answers, Ok
  <2>3. nodes' = Listed(nodes, p, entries)
    BY <1>3, <1>10 DEF TakeListing
  <2>4. \A d : Hears(Result, d) <=> d = Resolve(p)
    BY <1>1, <1>3, <2>1 DEF Hears
  <2> HIDE DEF entries
  <2>5. PICK ms : ms = nodes'
    OBVIOUS
  <2>6. NodesFor(nodes, p) # {} =>
          /\ \A t : entries = Snapshot(t, Resolve(p)) => Shows(ms, t, Resolve(p))
          /\ \A t, d : d # Resolve(p) /\ Shows(nodes, t, d) => Shows(ms, t, d)
          /\ \A d : d # Resolve(p) /\ Blank(nodes, d) => Blank(ms, d)
    BY <1>4, <2>1, <2>2, <2>3, <2>5, ListedKeeps
  <2>7. NodesFor(nodes, p) = {} => ms = nodes /\ Resolve(p) \in unseen'
    <3> SUFFICES ASSUME NodesFor(nodes, p) = {} PROVE ms = nodes /\ Resolve(p) \in unseen'
      OBVIOUS
    <3>1. p # Root
      BY <1>4 DEF NodesFor, NodesTyped
    <3>2. unseen' = unseen \cup {p}
      BY <1>3 DEF TakeListing
    <3> QED BY <2>3, <2>5, <3>1, <3>2 DEF Listed, Resolve
  <2>8. ASSUME NEW d \in Seq(Name) \ unseen', d # Resolve(p) PROVE FreshAt(ms, r, server, d)
    <3>1. FreshAt(nodes, q, server, d)
      BY <1>1, <1>5 DEF TreeInv, AllFresh
    <3>2. /\ Quiet(q, d) => Quiet(r, d)
          /\ \A E : Tells(q, d, E) => Tells(r, d, E)
          /\ WillHear(q, d) => WillHear(r, d)
      BY <1>6, <1>7, <2>4, <2>8
    <3>3. /\ Shows(nodes, server, d) => Shows(ms, server, d)
          /\ Blank(nodes, d) => Blank(ms, d)
      BY <2>6, <2>7, <2>8
    <3> QED BY <3>1, <3>2, <3>3 DEF FreshAt, UpToDate
  <2>9. ASSUME NEW d \in Seq(Name) \ unseen', d = Resolve(p) PROVE FreshAt(ms, r, server, d)
    <3>1. FreshAt(nodes, q, server, d) /\ NodesFor(nodes, p) # {}
      BY <1>1, <1>5, <2>7, <2>9 DEF TreeInv, AllFresh
    <3>2. ~Quiet(q, d)
      <4>1. 1 \in 1..Len(queue)
        BY <1>1, <1>4, EmptySeq
      <4> QED BY <1>4, <1>5, <2>4, <2>9, <4>1 DEF Quiet, Heard
    <3>3. DirAt(server, d) /\ (WillHear(q, d) \/ Tells(q, d, Snapshot(server, d)))
      BY <3>1, <3>2 DEF FreshAt, UpToDate
    <3>4. CASE WillHear(q, d)
      BY <1>6, <1>7, <3>3, <3>4 DEF FreshAt
    <3>5. CASE Tells(q, d, Snapshot(server, d))
      <4>1. \/ Tells(r, d, Snapshot(server, d))
            \/ Quiet(r, d) /\ entries = Snapshot(server, d)
        BY <1>6, <3>5 DEF entries
      <4>2. entries = Snapshot(server, d) => Shows(ms, server, d)
        BY <2>6, <2>9, <3>1
      <4> QED BY <3>3, <4>1, <4>2 DEF FreshAt, UpToDate
    <3> QED BY <3>3, <3>4, <3>5
  <2>10. AllFresh(ms, r, server, unseen')
    BY <2>8, <2>9 DEF AllFresh
  <2> QED BY <1>1, <1>5, <1>8, <2>5, <2>10 DEF TreeInv
<1> QED BY <1>9, <1>10

(***************************************************************************)
(* The theorem                                                             *)
(***************************************************************************)
LEMMA InitTree == Init => TreeInv
<1> SUFFICES ASSUME Init PROVE TreeInv
  OBVIOUS
<1>1. nodes = Cleared /\ queue = <<>>
  BY DEF Init
<1>2. Len(<<>>) = 0
  OBVIOUS
<1>3. ForgottenFirst(queue) /\ \A d : Quiet(queue, d)
  BY <1>1, <1>2 DEF ForgottenFirst, Quiet, Heard
<1>4. NoneLoaded(nodes)
  BY <1>1, ClearedShowsNothing
<1> QED BY <1>3, <1>4, NothingHeard DEF TreeInv, Remembered

LEMMA NextTree == IInv /\ TreeInv /\ [Next]_vars => TreeInv'
<1> SUFFICES ASSUME IInv, TreeInv, [Next]_vars PROVE TreeInv'
  OBVIOUS
<1>1. CASE Connect \/ Disconnect
  BY <1>1, LinkTree
<1>2. CASE Drop
  BY <1>2, DropTree
<1>3. CASE Serve
  BY <1>3, ServeLinkTree, ServeListTree, ServeOpenTree, ServeMutationTree, ServeFailsTree DEF Serve
<1>4. CASE Browse
  BY <1>4, BrowseTree
<1>5. CASE Change
  BY <1>5, ChangeTree
<1>6. CASE Edit
  BY <1>6, EditTree
<1>7. CASE Take
  BY <1>7, TakeUpTree, TakeDownTree, TakeUnknownTree, TakeListingTree, TakeOpenTree, TakeChangeTree
     DEF Take
<1>8. CASE UNCHANGED vars
  BY <1>8, QuietStep DEF vars
<1> QED BY <1>1, <1>2, <1>3, <1>4, <1>5, <1>6, <1>7, <1>8 DEF Next

LEMMA TreeShows == IInv /\ TreeInv => TreeAgrees
<1> SUFFICES ASSUME IInv, TreeInv, connected, queue = <<>>, NEW n \in DOMAIN nodes, nodes[n].loaded,
                    DirAt(server, Resolve(n)), Resolve(n) \notin unseen
             PROVE  /\ ShownIn(nodes, n) = Children(server, Resolve(n))
                    /\ \A p \in ShownIn(nodes, n) : nodes[p].dir = DirAt(server, p)
  BY DEF TreeAgrees
<1>1. PICK d \in Seq(Name) : d = Resolve(n)
  BY Paths DEF IInv, ServerFits, IsTree, TreeOf, DirAt
<1>2. FreshAt(nodes, queue, server, d)
  BY <1>1 DEF TreeInv, AllFresh
<1>3. Len(queue) = 0
  OBVIOUS
<1>4. Heard(queue, d) = {} /\ ~WillHear(queue, d)
  BY <1>3 DEF Heard, WillHear
<1>5. Shows(nodes, server, d)
  BY <1>1, <1>2, <1>4 DEF FreshAt, UpToDate, Tells
<1> QED BY <1>1, <1>5, Zenon DEF Shows

\* When nothing is under way, every loaded directory shows what the server has
\* in it, but for those a failed listing, a request that failed half way or a
\* lost listing concerns, for any names, depth, bounds and order of answers.
THEOREM TreeShowsServer == Spec => []TreeAgrees
<1>1. Init => TreeInv
  BY InitTree
<1>2. IInv /\ TreeInv /\ [Next]_vars => TreeInv'
  BY NextTree
<1>3. IInv /\ TreeInv => TreeAgrees
  BY TreeShows
<1>4. Spec => []IInv
  BY AlwaysFits
<1> QED BY <1>1, <1>2, <1>3, <1>4, PTL DEF Spec
=============================================================================
