-------------------------- MODULE UiSessionProofs --------------------------
(***************************************************************************)
(* Proofs about UiSession, for any set of row keys and every value of the  *)
(* bounds: the session stays bound to its row through every edit of        *)
(* the list, the busy flags mirror the pending requests, every pending     *)
(* request is owed a result, removing a row spares the other rows, and     *)
(* controller, row and session agree once the queue is drained.            *)
(*                                                                         *)
(* Two facts make them inductive.  Keys are unique, so a row can be named  *)
(* by its key.  Request ids are unique among the pending requests and were *)
(* all handed out by the session held, so a result that is taken for one   *)
(* request is never the one another request still waits for.               *)
(***************************************************************************)
EXTENDS UiSession, SequenceTheorems, TLAPS

\* No two rows have the same key.
KeysUnique ==
  \A i, j \in DOMAIN servers : servers[i].key = servers[j].key => i = j

\* The ids of the pending requests differ, and the session held drew them.
IdsUnique ==
  /\ \A p \in pending : p.id <= answered + Len(owed)
  /\ \A p, q \in pending : p.id = q.id => p = q

ListInv == TypeOK /\ BoundServer /\ KeysUnique
TaskInv == TypeOK /\ BusyIsPending
OwedInv == TypeOK /\ IdsUnique /\ PendingIsOwed
-----------------------------------------------------------------------------
(* Sequences. *)

\* A sequence with one more element at its end.
LEMMA AppendFacts ==
  ASSUME NEW S, NEW s \in Seq(S), NEW e \in S
  PROVE  /\ Append(s, e) \in Seq(S)
         /\ Len(Append(s, e)) = Len(s) + 1
         /\ DOMAIN Append(s, e) = 1..(Len(s) + 1)
         /\ \A i \in DOMAIN s : Append(s, e)[i] = s[i]
         /\ Append(s, e)[Len(s) + 1] = e
  OBVIOUS

\* The first element of a sequence, and the sequence without it.
LEMMA TailFacts ==
  ASSUME NEW S, NEW s \in Seq(S), s # <<>>
  PROVE  /\ Head(s) \in S
         /\ Head(s) = s[1]
         /\ Len(s) \in Nat \ {0}
         /\ DOMAIN s = 1..Len(s)
         /\ Tail(s) \in Seq(S)
         /\ Len(Tail(s)) = Len(s) - 1
         /\ DOMAIN Tail(s) = 1..(Len(s) - 1)
         /\ \A i \in 1..(Len(s) - 1) : Tail(s)[i] = s[i + 1]
  OBVIOUS

\* Two sequences, one after the other.
LEMMA ConcatFacts ==
  ASSUME NEW S, NEW s \in Seq(S), NEW t \in Seq(S)
  PROVE  /\ s \o t \in Seq(S)
         /\ Len(s \o t) = Len(s) + Len(t)
         /\ \A i \in DOMAIN s : (s \o t)[i] = s[i]
         /\ \A i \in DOMAIN t : (s \o t)[Len(s) + i] = t[i]
  OBVIOUS

\* Removing a row moves the rows after it down by one.
LEMMA RemoveAtFacts ==
  ASSUME NEW S, NEW s \in Seq(S), NEW n \in DOMAIN s
  PROVE  /\ RemoveAt(s, n) \in Seq(S)
         /\ Len(RemoveAt(s, n)) = Len(s) - 1
         /\ \A i \in 1..(n - 1) : RemoveAt(s, n)[i] = s[i]
         /\ \A i \in n..(Len(s) - 1) : RemoveAt(s, n)[i] = s[i + 1]
<1> DEFINE a == SubSeq(s, 1, n - 1)
<1> DEFINE b == SubSeq(s, n + 1, Len(s))
<1>0. n \in 1..Len(s) /\ Len(s) \in Nat
  OBVIOUS
<1>1. a \in Seq(S) /\ Len(a) = n - 1 /\ \A i \in 1..(n - 1) : a[i] = s[i]
  BY <1>0
<1>2. /\ b \in Seq(S) /\ Len(b) = Len(s) - n
      /\ \A i \in 1..(Len(s) - n) : b[i] = s[n + i]
  BY <1>0
<1>3. RemoveAt(s, n) = a \o b
  BY DEF RemoveAt
<1> HIDE DEF a, b
<1>4. a \o b \in Seq(S) /\ Len(a \o b) = Len(s) - 1
  BY <1>0, <1>1, <1>2, ConcatFacts
<1>5. \A i \in 1..(n - 1) : (a \o b)[i] = s[i]
  BY <1>0, <1>1, <1>2, ConcatFacts
<1>6. ASSUME NEW i \in n..(Len(s) - 1) PROVE (a \o b)[i] = s[i + 1]
  <2>1. PICK k \in 1..(Len(s) - n) : i = (n - 1) + k
    <3>1. /\ i - n + 1 \in 1..(Len(s) - n)
          /\ i = (n - 1) + (i - n + 1)
      BY <1>0, <1>6
    <3> QED
      BY <3>1
  <2>2. (a \o b)[(n - 1) + k] = b[k]
    <3>1. k \in DOMAIN b /\ Len(a) = n - 1
      BY <1>0, <1>1, <1>2, <2>1
    <3>2. (a \o b)[Len(a) + k] = b[k]
      BY <1>1, <1>2, <3>1, ConcatFacts
    <3> QED
      BY <3>1, <3>2
  <2>3. b[k] = s[n + k] /\ n + k = i + 1
    BY <1>0, <1>2, <2>1
  <2> QED
    BY <2>1, <2>2, <2>3
<1> QED
  BY <1>3, <1>4, <1>5, <1>6
-----------------------------------------------------------------------------
\* The states and batches a session can post.
LEMMA BatchTypes ==
  ASSUME session \in Nat
  PROVE  /\ \A s \in Core!States : StateBatch(s) \in BatchType
         /\ \A c \in {"Fs", "Exec"}, n \in Nat : ResultBatch(c, n) \in BatchType
  BY DEF StateBatch, ResultBatch, BatchType, Core!States

\* The types hold at first.
LEMMA InitTypes == Init => TypeOK
<1> SUFFICES ASSUME Init PROVE TypeOK
  OBVIOUS
<1>1. servers \in Seq([key: Keys, status: Core!States])
  <2>1. PICK n \in 0..MaxServers : \E f \in [1..n -> Keys] :
          servers = [i \in 1..n |-> Row(f[i], "Idle")]
    BY DEF Init
  <2>2. PICK f \in [1..n -> Keys] : servers = [i \in 1..n |-> Row(f[i], "Idle")]
    BY <2>1
  <2> QED
    BY <2>1, <2>2, BoundsAssumption DEF Row, Core!States
<1>2. selected \in 0..Len(servers) /\ current \in 0..Len(servers)
  BY <1>1 DEF Init
<1>3. /\ connState \in Core!States /\ shown \in Core!States
      /\ owed \in Seq(Kinds) /\ queue \in Seq(BatchType)
  BY DEF Init, Core!States
<1>4. pending \subseteq [id: Nat, kind: Kinds]
  BY DEF Init
<1> QED
  BY <1>1, <1>2, <1>3, <1>4 DEF Init, TypeOK
-----------------------------------------------------------------------------
(* Types. *)

RowType == [key: Keys, status: Core!States]

\* A status changes neither the keys nor the number of the rows.
LEMMA SetStatusFacts ==
  ASSUME NEW list \in Seq(RowType), NEW i \in DOMAIN list, NEW s \in Core!States
  PROVE  /\ SetStatus(list, i, s) \in Seq(RowType)
         /\ Len(SetStatus(list, i, s)) = Len(list)
         /\ DOMAIN SetStatus(list, i, s) = DOMAIN list
         /\ \A j \in DOMAIN list : SetStatus(list, i, s)[j].key = list[j].key
<1>1. \A j \in DOMAIN list : list[j] \in RowType
  OBVIOUS
<1>2. \A j \in DOMAIN list : SetStatus(list, i, s)[j] =
        IF j = i THEN [list[j] EXCEPT !.status = s] ELSE list[j]
  BY DEF SetStatus
<1>3. \A r \in RowType : /\ [r EXCEPT !.status = s] \in RowType
                        /\ [r EXCEPT !.status = s].key = r.key
  BY DEF RowType
<1>4. DOMAIN SetStatus(list, i, s) = DOMAIN list
  BY DEF SetStatus
<1>5. \A j \in DOMAIN list : SetStatus(list, i, s)[j] \in RowType
  BY <1>1, <1>2, <1>3
<1>6. SetStatus(list, i, s) \in [1..Len(list) -> RowType]
  BY <1>4, <1>5 DEF SetStatus
<1>7. SetStatus(list, i, s) \in Seq(RowType) /\ Len(SetStatus(list, i, s)) = Len(list)
  BY <1>6
<1> QED
  BY <1>1, <1>2, <1>3, <1>4, <1>7

\* What asking for more leaves of the types, and what it leaves alone.
LEMMA AskFacts ==
  ASSUME TypeOK, NEW kinds \in Seq(Kinds), NEW keep \in SUBSET pending,
         Ask(kinds, keep)
  PROVE  /\ owed' \in Seq(Kinds)
         /\ pending' \subseteq [id: Nat, kind: Kinds]
         /\ shown' = shown /\ answered' = answered
  <1>1. owed \o kinds \in Seq(Kinds) /\ Len(owed) \in Nat /\ answered \in Nat
    BY ConcatFacts DEF TypeOK
  <1>2. \A i \in DOMAIN kinds :
          [id |-> answered + Len(owed) + i, kind |-> kinds[i]] \in [id: Nat, kind: Kinds]
    BY <1>1
  <1>3. keep \subseteq [id: Nat, kind: Kinds]
    BY DEF TypeOK
  <1> QED
    BY <1>1, <1>2, <1>3 DEF Ask

\* What an emptied session and emptied request tables look like.
LEMMA DropSessionTypes ==
  DropSession => /\ pending' \subseteq [id: Nat, kind: Kinds]
                 /\ packageBusy' \in BOOLEAN /\ snapshotBusy' \in BOOLEAN
                 /\ shown' \in Core!States
                 /\ owed' \in Seq(Kinds)
                 /\ answered' \in Nat
<1> SUFFICES ASSUME DropSession
             PROVE  /\ pending' \subseteq [id: Nat, kind: Kinds]
                    /\ packageBusy' \in BOOLEAN /\ snapshotBusy' \in BOOLEAN
                    /\ shown' \in Core!States
                    /\ owed' \in Seq(Kinds)
                    /\ answered' \in Nat
  OBVIOUS
<1>1. packageBusy' \in BOOLEAN /\ snapshotBusy' \in BOOLEAN
  BY DEF DropSession, ForgetRequests
<1>2. pending' \subseteq [id: Nat, kind: Kinds]
  BY DEF DropSession, ForgetRequests
<1>3. shown' \in Core!States
  BY DEF DropSession, Core!States
<1>4. owed' \in Seq(Kinds) /\ answered' \in Nat
  BY DEF DropSession
<1> QED
  BY <1>1, <1>2, <1>3, <1>4

\* Opening a session, or failing to, keeps the types.
LEMMA OpenTypes ==
  ASSUME TypeOK, NEW list \in Seq(RowType), NEW i \in DOMAIN list,
         Open(list, i) \/ OpenFails(list, i)
  PROVE  TypeOK'
<1>0. i \in 1..Len(list) /\ Len(list) \in Nat /\ list[i].key \in Keys
  <2>1. list[i] \in RowType
    OBVIOUS
  <2> QED
    BY <2>1 DEF RowType
<1>1. CASE Open(list, i)
  <2>1. /\ servers' \in Seq(RowType) /\ selected' \in 0..Len(servers')
        /\ current' \in 0..Len(servers') /\ endpoint' \in Keys \cup {NoKey}
        /\ created' \in Nat /\ session' \in {0, created'}
    BY <1>0, <1>1 DEF Open, TypeOK
  <2> QED
    BY <1>1, <2>1, DropSessionTypes DEF Open, TypeOK, RowType
<1>2. CASE OpenFails(list, i)
  <2>1. "Failed" \in Core!States
    BY DEF Core!States
  <2>2. servers' \in Seq(RowType) /\ Len(servers') = Len(list)
    BY <1>2, <2>1, SetStatusFacts DEF OpenFails
  <2>3. /\ selected' \in 0..Len(servers') /\ current' \in 0..Len(servers')
        /\ session' \in {0, created'}
    BY <1>0, <1>2, <2>2 DEF OpenFails, Teardown
  <2> QED
    BY <1>2, <2>2, <2>3, DropSessionTypes DEF OpenFails, Teardown, TypeOK, RowType
<1> QED
  BY <1>1, <1>2

\* setConnectionState moves no index.
LEMMA IngestStateTypes ==
  ASSUME TypeOK, IngestState
  PROVE  /\ connState' \in Core!States
         /\ connState' = Head(queue).state
         /\ servers' \in Seq(RowType) /\ Len(servers') = Len(servers)
         /\ \A i \in DOMAIN servers : servers'[i].key = servers[i].key
         /\ queue' \in Seq(BatchType)
         /\ UNCHANGED <<selected, current, endpoint, session, created>>
<1>1. /\ queue # <<>> /\ queue \in Seq(BatchType)
      /\ queue' = Tail(queue) /\ connState' = Head(queue).state
  BY DEF IngestState, Ingest, SetConnectionState, TypeOK
<1>2. Head(queue) \in BatchType /\ Tail(queue) \in Seq(BatchType)
  BY <1>1, TailFacts
<1>3. Head(queue).state \in Core!States
  BY <1>2 DEF BatchType
<1>4. servers \in Seq(RowType) /\ current \in 0..Len(servers)
  BY DEF TypeOK, RowType
<1>5. CASE current = 0
  BY <1>1, <1>2, <1>3, <1>4, <1>5 DEF IngestState, SetConnectionState, heldVars
<1>6. CASE current # 0
  <2>1. current \in DOMAIN servers
    BY <1>4, <1>6
  <2>2. servers' = SetStatus(servers, current, Head(queue).state)
    BY <1>6 DEF IngestState, SetConnectionState
  <2> QED
    BY <1>1, <1>2, <1>3, <1>4, <2>1, <2>2, SetStatusFacts
       DEF IngestState, SetConnectionState, heldVars
<1> QED
  BY <1>5, <1>6

\* The first batch of the queue and what is left after it.
LEMMA IngestTypes ==
  ASSUME TypeOK, NEW chan, Ingest(chan)
  PROVE  /\ Head(queue) \in BatchType /\ Head(queue).chan = chan
         /\ queue' \in Seq(BatchType)
  BY TailFacts DEF Ingest, TypeOK

\* The selection after a removal is in the shorter list.
LEMMA SelectedTypes ==
  ASSUME TypeOK, NEW i \in DOMAIN servers
  PROVE  SelectedWithout(i, Len(servers)) \in 0..(Len(servers) - 1)
<1>1. i \in 1..Len(servers) /\ Len(servers) \in Nat /\ selected \in 0..Len(servers)
  BY DEF TypeOK
<1>2. CASE selected = i
  BY <1>1, <1>2 DEF SelectedWithout
<1>3. CASE selected > i
  BY <1>1, <1>3 DEF SelectedWithout
<1>4. CASE selected < i
  BY <1>1, <1>4 DEF SelectedWithout
<1> QED
  BY <1>1, <1>2, <1>3, <1>4

\* Every step keeps the types.
LEMMA TypeStep == TypeOK /\ [Next]_vars => TypeOK'
<1> SUFFICES ASSUME TypeOK, [Next]_vars PROVE TypeOK'
  OBVIOUS
<1> USE DEF listVars, heldVars, requestVars, coreVars
<1>0. /\ servers \in Seq(RowType) /\ Len(servers) \in Nat /\ DOMAIN servers = 1..Len(servers)
      /\ queue \in Seq(BatchType) /\ owed \in Seq(Kinds)
      /\ session \in Nat /\ answered \in Nat
  BY DEF TypeOK, RowType
<1>1. ASSUME Reports PROVE TypeOK'
  <2>1. shown' \in Core!States
    BY <1>1 DEF Reports, Core!Report, Core!Follows, Core!States, TypeOK
  <2>2. queue' \in Seq(BatchType)
    BY <1>0, <1>1, <2>1, BatchTypes, AppendFacts DEF Reports
  <2> QED
    BY <1>1, <2>1, <2>2 DEF Reports, TypeOK
<1>2. ASSUME Answers PROVE TypeOK'
  <2>1. Head(owed) \in Kinds /\ owed' \in Seq(Kinds) /\ answered' \in Nat
    BY <1>0, <1>2, TailFacts DEF Answers
  <2>2. Channel(Head(owed)) \in {"Fs", "Exec"}
    BY DEF Channel
  <2>3. queue' \in Seq(BatchType)
    BY <1>0, <1>2, <2>1, <2>2, BatchTypes, AppendFacts DEF Answers
  <2> QED
    BY <1>2, <2>1, <2>3 DEF Answers, Core!Deliver, TypeOK
<1>3. ASSUME NEW i \in DOMAIN servers, SelectServer(i) PROVE TypeOK'
  BY <1>0, <1>3 DEF SelectServer, TypeOK
<1>4. ASSUME NEW i \in DOMAIN servers, ConnectToServer(i) PROVE TypeOK'
  BY <1>0, <1>3, <1>4, OpenTypes DEF ConnectToServer
<1>5. ASSUME NEW i \in DOMAIN servers, DeleteServer(i) PROVE TypeOK'
  <2>1. /\ servers' \in Seq(RowType) /\ Len(servers') = Len(servers) - 1
        /\ selected' \in 0..Len(servers')
    BY <1>0, <1>5, RemoveAtFacts, SelectedTypes DEF DeleteServer
  <2>2. CASE i = current
    <3>1. current' \in 0..Len(servers') /\ session' \in {0, created'}
      BY <1>0, <1>5, <2>1, <2>2 DEF DeleteServer, Teardown
    <3> QED
      BY <1>5, <2>1, <2>2, <3>1, DropSessionTypes
         DEF DeleteServer, Teardown, TypeOK, RowType, Core!States
  <2>3. CASE i # current
    <3>1. current' \in 0..Len(servers')
      BY <1>0, <1>5, <2>1, <2>3 DEF DeleteServer, TypeOK
    <3> QED
      BY <1>5, <2>1, <2>3, <3>1 DEF DeleteServer, TypeOK, RowType
  <2> QED
    BY <2>2, <2>3
<1>6. ASSUME NEW k \in Keys, ConnectToHost(k) PROVE TypeOK'
  <2> DEFINE list == Append(servers, Row(k, "Idle"))
  <2>1. Row(k, "Idle") \in RowType
    BY DEF Row, RowType, Core!States
  <2>2. list \in Seq(RowType) /\ Len(list) \in DOMAIN list
    BY <1>0, <2>1, AppendFacts
  <2>3. Open(list, Len(list)) \/ OpenFails(list, Len(list))
    BY <1>6 DEF ConnectToHost
  <2> HIDE DEF list
  <2> QED
    BY <2>2, <2>3, OpenTypes
<1>7. ASSUME NEW i \in DOMAIN servers, NEW k \in Keys, EditServer(i, k) PROVE TypeOK'
  <2>1. Row(k, "Idle") \in RowType
    BY DEF Row, RowType, Core!States
  <2>2. servers' \in Seq(RowType) /\ Len(servers') = Len(servers)
    BY <1>0, <1>7, <2>1 DEF EditServer
  <2>3. selected' \in 0..Len(servers')
    BY <1>0, <1>7, <2>2 DEF EditServer
  <2>4. CASE i = current
    <3>1. current' \in 0..Len(servers') /\ session' \in {0, created'}
      BY <1>0, <1>7, <2>2, <2>4 DEF EditServer, Teardown
    <3> QED
      BY <1>7, <2>2, <2>3, <2>4, <3>1, DropSessionTypes
         DEF EditServer, Teardown, TypeOK, RowType, Core!States
  <2>5. CASE i # current
    BY <1>7, <2>2, <2>3, <2>5 DEF EditServer, TypeOK, RowType
  <2> QED
    BY <2>4, <2>5
<1>8. ASSUME NEW kind \in Kinds, RequestFile(kind) \/ RequestPackages(kind)
      PROVE  TypeOK'
  <2>1. Ask(<<kind>>, pending) /\ packageBusy' \in BOOLEAN
    BY <1>8 DEF RequestFile, RequestPackages, TypeOK
  <2>2. <<kind>> \in Seq(Kinds)
    OBVIOUS
  <2> QED
    BY <1>8, <2>1, <2>2, AskFacts DEF RequestFile, RequestPackages, TypeOK
<1>9. ASSUME RefreshSnapshot \/ CaptureEnds PROVE TypeOK'
  <2>1. CASE Ask(<<"Snapshot">>, pending) /\ snapshotBusy' = TRUE /\ RefreshSnapshot
    <3>1. <<"Snapshot">> \in Seq(Kinds)
      BY DEF Kinds, ExecKinds
    <3> QED
      BY <2>1, <3>1, AskFacts DEF RefreshSnapshot, TypeOK
  <2>2. CASE snapshotBusy' = FALSE /\ UNCHANGED <<connState, pending, packageBusy,
               listVars, heldVars, coreVars, queue>>
    BY <2>2 DEF TypeOK
  <2> QED
    BY <1>9, <2>1, <2>2 DEF RefreshSnapshot, CaptureEnds
<1>10. ASSUME IngestConnected PROVE TypeOK'
  <2>1. /\ pending' \subseteq [id: Nat, kind: Kinds] /\ owed' \in Seq(Kinds)
        /\ UNCHANGED <<shown, answered>>
    <3>1. <<"Fetch">> \in Seq(Kinds)
      BY DEF Kinds, FsKinds
    <3>2. CASE Ask(<<"Fetch">>, pending)
      BY <3>1, <3>2, AskFacts
    <3>3. CASE UNCHANGED <<pending, coreVars>>
      BY <3>3 DEF TypeOK
    <3> QED
      BY <1>10, <3>2, <3>3 DEF IngestConnected
  <2>2. IngestState /\ UNCHANGED <<packageBusy, snapshotBusy>>
    BY <1>10 DEF IngestConnected
  <2> QED
    BY <2>1, <2>2, IngestStateTypes DEF TypeOK, RowType
<1>11. ASSUME IngestEnded PROVE TypeOK'
  <2>1. IngestState /\ ForgetRequests /\ UNCHANGED coreVars
    BY <1>11 DEF IngestEnded
  <2> QED
    BY <2>1, IngestStateTypes DEF ForgetRequests, TypeOK, RowType
<1>12. ASSUME IngestTransient PROVE TypeOK'
  <2>1. IngestState /\ UNCHANGED <<requestVars, coreVars>>
    BY <1>12 DEF IngestTransient
  <2> QED
    BY <2>1, IngestStateTypes DEF TypeOK, RowType
<1>13. ASSUME IngestUnknown PROVE TypeOK'
  BY <1>13, IngestTypes DEF IngestUnknown, TypeOK
<1>14. ASSUME IngestFile PROVE TypeOK'
  <2>1. PICK p \in pending : \E n \in 0..Refreshes(p.kind) :
          Ask([i \in 1..n |-> "Fetch"], pending \ {p})
    BY <1>14 DEF IngestFile
  <2>2. PICK n \in 0..Refreshes(p.kind) : Ask([i \in 1..n |-> "Fetch"], pending \ {p})
    BY <2>1
  <2>3. Refreshes(p.kind) \in Nat /\ "Fetch" \in Kinds
    BY DEF Refreshes, Kinds, FsKinds
  <2>4. [i \in 1..n |-> "Fetch"] \in Seq(Kinds)
    BY <2>3
  <2> QED
    BY <1>14, <2>2, <2>4, AskFacts, IngestTypes DEF IngestFile, TypeOK
<1>15. ASSUME IngestSnapshot PROVE TypeOK'
  BY <1>15, IngestTypes DEF IngestSnapshot, TypeOK
<1>16. ASSUME IngestPackages PROVE TypeOK'
  <2>1. PICK p \in pending :
          \/ packageBusy' = FALSE /\ pending' = pending \ {p} /\ UNCHANGED coreVars
          \/ packageBusy' = TRUE /\ Ask(<<"Lookup">>, pending \ {p})
    BY <1>16 DEF IngestPackages
  <2>2. <<"Lookup">> \in Seq(Kinds)
    BY DEF Kinds, ExecKinds
  <2>3. /\ pending' \subseteq [id: Nat, kind: Kinds] /\ owed' \in Seq(Kinds)
        /\ UNCHANGED <<shown, answered>>
    <3>1. CASE pending' = pending \ {p} /\ UNCHANGED coreVars
      BY <3>1 DEF TypeOK
    <3>2. CASE Ask(<<"Lookup">>, pending \ {p})
      BY <2>2, <3>2, AskFacts
    <3> QED
      BY <2>1, <3>1, <3>2
  <2>4. packageBusy' \in BOOLEAN
    BY <2>1
  <2> QED
    BY <1>16, <2>3, <2>4, IngestTypes DEF IngestPackages, TypeOK
<1>17. CASE UNCHANGED vars
  BY <1>17 DEF vars, TypeOK
<1> QED
  BY <1>1, <1>2, <1>3, <1>4, <1>5, <1>6, <1>7, <1>8, <1>9, <1>10, <1>11,
     <1>12, <1>13, <1>14, <1>15, <1>16, <1>17
     DEF Next, Session, User, UiThread
-----------------------------------------------------------------------------
(* The session and its row. *)

UniqueIn(list) ==
  \A i, j \in DOMAIN list : list[i].key = list[j].key => i = j

\* At first there is no session, and the rows differ.
LEMMA InitList == Init => ListInv
<1> SUFFICES ASSUME Init PROVE BoundServer /\ KeysUnique
  BY InitTypes DEF ListInv
<1>1. BoundServer
  BY DEF Init, BoundServer
<1>2. KeysUnique
  <2>1. PICK n \in 0..MaxServers : \E f \in [1..n -> Keys] :
          /\ \A i, j \in 1..n : f[i] = f[j] => i = j
          /\ servers = [i \in 1..n |-> Row(f[i], "Idle")]
    BY DEF Init
  <2>2. PICK f \in [1..n -> Keys] :
          /\ \A i, j \in 1..n : f[i] = f[j] => i = j
          /\ servers = [i \in 1..n |-> Row(f[i], "Idle")]
    BY <2>1
  <2> QED
    BY <2>2 DEF Row, KeysUnique
<1> QED
  BY <1>1, <1>2

\* Steps that leave the keys of the rows and what the controller holds.
LEMMA ListKept ==
  ASSUME ListInv, UNCHANGED heldVars,
         servers' \in Seq(RowType), Len(servers') = Len(servers),
         \A i \in DOMAIN servers : servers'[i].key = servers[i].key
  PROVE  BoundServer' /\ KeysUnique'
<1>1. DOMAIN servers' = DOMAIN servers
  BY DEF ListInv, TypeOK
<1> QED
  BY <1>1 DEF ListInv, BoundServer, KeysUnique, heldVars

\* A session that was just opened is bound to its row.
LEMMA OpenList ==
  ASSUME TypeOK, NEW list \in Seq(RowType), NEW i \in DOMAIN list, UniqueIn(list),
         Open(list, i) \/ OpenFails(list, i)
  PROVE  BoundServer' /\ KeysUnique'
<1>1. CASE Open(list, i)
  BY <1>1 DEF Open, TypeOK, BoundServer, KeysUnique, UniqueIn
<1>2. CASE OpenFails(list, i)
  <2>1. "Failed" \in Core!States
    BY DEF Core!States
  <2>2. /\ servers' = SetStatus(list, i, "Failed")
        /\ session' = 0 /\ current' = 0
    BY <1>2 DEF OpenFails, Teardown
  <2>3. /\ DOMAIN servers' = DOMAIN list
        /\ \A j \in DOMAIN list : servers'[j].key = list[j].key
    BY <2>1, <2>2, SetStatusFacts
  <2> QED
    BY <2>2, <2>3 DEF BoundServer, KeysUnique, UniqueIn
<1> QED
  BY <1>1, <1>2

\* The row that has number j once row n is removed.
RowBefore(j, n) == IF j < n THEN j ELSE j + 1

\* Where each row of the shorter list was before.
LEMMA RemovedRow ==
  ASSUME ListInv, NEW n \in DOMAIN servers, servers' = RemoveAt(servers, n)
  PROVE  /\ Len(servers') = Len(servers) - 1
         /\ DOMAIN servers' = 1..(Len(servers) - 1)
         /\ \A j \in DOMAIN servers' : /\ RowBefore(j, n) \in DOMAIN servers
                                       /\ servers'[j] = servers[RowBefore(j, n)]
<1>0. servers \in Seq(RowType) /\ Len(servers) \in Nat /\ DOMAIN servers = 1..Len(servers)
  BY DEF ListInv, TypeOK, RowType
<1>1. /\ servers' \in Seq(RowType) /\ Len(servers') = Len(servers) - 1
      /\ DOMAIN servers' = 1..(Len(servers) - 1)
      /\ \A i \in 1..(n - 1) : servers'[i] = servers[i]
      /\ \A i \in n..(Len(servers) - 1) : servers'[i] = servers[i + 1]
  <2>1. /\ RemoveAt(servers, n) \in Seq(RowType)
        /\ Len(RemoveAt(servers, n)) = Len(servers) - 1
        /\ \A i \in 1..(n - 1) : RemoveAt(servers, n)[i] = servers[i]
        /\ \A i \in n..(Len(servers) - 1) : RemoveAt(servers, n)[i] = servers[i + 1]
    BY <1>0, RemoveAtFacts
  <2> QED
    BY <1>0, <2>1
<1>2. ASSUME NEW j \in DOMAIN servers'
      PROVE  RowBefore(j, n) \in DOMAIN servers /\ servers'[j] = servers[RowBefore(j, n)]
  <2>0. j \in 1..(Len(servers) - 1) /\ n \in 1..Len(servers)
    BY <1>0, <1>1, <1>2
  <2>1. CASE j < n
    <3>1. j \in 1..(n - 1) /\ j \in 1..Len(servers)
      BY <1>0, <2>0, <2>1
    <3> QED
      BY <1>0, <1>1, <2>1, <3>1 DEF RowBefore
  <2>2. CASE ~(j < n)
    <3>1. j \in n..(Len(servers) - 1) /\ j + 1 \in 1..Len(servers)
      BY <1>0, <2>0, <2>2
    <3> QED
      BY <1>0, <1>1, <2>2, <3>1 DEF RowBefore
  <2> QED
    BY <2>1, <2>2
<1> QED
  BY <1>1, <1>2

\* Removing a row keeps the session bound to its own.
LEMMA DeleteList ==
  ASSUME ListInv, NEW n \in DOMAIN servers, DeleteServer(n)
  PROVE  BoundServer' /\ KeysUnique'
<1>0. Len(servers) \in Nat /\ DOMAIN servers = 1..Len(servers) /\ current \in 0..Len(servers)
  BY DEF ListInv, TypeOK
<1>2. /\ DOMAIN servers' = 1..(Len(servers) - 1)
      /\ \A j \in DOMAIN servers' : /\ RowBefore(j, n) \in DOMAIN servers
                                    /\ servers'[j] = servers[RowBefore(j, n)]
  BY RemovedRow DEF DeleteServer
<1>3. \A i, j \in DOMAIN servers' : RowBefore(i, n) = RowBefore(j, n) => i = j
  BY <1>0, <1>2 DEF RowBefore
<1>4. KeysUnique'
  BY <1>2, <1>3 DEF ListInv, KeysUnique
<1>5. CASE n = current
  BY <1>4, <1>5 DEF DeleteServer, Teardown, BoundServer
<1>6. CASE n # current
  <2>1. UNCHANGED <<session, endpoint>>
        /\ current' = IF current > n THEN current - 1 ELSE current
    BY <1>6 DEF DeleteServer
  <2>2. CASE session = 0
    BY <1>0, <1>4, <2>1, <2>2 DEF ListInv, BoundServer
  <2>3. CASE session # 0
    <3>1. current \in DOMAIN servers /\ servers[current].key = endpoint
      BY <2>3 DEF ListInv, BoundServer
    <3>2. current' \in DOMAIN servers' /\ RowBefore(current', n) = current
      BY <1>0, <1>2, <1>6, <2>1, <3>1 DEF RowBefore
    <3> QED
      BY <1>2, <1>4, <2>1, <2>3, <3>1, <3>2 DEF BoundServer
  <2> QED
    BY <2>2, <2>3
<1> QED
  BY <1>5, <1>6

\* Every step keeps the session bound and the keys unique.
LEMMA ListStep == ListInv /\ [Next]_vars => (BoundServer /\ KeysUnique)'
<1> SUFFICES ASSUME ListInv, [Next]_vars PROVE BoundServer' /\ KeysUnique'
  OBVIOUS
<1>0. /\ TypeOK /\ KeysUnique /\ servers \in Seq(RowType)
      /\ Len(servers) \in Nat /\ DOMAIN servers = 1..Len(servers)
  BY DEF ListInv, TypeOK, RowType
<1>a. CASE UNCHANGED <<servers, heldVars>>
  BY <1>0, <1>a, ListKept
<1>b. CASE IngestState
  BY <1>0, <1>b, ListKept, IngestStateTypes DEF heldVars
<1>1. ASSUME NEW i \in DOMAIN servers, ConnectToServer(i) PROVE BoundServer' /\ KeysUnique'
  <2>1. CASE SelectServer(i)
    BY <1>a, <2>1 DEF SelectServer
  <2>2. CASE Open(servers, i) \/ OpenFails(servers, i)
    BY <1>0, <2>2, OpenList DEF UniqueIn, KeysUnique
  <2> QED
    BY <1>1, <2>1, <2>2 DEF ConnectToServer
<1>2. ASSUME NEW k \in Keys, ConnectToHost(k) PROVE BoundServer' /\ KeysUnique'
  <2> DEFINE list == Append(servers, Row(k, "Idle"))
  <2>1. Row(k, "Idle") \in RowType /\ Row(k, "Idle").key = k
    BY DEF Row, RowType, Core!States
  <2>2. /\ list \in Seq(RowType) /\ Len(list) \in DOMAIN list
        /\ DOMAIN list = 1..(Len(servers) + 1)
        /\ \A i \in DOMAIN servers : list[i] = servers[i]
        /\ list[Len(servers) + 1].key = k
    BY <1>0, <2>1, AppendFacts
  <2>3. \A i \in DOMAIN servers : servers[i].key # k
    BY <1>2 DEF ConnectToHost, KeysUsed
  <2>4. Open(list, Len(list)) \/ OpenFails(list, Len(list))
    BY <1>2 DEF ConnectToHost
  <2> HIDE DEF list
  <2>5. UniqueIn(list)
    BY <1>0, <2>2, <2>3 DEF UniqueIn, KeysUnique
  <2> QED
    BY <1>0, <2>2, <2>4, <2>5, OpenList
<1>3. ASSUME NEW i \in DOMAIN servers, NEW k \in Keys, EditServer(i, k)
      PROVE  BoundServer' /\ KeysUnique'
  <2>1. \A j \in DOMAIN servers : servers[j].key = k => j = i
    BY <1>0, <1>3 DEF EditServer, KeysUsed, KeysUnique
  <2>2. /\ DOMAIN servers' = DOMAIN servers
        /\ \A j \in DOMAIN servers :
             servers'[j].key = IF j = i THEN k ELSE servers[j].key
    BY <1>0, <1>3 DEF EditServer, Row
  <2>3. KeysUnique'
    BY <1>0, <2>1, <2>2 DEF KeysUnique
  <2>4. CASE i = current
    BY <1>3, <2>3, <2>4 DEF EditServer, Teardown, BoundServer
  <2>5. CASE i # current
    BY <1>3, <2>2, <2>3, <2>5 DEF EditServer, ListInv, BoundServer
  <2> QED
    BY <2>4, <2>5
<1>4. ASSUME NEW i \in DOMAIN servers, DeleteServer(i) PROVE BoundServer' /\ KeysUnique'
  BY <1>4, DeleteList
<1>5. ASSUME \/ Reports \/ Answers
             \/ \E i \in DOMAIN servers : SelectServer(i)
             \/ \E kind \in Kinds : RequestFile(kind) \/ RequestPackages(kind)
             \/ RefreshSnapshot \/ CaptureEnds
             \/ IngestUnknown \/ IngestFile \/ IngestSnapshot \/ IngestPackages
             \/ UNCHANGED vars
      PROVE  BoundServer' /\ KeysUnique'
  <2>1. UNCHANGED <<servers, heldVars>>
    BY <1>5 DEF Reports, Answers, SelectServer, RequestFile, RequestPackages,
                RefreshSnapshot, CaptureEnds, IngestUnknown, IngestFile,
                IngestSnapshot, IngestPackages, listVars, heldVars, vars
  <2> QED
    BY <1>a, <2>1
<1>6. ASSUME IngestConnected \/ IngestEnded \/ IngestTransient
      PROVE  BoundServer' /\ KeysUnique'
  BY <1>b, <1>6 DEF IngestConnected, IngestEnded, IngestTransient
<1> QED
  BY <1>1, <1>2, <1>3, <1>4, <1>5, <1>6 DEF Next, Session, User, UiThread

\* The session is bound and the keys are unique throughout.
LEMMA ListInvariant == Spec => []ListInv
<1>1. Init => ListInv
  BY InitList
<1>2. ListInv /\ [Next]_vars => ListInv'
  BY ListStep, TypeStep DEF ListInv
<1> QED
  BY <1>1, <1>2, PTL DEF Spec

\* Every variable of the controller keeps its type, whatever the user does
\* while batches wait: no index leaves the list (AppController.cpp).
THEOREM TypeCorrect == Spec => []TypeOK
<1>1. ListInv => TypeOK
  BY DEF ListInv
<1> QED
  BY <1>1, ListInvariant, PTL

\* The session stays bound to the row it was created for while rows come, are
\* edited and go (m_currentIndex and m_currentEndpoint).
THEOREM SessionBoundToRow == Spec => []BoundServer
<1>1. ListInv => BoundServer
  BY DEF ListInv
<1> QED
  BY <1>1, ListInvariant, PTL

\* Only deleteServer makes the list shorter.
LEMMA OnlyDeleteShortens ==
  ASSUME ListInv, Next, Len(servers') < Len(servers)
  PROVE  \E n \in DOMAIN servers : DeleteServer(n)
<1>0. servers \in Seq(RowType) /\ Len(servers) \in Nat /\ TypeOK
  BY DEF ListInv, TypeOK, RowType
<1>1. ASSUME NEW i \in DOMAIN servers, ConnectToServer(i) PROVE FALSE
  <2>1. CASE SelectServer(i) \/ Open(servers, i)
    BY <1>0, <2>1 DEF SelectServer, Open
  <2>2. CASE OpenFails(servers, i)
    BY <1>0, <2>2, SetStatusFacts DEF OpenFails, Core!States
  <2> QED
    BY <1>1, <2>1, <2>2 DEF ConnectToServer
<1>2. ASSUME NEW k \in Keys, ConnectToHost(k) PROVE FALSE
  <2> DEFINE list == Append(servers, Row(k, "Idle"))
  <2>1. Row(k, "Idle") \in RowType
    BY DEF Row, RowType, Core!States
  <2>2. list \in Seq(RowType) /\ Len(list) = Len(servers) + 1 /\ Len(list) \in DOMAIN list
    BY <1>0, <2>1, AppendFacts
  <2>3. Open(list, Len(list)) \/ OpenFails(list, Len(list))
    BY <1>2 DEF ConnectToHost
  <2> HIDE DEF list
  <2>4. CASE Open(list, Len(list))
    BY <1>0, <2>2, <2>4 DEF Open
  <2>5. CASE OpenFails(list, Len(list))
    <3>1. "Failed" \in Core!States
      BY DEF Core!States
    <3>2. Len(servers') = Len(list)
      BY <2>2, <2>5, <3>1, SetStatusFacts DEF OpenFails
    <3> QED
      BY <1>0, <2>2, <3>2
  <2> QED
    BY <2>3, <2>4, <2>5
<1>3. ASSUME NEW i \in DOMAIN servers, NEW k \in Keys, EditServer(i, k) PROVE FALSE
  BY <1>0, <1>3 DEF EditServer, Row
<1>4. ASSUME IngestState PROVE FALSE
  BY <1>0, <1>4, IngestStateTypes
<1>5. ASSUME UNCHANGED servers PROVE FALSE
  BY <1>0, <1>5
<1> QED
  BY <1>1, <1>2, <1>3, <1>4, <1>5
     DEF Next, Session, User, UiThread, Reports, Answers, SelectServer, RequestFile,
         RequestPackages, RefreshSnapshot, CaptureEnds, IngestUnknown, IngestFile,
         IngestSnapshot, IngestPackages, IngestConnected, IngestEnded,
         IngestTransient, listVars

\* deleteServer leaves the selection and the session of other rows.
LEMMA DeleteSpares ==
  ASSUME ListInv, NEW n \in DOMAIN servers, DeleteServer(n)
  PROVE  RemovalSpares
<1>0. /\ Len(servers) \in Nat /\ DOMAIN servers = 1..Len(servers)
      /\ current \in 0..Len(servers) /\ selected \in 0..Len(servers)
  BY DEF ListInv, TypeOK
<1>1. /\ DOMAIN servers' = 1..(Len(servers) - 1)
      /\ \A j \in DOMAIN servers' : /\ RowBefore(j, n) \in DOMAIN servers
                                    /\ servers'[j] = servers[RowBefore(j, n)]
  BY RemovedRow DEF DeleteServer
<1> SUFFICES ASSUME NEW i \in DOMAIN servers, NEW j \in DOMAIN servers',
                    servers'[j] = servers[i]
             PROVE  /\ selected = i => IsRow(selected', servers', servers[i])
                    /\ current = i  => /\ IsRow(current', servers', servers[i])
                                       /\ session' = session
  BY DEF RemovalSpares
<1>2. RowBefore(j, n) = i
  BY <1>1 DEF ListInv, KeysUnique
<1>3. i # n /\ j = IF i > n THEN i - 1 ELSE i
  BY <1>0, <1>1, <1>2 DEF RowBefore
<1>4. selected = i => selected' = j
  BY <1>0, <1>3 DEF DeleteServer, SelectedWithout
<1>5. current = i => current' = j /\ session' = session
  BY <1>0, <1>3 DEF DeleteServer
<1> QED
  BY <1>4, <1>5 DEF IsRow

\* Removing a row (deleteServer) leaves every other row its selection and its
\* session.
THEOREM RemovalIsLocal == Spec => RemovalSparesOthers
<1>1. ListInv /\ [Next]_vars => [RemovalSpares]_vars
  <2> SUFFICES ASSUME ListInv, Next PROVE RemovalSpares
    OBVIOUS
  <2>1. CASE Len(servers') < Len(servers)
    BY <2>1, OnlyDeleteShortens, DeleteSpares
  <2>2. CASE ~(Len(servers') < Len(servers))
    BY <2>2 DEF RemovalSpares
  <2> QED
    BY <2>1, <2>2
<1> QED
  BY <1>1, ListInvariant, PTL DEF Spec, RemovalSparesOthers
-----------------------------------------------------------------------------
(* The busy flags. *)

\* Steps that leave the flags, and the pending requests other than file ones.
LEMMA TasksKept ==
  ASSUME TaskInv, UNCHANGED <<packageBusy, snapshotBusy>>,
         \A p \in pending \cup pending' :
           p.kind \notin FsKinds => (p \in pending <=> p \in pending')
  PROVE  BusyIsPending'
<1>1. \A p \in pending \cup pending' :
        p.kind \in ExecKinds => (p \in pending <=> p \in pending')
  BY DEF FsKinds, ExecKinds
<1>2. packageBusy' <=> \E p \in pending' : p.kind \in PackageKinds
  BY <1>1 DEF TaskInv, BusyIsPending, PackageKinds, ExecKinds
<1>3. \A p, q \in pending' :
        p.kind \in PackageKinds /\ q.kind \in PackageKinds => p = q
  BY <1>1 DEF TaskInv, BusyIsPending, PackageKinds, ExecKinds
<1>4. snapshotBusy' => \E p \in pending' : p.kind = "Snapshot"
  BY <1>1 DEF TaskInv, BusyIsPending, ExecKinds
<1> QED
  BY <1>2, <1>3, <1>4 DEF BusyIsPending

\* With nothing pending nothing is busy.
LEMMA TasksForgotten == ForgetRequests => BusyIsPending'
  BY DEF ForgetRequests, BusyIsPending

\* Listing directories adds only requests for files.
LEMMA FetchAdds ==
  ASSUME NEW n \in Nat, NEW keep, Ask([i \in 1..n |-> "Fetch"], keep)
  PROVE  /\ keep \subseteq pending'
         /\ \A q \in pending' \ keep : q.kind = "Fetch"
  BY DEF Ask

\* One more request.
LEMMA AskOne ==
  ASSUME NEW kind, NEW keep, Ask(<<kind>>, keep)
  PROVE  \E q : pending' = keep \cup {q} /\ q.kind = kind
<1>1. DOMAIN <<kind>> = {1} /\ <<kind>>[1] = kind
  OBVIOUS
<1> DEFINE q == [id |-> answered + Len(owed) + 1, kind |-> kind]
<1>2. pending' = keep \cup {q}
  BY <1>1 DEF Ask
<1>3. q.kind = kind
  OBVIOUS
<1> HIDE DEF q
<1> QED
  BY <1>2, <1>3

\* Every step keeps the flags and the requests together.
LEMMA TaskStep == TaskInv /\ [Next]_vars => BusyIsPending'
<1> SUFFICES ASSUME TaskInv, [Next]_vars PROVE BusyIsPending'
  OBVIOUS
<1>a. CASE UNCHANGED requestVars
  BY <1>a DEF TaskInv, BusyIsPending, requestVars
<1>b. CASE ForgetRequests
  BY <1>b, TasksForgotten
<1>1. ASSUME NEW i \in DOMAIN servers, ConnectToServer(i) PROVE BusyIsPending'
  BY <1>a, <1>b, <1>1 DEF ConnectToServer, SelectServer, Open, OpenFails, Teardown, DropSession
<1>2. ASSUME NEW k \in Keys, ConnectToHost(k) PROVE BusyIsPending'
  BY <1>b, <1>2 DEF ConnectToHost, Open, OpenFails, Teardown, DropSession
<1>3. ASSUME NEW i \in DOMAIN servers, NEW k \in Keys, EditServer(i, k)
      PROVE  BusyIsPending'
  BY <1>a, <1>b, <1>3 DEF EditServer, Teardown, DropSession
<1>4. ASSUME NEW i \in DOMAIN servers, DeleteServer(i) PROVE BusyIsPending'
  BY <1>a, <1>b, <1>4 DEF DeleteServer, Teardown, DropSession
<1>5. ASSUME \/ Reports \/ Answers \/ IngestUnknown \/ IngestTransient \/ IngestEnded
             \/ \E i \in DOMAIN servers : SelectServer(i)
             \/ UNCHANGED vars
      PROVE  BusyIsPending'
  BY <1>a, <1>b, <1>5 DEF Reports, Answers, IngestUnknown, IngestTransient, IngestEnded,
                          SelectServer, requestVars, vars
<1>6. ASSUME NEW kind \in Kinds, RequestFile(kind) PROVE BusyIsPending'
  <2>1. PICK q : pending' = pending \cup {q} /\ q.kind = kind
    BY <1>6, AskOne DEF RequestFile
  <2>2. kind \in FsKinds /\ UNCHANGED <<packageBusy, snapshotBusy>>
    BY <1>6 DEF RequestFile
  <2> QED
    BY <2>1, <2>2, TasksKept
<1>7. ASSUME NEW kind \in Kinds, RequestPackages(kind) PROVE BusyIsPending'
  <2>1. PICK q : pending' = pending \cup {q} /\ q.kind = kind
    BY <1>7, AskOne DEF RequestPackages
  <2>2. /\ kind \in PackageKinds /\ packageBusy' = TRUE /\ UNCHANGED snapshotBusy
        /\ \A p \in pending : p.kind \notin PackageKinds
    BY <1>7 DEF RequestPackages, TaskInv, BusyIsPending
  <2> QED
    BY <2>1, <2>2 DEF TaskInv, BusyIsPending
<1>8. ASSUME RefreshSnapshot PROVE BusyIsPending'
  <2>1. CASE Ask(<<"Snapshot">>, pending) /\ UNCHANGED packageBusy
    <3>1. PICK q : pending' = pending \cup {q} /\ q.kind = "Snapshot"
      BY <2>1, AskOne
    <3> QED
      BY <2>1, <3>1 DEF TaskInv, BusyIsPending, PackageKinds
  <2>2. CASE snapshotBusy' = FALSE /\ UNCHANGED <<pending, packageBusy>>
    BY <2>2 DEF TaskInv, BusyIsPending
  <2> QED
    BY <1>8, <2>1, <2>2 DEF RefreshSnapshot
<1>9. ASSUME CaptureEnds PROVE BusyIsPending'
  BY <1>9 DEF CaptureEnds, TaskInv, BusyIsPending
<1>10. ASSUME IngestConnected PROVE BusyIsPending'
  <2>1. CASE Ask(<<"Fetch">>, pending)
    <3>1. PICK q : pending' = pending \cup {q} /\ q.kind = "Fetch"
      BY <2>1, AskOne
    <3> QED
      BY <1>10, <3>1, TasksKept DEF IngestConnected, FsKinds
  <2>2. CASE UNCHANGED pending
    BY <1>a, <1>10, <2>2 DEF IngestConnected, requestVars
  <2> QED
    BY <1>10, <2>1, <2>2 DEF IngestConnected
<1>11. ASSUME IngestFile PROVE BusyIsPending'
  <2>1. PICK p \in pending :
          /\ Matches(p, Head(queue))
          /\ \E n \in 0..Refreshes(p.kind) : Ask([i \in 1..n |-> "Fetch"], pending \ {p})
    BY <1>11 DEF IngestFile
  <2>2. PICK n \in 0..Refreshes(p.kind) : Ask([i \in 1..n |-> "Fetch"], pending \ {p})
    BY <2>1
  <2>3. n \in Nat
    BY DEF Refreshes
  <2>4. p.kind \in FsKinds
    BY <1>11, <2>1 DEF IngestFile, Ingest, Matches, Channel
  <2>5. /\ pending \ {p} \subseteq pending'
        /\ \A q \in pending' \ (pending \ {p}) : q.kind = "Fetch"
    BY <2>2, <2>3, FetchAdds
  <2> QED
    BY <1>11, <2>4, <2>5, TasksKept DEF IngestFile, FsKinds
<1>12. ASSUME IngestSnapshot PROVE BusyIsPending'
  <2>1. PICK p \in pending : p.kind = "Snapshot" /\ pending' = pending \ {p}
    BY <1>12 DEF IngestSnapshot
  <2>2. snapshotBusy' = FALSE /\ UNCHANGED packageBusy /\ p.kind \notin PackageKinds
    BY <1>12, <2>1 DEF IngestSnapshot, PackageKinds
  <2> QED
    BY <2>1, <2>2 DEF TaskInv, BusyIsPending
<1>13. ASSUME IngestPackages PROVE BusyIsPending'
  <2>1. PICK p \in pending :
          /\ p.kind \in PackageKinds
          /\ \/ packageBusy' = FALSE /\ pending' = pending \ {p}
             \/ packageBusy' = TRUE /\ Ask(<<"Lookup">>, pending \ {p})
    BY <1>13 DEF IngestPackages
  <2>2. /\ UNCHANGED snapshotBusy /\ p.kind # "Snapshot"
        /\ \A q \in pending \ {p} : q.kind \notin PackageKinds
    BY <1>13, <2>1 DEF IngestPackages, PackageKinds, TaskInv, BusyIsPending
  <2>3. CASE packageBusy' = FALSE /\ pending' = pending \ {p}
    BY <2>2, <2>3 DEF TaskInv, BusyIsPending
  <2>4. CASE packageBusy' = TRUE /\ Ask(<<"Lookup">>, pending \ {p})
    <3>1. PICK q : pending' = (pending \ {p}) \cup {q} /\ q.kind = "Lookup"
      BY <2>4, AskOne
    <3> QED
      BY <2>2, <2>4, <3>1 DEF TaskInv, BusyIsPending, PackageKinds
  <2> QED
    BY <2>1, <2>3, <2>4
<1> QED
  BY <1>1, <1>2, <1>3, <1>4, <1>5, <1>6, <1>7, <1>8, <1>9, <1>10, <1>11, <1>12, <1>13
     DEF Next, Session, User, UiThread

\* No pane stays busy with nothing pending, and at most one package request is
\* pending (m_packageBusy, m_resourceSnapshotBusy, m_execPending).
THEOREM BusyFlagsMirrorRequests == Spec => []BusyIsPending
<1>1. Init => TaskInv
  BY InitTypes DEF Init, TaskInv, BusyIsPending
<1>2. TaskInv /\ [Next]_vars => TaskInv'
  BY TaskStep, TypeStep DEF TaskInv
<1>3. TaskInv => BusyIsPending
  BY DEF TaskInv
<1> QED
  BY <1>1, <1>2, <1>3, PTL DEF Spec
-----------------------------------------------------------------------------
(* The results that are owed. *)

Owes(p) ==
  \/ \E i \in DOMAIN owed : p = [id |-> answered + i, kind |-> owed[i]]
  \/ \E i \in DOMAIN queue : queue[i].of = session /\ Matches(p, queue[i])

\* What a step of the UI thread does to the queue, as far as the requests in
\* keep are concerned: the batch it takes is for none of them.
TakesNoneOf(keep) ==
  \/ queue' = queue
  \/ queue # <<>> /\ queue' = Tail(queue) /\ \A p \in keep : ~Matches(p, Head(queue))

\* With nothing pending nothing is owed.
LEMMA NoneForgotten == pending' = {} => IdsUnique' /\ PendingIsOwed'
  BY DEF IdsUnique, PendingIsOwed

\* More may be owed, and batches for others be taken.
LEMMA StillOwed ==
  ASSUME OwedInv, NEW keep \in SUBSET pending, NEW p \in keep, NEW kinds \in Seq(Kinds),
         session' = session, answered' = answered, owed' = owed \o kinds,
         TakesNoneOf(keep)
  PROVE  Owes(p)'
<1>0. /\ owed \in Seq(Kinds) /\ queue \in Seq(BatchType)
      /\ Owes(p)
  BY DEF OwedInv, TypeOK, PendingIsOwed, Owes
<1>1. ASSUME NEW i \in DOMAIN owed, p = [id |-> answered + i, kind |-> owed[i]]
      PROVE  Owes(p)'
  <2>1. i \in DOMAIN owed' /\ owed'[i] = owed[i]
    BY <1>0, <1>1, ConcatFacts
  <2> QED
    BY <1>1, <2>1 DEF Owes
<1>2. ASSUME NEW i \in DOMAIN queue, queue[i].of = session, Matches(p, queue[i])
      PROVE  Owes(p)'
  <2>1. CASE queue' = queue
    BY <1>2, <2>1 DEF Owes, Matches
  <2>2. CASE queue # <<>> /\ queue' = Tail(queue) /\ ~Matches(p, Head(queue))
    <3>1. i # 1
      BY <1>0, <1>2, <2>2, TailFacts
    <3>2. i - 1 \in DOMAIN queue' /\ queue'[i - 1] = queue[i]
      BY <1>0, <1>2, <2>2, <3>1, TailFacts
    <3> QED
      BY <1>2, <3>2 DEF Owes, Matches
  <2> QED
    BY <2>1, <2>2 DEF TakesNoneOf
<1> QED
  BY <1>0, <1>1, <1>2 DEF Owes

\* A step that asks for more.
LEMMA AskOwed ==
  ASSUME OwedInv, NEW keep \in SUBSET pending, NEW kinds \in Seq(Kinds),
         Ask(kinds, keep), session' = session, TakesNoneOf(keep)
  PROVE  IdsUnique' /\ PendingIsOwed'
<1> DEFINE new(i) == [id |-> answered + Len(owed) + i, kind |-> kinds[i]]
<1>0. /\ answered \in Nat /\ owed \in Seq(Kinds) /\ Len(owed) \in Nat /\ Len(kinds) \in Nat
      /\ DOMAIN kinds = 1..Len(kinds)
      /\ pending \subseteq [id: Nat, kind: Kinds]
      /\ IdsUnique
  BY DEF OwedInv, TypeOK
<1>1. /\ owed' = owed \o kinds /\ answered' = answered
      /\ pending' = keep \cup {new(i) : i \in DOMAIN kinds}
  BY DEF Ask
<1>2. Len(owed') = Len(owed) + Len(kinds)
  BY <1>0, <1>1, ConcatFacts
<1>3. \A i \in DOMAIN kinds : new(i).id = answered + Len(owed) + i
  OBVIOUS
<1>4. ASSUME NEW p \in keep PROVE p.id \in Nat /\ p.id <= answered + Len(owed)
  BY <1>0, <1>4 DEF IdsUnique
<1>5. ASSUME NEW p \in pending' PROVE p.id <= answered' + Len(owed')
  <2>1. CASE p \in keep
    BY <1>0, <1>1, <1>2, <1>4, <2>1
  <2>2. ASSUME NEW i \in DOMAIN kinds, p = new(i) PROVE p.id <= answered' + Len(owed')
    BY <1>0, <1>1, <1>2, <1>3, <2>2
  <2> QED
    BY <1>1, <1>5, <2>1, <2>2
<1>6. ASSUME NEW p \in pending', NEW q \in pending', p.id = q.id PROVE p = q
  <2>1. CASE p \in keep /\ q \in keep
    BY <1>0, <1>6, <2>1 DEF IdsUnique
  <2>2. ASSUME NEW i \in DOMAIN kinds, p = new(i), q \in keep PROVE FALSE
    BY <1>0, <1>3, <1>4, <1>6, <2>2
  <2>3. ASSUME NEW i \in DOMAIN kinds, q = new(i), p \in keep PROVE FALSE
    BY <1>0, <1>3, <1>4, <1>6, <2>3
  <2>4. ASSUME NEW i \in DOMAIN kinds, NEW j \in DOMAIN kinds, p = new(i), q = new(j)
        PROVE  p = q
    <3>1. answered + Len(owed) + i = answered + Len(owed) + j
      BY <1>3, <1>6, <2>4
    <3>2. i = j
      BY <1>0, <3>1
    <3> QED
      BY <2>4, <3>2
  <2> QED
    BY <1>1, <1>6, <2>1, <2>2, <2>3, <2>4
<1>7. ASSUME NEW p \in pending' PROVE Owes(p)'
  <2>1. CASE p \in keep
    BY <1>1, <2>1, StillOwed
  <2>2. ASSUME NEW i \in DOMAIN kinds, p = new(i) PROVE Owes(p)'
    <3>1. Len(owed) + i \in DOMAIN owed' /\ owed'[Len(owed) + i] = kinds[i]
      BY <1>0, <1>1, <1>2, ConcatFacts
    <3>2. p = [id |-> answered' + (Len(owed) + i), kind |-> owed'[Len(owed) + i]]
      BY <1>0, <1>1, <2>2, <3>1
    <3> QED
      BY <3>1, <3>2 DEF Owes
  <2> QED
    BY <1>1, <1>7, <2>1, <2>2
<1>8. IdsUnique'
  BY <1>5, <1>6 DEF IdsUnique
<1>9. PendingIsOwed'
  BY <1>7 DEF PendingIsOwed, Owes
<1> QED
  BY <1>8, <1>9

\* A step that asks for nothing.
LEMMA KeepOwed ==
  ASSUME OwedInv, pending' \subseteq pending, UNCHANGED <<session, owed, answered>>,
         TakesNoneOf(pending')
  PROVE  IdsUnique' /\ PendingIsOwed'
<1>1. IdsUnique'
  BY DEF OwedInv, IdsUnique
<1>2. <<>> \in Seq(Kinds) /\ owed' = owed \o <<>>
  BY ConcatFacts DEF OwedInv, TypeOK
<1>3. ASSUME NEW p \in pending' PROVE Owes(p)'
  <2> DEFINE keep == pending'
  <2>1. keep \in SUBSET pending /\ p \in keep /\ TakesNoneOf(keep)
    BY <1>3
  <2> HIDE DEF keep
  <2> QED
    BY <1>2, <2>1, StillOwed
<1> QED
  BY <1>1, <1>3 DEF PendingIsOwed, Owes

\* Once a result is taken for p, no other pending request matches it.
LEMMA TakenIsUnique ==
  ASSUME OwedInv, NEW p \in pending, queue # <<>>, queue' = Tail(queue),
         Matches(p, Head(queue))
  PROVE  TakesNoneOf(pending \ {p})
  BY DEF OwedInv, IdsUnique, Matches, TakesNoneOf

\* The session posts a batch.
LEMMA PostOwed ==
  ASSUME OwedInv, NEW b \in BatchType, queue' = Append(queue, b),
         UNCHANGED <<session, pending>>,
         \/ UNCHANGED <<owed, answered>>
         \/ /\ owed # <<>> /\ owed' = Tail(owed) /\ answered' = answered + 1
            /\ b.of = session /\ b.id = answered + 1 /\ b.chan = Channel(Head(owed))
  PROVE  IdsUnique' /\ PendingIsOwed'
<1>0. /\ answered \in Nat /\ owed \in Seq(Kinds) /\ queue \in Seq(BatchType)
      /\ Len(owed) \in Nat /\ DOMAIN owed = 1..Len(owed)
      /\ IdsUnique /\ \A p \in pending : Owes(p)
  BY DEF OwedInv, TypeOK, PendingIsOwed, Owes
<1>n. answered \in Nat /\ Len(owed) \in Nat /\ DOMAIN owed = 1..Len(owed)
  BY <1>0
<1>1. /\ \A i \in DOMAIN queue : i \in DOMAIN queue' /\ queue'[i] = queue[i]
      /\ Len(queue) + 1 \in DOMAIN queue' /\ queue'[Len(queue) + 1] = b
  BY <1>0, AppendFacts
<1>t. ASSUME owed # <<>>
      PROVE  /\ Head(owed) = owed[1] /\ Len(Tail(owed)) = Len(owed) - 1
             /\ DOMAIN Tail(owed) = 1..(Len(owed) - 1)
             /\ \A i \in 1..(Len(owed) - 1) : Tail(owed)[i] = owed[i + 1]
  BY <1>0, <1>t, TailFacts
<1>2. answered' + Len(owed') = answered + Len(owed)
  <2>1. CASE UNCHANGED <<owed, answered>>
    BY <2>1
  <2>2. CASE owed # <<>> /\ owed' = Tail(owed) /\ answered' = answered + 1
    <3>1. answered' = answered + 1 /\ Len(owed') = Len(owed) - 1
      BY <1>t, <2>2
    <3> QED
      BY <1>n, <3>1
  <2> QED
    BY <2>1, <2>2
<1>3. IdsUnique'
  BY <1>0, <1>2 DEF IdsUnique
<1>4. ASSUME NEW p \in pending PROVE Owes(p)'
  <2>1. ASSUME NEW i \in DOMAIN queue, queue[i].of = session, Matches(p, queue[i])
        PROVE  Owes(p)'
    BY <1>1, <2>1 DEF Owes, Matches
  <2>2. ASSUME NEW i \in DOMAIN owed, p = [id |-> answered + i, kind |-> owed[i]]
        PROVE  Owes(p)'
    <3>1. CASE UNCHANGED <<owed, answered>>
      BY <2>2, <3>1 DEF Owes
    <3>2. CASE /\ owed # <<>> /\ owed' = Tail(owed) /\ answered' = answered + 1
               /\ b.of = session /\ b.id = answered + 1 /\ b.chan = Channel(Head(owed))
      <4>1. CASE i = 1
        <5>1. p.id = b.id /\ Channel(p.kind) = b.chan
          BY <1>0, <1>t, <2>2, <3>2, <4>1
        <5> QED
          BY <1>1, <3>2, <5>1 DEF Owes, Matches
      <4>2. CASE i # 1
        <5>1. i - 1 \in 1..(Len(owed) - 1) /\ (i - 1) + 1 = i
              /\ answered + 1 + (i - 1) = answered + i
          BY <1>n, <2>2, <4>2
        <5>2. i - 1 \in DOMAIN owed' /\ owed'[i - 1] = owed[i]
          BY <1>t, <3>2, <5>1
        <5>3. p = [id |-> answered' + (i - 1), kind |-> owed'[i - 1]]
          BY <2>2, <3>2, <5>1, <5>2
        <5> QED
          BY <5>2, <5>3 DEF Owes
      <4> QED
        BY <4>1, <4>2
    <3> QED
      BY <3>1, <3>2
  <2> QED
    BY <1>0, <2>1, <2>2 DEF Owes
<1> QED
  BY <1>3, <1>4 DEF PendingIsOwed, Owes

\* A batch that carries a state is the result of nothing.
LEMMA StateMatchesNone ==
  ASSUME IngestState, NEW keep
  PROVE  TakesNoneOf(keep)
  BY DEF IngestState, Ingest, Matches, Channel, TakesNoneOf

\* Every step keeps the results owed and the ids unique.
LEMMA OwedStep == OwedInv /\ [Next]_vars => (IdsUnique /\ PendingIsOwed)'
<1> SUFFICES ASSUME OwedInv, [Next]_vars PROVE IdsUnique' /\ PendingIsOwed'
  OBVIOUS
<1>0. TypeOK /\ session \in Nat /\ pending \in SUBSET pending
  BY DEF OwedInv, TypeOK
<1>a. CASE UNCHANGED <<session, pending, owed, answered, queue>>
  BY <1>a, KeepOwed DEF TakesNoneOf
<1>b. CASE pending' = {}
  BY <1>b, NoneForgotten
<1>c. ASSUME NEW kind \in Kinds, Ask(<<kind>>, pending), session' = session,
             queue' = queue
      PROVE  IdsUnique' /\ PendingIsOwed'
  <2>1. <<kind>> \in Seq(Kinds)
    OBVIOUS
  <2> QED
    BY <1>c, <2>1, AskOwed DEF TakesNoneOf
<1>1. ASSUME Reports PROVE IdsUnique' /\ PendingIsOwed'
  <2>1. shown' \in Core!States
    BY <1>1, TypeStep, <1>0 DEF TypeOK
  <2>2. StateBatch(shown') \in BatchType
    BY <1>0, <2>1, BatchTypes
  <2> QED
    BY <1>1, <2>2, PostOwed DEF Reports, heldVars, requestVars
<1>2. ASSUME Answers PROVE IdsUnique' /\ PendingIsOwed'
  <2> DEFINE b == ResultBatch(Channel(Head(owed)), answered + 1)
  <2>1. Channel(Head(owed)) \in {"Fs", "Exec"} /\ answered + 1 \in Nat
    BY <1>0 DEF Channel, TypeOK
  <2>2. b \in BatchType
    BY <1>0, <2>1, BatchTypes
  <2>3. b.of = session /\ b.id = answered + 1 /\ b.chan = Channel(Head(owed))
    BY DEF ResultBatch
  <2>4. /\ queue' = Append(queue, b) /\ UNCHANGED <<session, pending>>
        /\ owed # <<>> /\ owed' = Tail(owed) /\ answered' = answered + 1
    BY <1>2 DEF Answers, heldVars, requestVars
  <2> HIDE DEF b
  <2> QED
    BY <2>2, <2>3, <2>4, PostOwed
<1>3. ASSUME NEW i \in DOMAIN servers, ConnectToServer(i) PROVE IdsUnique' /\ PendingIsOwed'
  BY <1>a, <1>b, <1>3 DEF ConnectToServer, SelectServer, Open, OpenFails, Teardown, DropSession,
                          ForgetRequests, heldVars, requestVars, coreVars
<1>4. ASSUME NEW k \in Keys, ConnectToHost(k) PROVE IdsUnique' /\ PendingIsOwed'
  BY <1>b, <1>4 DEF ConnectToHost, Open, OpenFails, Teardown, DropSession, ForgetRequests
<1>5. ASSUME NEW i \in DOMAIN servers, NEW k \in Keys, EditServer(i, k)
      PROVE  IdsUnique' /\ PendingIsOwed'
  BY <1>a, <1>b, <1>5 DEF EditServer, Teardown, DropSession, ForgetRequests,
                          requestVars, coreVars
<1>6. ASSUME NEW i \in DOMAIN servers, DeleteServer(i) PROVE IdsUnique' /\ PendingIsOwed'
  BY <1>a, <1>b, <1>6 DEF DeleteServer, Teardown, DropSession, ForgetRequests,
                          requestVars, coreVars
<1>7. ASSUME \/ CaptureEnds \/ IngestEnded
             \/ \E i \in DOMAIN servers : SelectServer(i)
             \/ UNCHANGED vars
      PROVE  IdsUnique' /\ PendingIsOwed'
  BY <1>a, <1>b, <1>7 DEF CaptureEnds, IngestEnded, SelectServer, ForgetRequests,
                          heldVars, requestVars, coreVars, vars
<1>8. ASSUME NEW kind \in Kinds, RequestFile(kind) \/ RequestPackages(kind)
      PROVE  IdsUnique' /\ PendingIsOwed'
  BY <1>c, <1>8 DEF RequestFile, RequestPackages, heldVars
<1>9. ASSUME RefreshSnapshot PROVE IdsUnique' /\ PendingIsOwed'
  BY <1>a, <1>c, <1>9 DEF RefreshSnapshot, heldVars, coreVars, Kinds, ExecKinds
<1>10. ASSUME IngestConnected PROVE IdsUnique' /\ PendingIsOwed'
  <2>1. session' = session /\ TakesNoneOf(pending)
    BY <1>10, StateMatchesNone DEF IngestConnected, IngestState, SetConnectionState, heldVars
  <2>2. CASE Ask(<<"Fetch">>, pending)
    <3>1. <<"Fetch">> \in Seq(Kinds)
      BY DEF Kinds, FsKinds
    <3> QED
      BY <1>0, <2>1, <2>2, <3>1, AskOwed
  <2>3. CASE UNCHANGED <<pending, coreVars>>
    BY <2>1, <2>3, KeepOwed DEF coreVars
  <2> QED
    BY <1>10, <2>2, <2>3 DEF IngestConnected
<1>11. ASSUME IngestTransient PROVE IdsUnique' /\ PendingIsOwed'
  <2>1. session' = session /\ TakesNoneOf(pending)
    BY <1>11, StateMatchesNone DEF IngestTransient, IngestState, SetConnectionState, heldVars
  <2> QED
    BY <1>11, <2>1, KeepOwed DEF IngestTransient, requestVars, coreVars
<1>12. ASSUME IngestUnknown PROVE IdsUnique' /\ PendingIsOwed'
  <2>1. UNCHANGED <<session, pending, owed, answered>> /\ TakesNoneOf(pending)
    BY <1>12 DEF IngestUnknown, Ingest, heldVars, requestVars, coreVars, TakesNoneOf
  <2> QED
    BY <2>1, KeepOwed
<1>13. ASSUME IngestFile PROVE IdsUnique' /\ PendingIsOwed'
  <2>1. PICK p \in pending :
          /\ Matches(p, Head(queue))
          /\ \E n \in 0..Refreshes(p.kind) : Ask([i \in 1..n |-> "Fetch"], pending \ {p})
    BY <1>13 DEF IngestFile
  <2>2. PICK n \in 0..Refreshes(p.kind) : Ask([i \in 1..n |-> "Fetch"], pending \ {p})
    BY <2>1
  <2>3. n \in Nat /\ "Fetch" \in Kinds
    BY DEF Refreshes, Kinds, FsKinds
  <2>4. [i \in 1..n |-> "Fetch"] \in Seq(Kinds)
    BY <2>3
  <2>5. session' = session /\ TakesNoneOf(pending \ {p})
    BY <1>13, <2>1, TakenIsUnique DEF IngestFile, Ingest, heldVars
  <2> QED
    BY <2>2, <2>4, <2>5, AskOwed
<1>14. ASSUME IngestSnapshot PROVE IdsUnique' /\ PendingIsOwed'
  <2>1. PICK p \in pending : Matches(p, Head(queue)) /\ pending' = pending \ {p}
    BY <1>14 DEF IngestSnapshot
  <2>2. UNCHANGED <<session, owed, answered>> /\ TakesNoneOf(pending \ {p})
    BY <1>14, <2>1, TakenIsUnique DEF IngestSnapshot, Ingest, heldVars, coreVars
  <2> QED
    BY <2>1, <2>2, KeepOwed
<1>15. ASSUME IngestPackages PROVE IdsUnique' /\ PendingIsOwed'
  <2>1. PICK p \in pending :
          /\ Matches(p, Head(queue))
          /\ \/ pending' = pending \ {p} /\ UNCHANGED coreVars
             \/ Ask(<<"Lookup">>, pending \ {p})
    BY <1>15 DEF IngestPackages
  <2>2. session' = session /\ TakesNoneOf(pending \ {p})
    BY <1>15, <2>1, TakenIsUnique DEF IngestPackages, Ingest, heldVars
  <2>3. CASE pending' = pending \ {p} /\ UNCHANGED coreVars
    BY <2>2, <2>3, KeepOwed DEF coreVars
  <2>4. CASE Ask(<<"Lookup">>, pending \ {p})
    <3>1. <<"Lookup">> \in Seq(Kinds)
      BY DEF Kinds, ExecKinds
    <3> QED
      BY <2>2, <2>4, <3>1, AskOwed
  <2> QED
    BY <2>1, <2>3, <2>4
<1> QED
  BY <1>1, <1>2, <1>3, <1>4, <1>5, <1>6, <1>7, <1>8, <1>9, <1>10, <1>11, <1>12,
     <1>13, <1>14, <1>15
     DEF Next, Session, User, UiThread

\* Nothing waits in vain: what is pending is still owed by the session held, or
\* its result is in the queue (m_fsPending, m_execPending).
THEOREM PendingResultsAreOwed == Spec => []PendingIsOwed
<1>1. Init => OwedInv
  <2>1. Init => IdsUnique /\ PendingIsOwed
    BY DEF Init, IdsUnique, PendingIsOwed
  <2> QED
    BY <2>1, InitTypes DEF OwedInv
<1>2. OwedInv /\ [Next]_vars => OwedInv'
  BY OwedStep, TypeStep DEF OwedInv
<1>3. OwedInv => PendingIsOwed
  BY DEF OwedInv
<1> QED
  BY <1>1, <1>2, <1>3, PTL DEF Spec
-----------------------------------------------------------------------------
(* The queue. *)

\* The controller says, or will say once the queue is drained, what the session
\* last reported: stale states are all ahead of those of the session held.
Settles ==
  session # 0 /\ shown # "Idle" =>
    \/ \E i \in DOMAIN queue :
         /\ queue[i].chan = "State" /\ queue[i].state = shown
         /\ \A j \in DOMAIN queue : j > i => queue[j].chan # "State"
    \/ /\ \A i \in DOMAIN queue : queue[i].chan # "State"
       /\ connState = shown
       /\ servers[current].status = shown

AgreeInv == ListInv /\ Settles

\* What the session reports is the last word.
LEMMA ReportSettles == TypeOK /\ Reports => Settles'
<1> SUFFICES ASSUME TypeOK, Reports PROVE Settles'
  OBVIOUS
<1>1. queue \in Seq(BatchType) /\ session \in Nat
  BY DEF TypeOK
<1>2. shown' \in Core!States
  BY DEF Reports, Core!Report, Core!Follows, Core!States, TypeOK
<1>3. StateBatch(shown') \in BatchType /\ queue' = Append(queue, StateBatch(shown'))
  BY <1>1, <1>2, BatchTypes DEF Reports
<1>4. /\ DOMAIN queue' = 1..(Len(queue) + 1) /\ Len(queue) \in Nat
      /\ queue'[Len(queue) + 1] = StateBatch(shown')
  BY <1>1, <1>3, AppendFacts
<1>5. StateBatch(shown').chan = "State" /\ StateBatch(shown').state = shown'
  BY DEF StateBatch
<1> QED
  BY <1>4, <1>5 DEF Settles

\* A result that is posted changes nothing of it.
LEMMA AnswerSettles == AgreeInv /\ Answers => Settles'
<1> SUFFICES ASSUME AgreeInv, Answers PROVE Settles'
  OBVIOUS
<1>1. /\ queue \in Seq(BatchType) /\ session \in Nat
      /\ owed \in Seq(Kinds) /\ owed # <<>> /\ answered \in Nat
  BY DEF AgreeInv, ListInv, TypeOK, Answers
<1> DEFINE b == ResultBatch(Channel(Head(owed)), answered + 1)
<1>2. b \in BatchType /\ b.chan # "State"
  BY <1>1, BatchTypes DEF Channel, ResultBatch
<1>3. queue' = Append(queue, b)
  BY DEF Answers
<1> HIDE DEF b
<1>4. /\ DOMAIN queue' = 1..(Len(queue) + 1) /\ Len(queue) \in Nat
      /\ DOMAIN queue = 1..Len(queue)
      /\ \A i \in DOMAIN queue : queue'[i] = queue[i]
      /\ queue'[Len(queue) + 1] = b
  BY <1>1, <1>2, <1>3, AppendFacts
<1>5. UNCHANGED <<session, shown, connState, servers, current>>
  BY DEF Answers, Core!Deliver, listVars, heldVars
<1> QED
  BY <1>2, <1>4, <1>5 DEF AgreeInv, Settles

\* A state that is taken in is either not the last one, or the last word.
LEMMA IngestSettles ==
  ASSUME AgreeInv, queue # <<>>, queue' = Tail(queue),
         UNCHANGED <<session, shown, current>>,
         \/ Head(queue).chan # "State" /\ UNCHANGED <<connState, servers>>
         \/ IngestState
  PROVE  Settles'
<1>1. /\ queue \in Seq(BatchType) /\ servers \in Seq(RowType)
      /\ TypeOK /\ BoundServer
  BY DEF AgreeInv, ListInv, TypeOK, RowType
<1>2. /\ Head(queue) = queue[1] /\ Len(queue) \in Nat \ {0}
      /\ DOMAIN queue = 1..Len(queue)
      /\ DOMAIN queue' = 1..(Len(queue) - 1)
      /\ \A i \in 1..(Len(queue) - 1) : queue'[i] = queue[i + 1]
  BY <1>1, TailFacts
<1> SUFFICES ASSUME session # 0, shown # "Idle"
             PROVE  \/ \E i \in DOMAIN queue' :
                         /\ queue'[i].chan = "State" /\ queue'[i].state = shown
                         /\ \A j \in DOMAIN queue' : j > i => queue'[j].chan # "State"
                    \/ /\ \A i \in DOMAIN queue' : queue'[i].chan # "State"
                       /\ connState' = shown
                       /\ servers'[current].status = shown
  BY DEF Settles
<1>3. CASE \E i \in DOMAIN queue :
             /\ queue[i].chan = "State" /\ queue[i].state = shown
             /\ \A j \in DOMAIN queue : j > i => queue[j].chan # "State"
  <2>1. PICK i \in DOMAIN queue :
             /\ queue[i].chan = "State" /\ queue[i].state = shown
             /\ \A j \in DOMAIN queue : j > i => queue[j].chan # "State"
    BY <1>3
  <2>2. CASE i > 1
    <3>1. i - 1 \in DOMAIN queue' /\ queue'[i - 1] = queue[i]
      BY <1>2, <2>1, <2>2
    <3>2. ASSUME NEW j \in DOMAIN queue', j > i - 1 PROVE queue'[j].chan # "State"
      <4>1. j + 1 \in DOMAIN queue /\ j + 1 > i /\ queue'[j] = queue[j + 1]
        BY <1>2, <2>1, <3>2
      <4> QED
        BY <2>1, <4>1
    <3> QED
      BY <2>1, <3>1, <3>2
  <2>3. CASE i = 1
    <3>1. IngestState /\ Head(queue).state = shown
      BY <1>2, <2>1, <2>3
    <3>2. \A j \in DOMAIN queue' : queue'[j].chan # "State"
      <4>1. SUFFICES ASSUME NEW j \in DOMAIN queue' PROVE queue'[j].chan # "State"
        OBVIOUS
      <4>2. j + 1 \in DOMAIN queue /\ j + 1 > i /\ queue'[j] = queue[j + 1]
        BY <1>2, <2>3
      <4> QED
        BY <2>1, <4>2
    <3>3. current \in DOMAIN servers /\ current # 0
      BY <1>1 DEF BoundServer
    <3>4. connState' = shown /\ servers' = SetStatus(servers, current, shown)
      BY <3>1, <3>3 DEF IngestState, SetConnectionState
    <3>5. servers'[current].status = shown
      <4>1. servers[current] \in RowType
        BY <1>1, <3>3
      <4> QED
        BY <1>1, <3>3, <3>4, <4>1 DEF SetStatus, RowType
    <3> QED
      BY <3>2, <3>4, <3>5
  <2> QED
    BY <1>2, <2>1, <2>2, <2>3
<1>4. CASE /\ \A i \in DOMAIN queue : queue[i].chan # "State"
           /\ connState = shown
           /\ servers[current].status = shown
  <2>1. Head(queue).chan # "State"
    BY <1>2, <1>4
  <2>2. UNCHANGED <<connState, servers>>
    BY <2>1 DEF IngestState, Ingest
  <2>3. \A i \in DOMAIN queue' : queue'[i].chan # "State"
    BY <1>2, <1>4
  <2> QED
    BY <1>4, <2>2, <2>3
<1> QED
  BY <1>3, <1>4 DEF AgreeInv, Settles

\* Every step keeps it.
LEMMA SettleStep == AgreeInv /\ [Next]_vars => Settles'
<1> SUFFICES ASSUME AgreeInv, [Next]_vars PROVE Settles'
  OBVIOUS
<1> USE DEF listVars, heldVars, requestVars, coreVars
<1>0. /\ TypeOK /\ BoundServer /\ servers \in Seq(RowType)
      /\ Len(servers) \in Nat /\ DOMAIN servers = 1..Len(servers)
  BY DEF AgreeInv, ListInv, TypeOK, RowType
<1>a. ASSUME session' = 0 \/ shown' = "Idle" PROVE Settles'
  BY <1>a DEF Settles
<1>b. ASSUME UNCHANGED <<session, shown, connState, queue>>,
             session # 0 => servers'[current'].status = servers[current].status
      PROVE  Settles'
  BY <1>b DEF AgreeInv, Settles
<1>1. ASSUME NEW i \in DOMAIN servers, ConnectToServer(i) PROVE Settles'
  <2>1. CASE Open(servers, i) \/ OpenFails(servers, i)
    BY <1>a, <2>1 DEF Open, OpenFails, Teardown, DropSession
  <2>2. CASE SelectServer(i)
    BY <1>b, <2>2 DEF SelectServer
  <2> QED
    BY <1>1, <2>1, <2>2 DEF ConnectToServer
<1>2. ASSUME NEW k \in Keys, ConnectToHost(k) PROVE Settles'
  BY <1>2, <1>a DEF ConnectToHost, Open, OpenFails, Teardown, DropSession
<1>3. ASSUME NEW i \in DOMAIN servers, NEW k \in Keys, EditServer(i, k) PROVE Settles'
  <2>1. CASE i = current
    BY <1>3, <1>a, <2>1 DEF EditServer, Teardown
  <2>2. CASE i # current
    <3>1. session # 0 => servers'[current'].status = servers[current].status
      BY <1>0, <1>3, <2>2 DEF EditServer, BoundServer
    <3> QED
      BY <1>3, <1>b, <2>2, <3>1 DEF EditServer
  <2> QED
    BY <2>1, <2>2
<1>4. ASSUME NEW i \in DOMAIN servers, DeleteServer(i) PROVE Settles'
  <2>1. CASE i = current
    BY <1>4, <1>a, <2>1 DEF DeleteServer, Teardown
  <2>2. CASE i # current
    <3>1. session # 0 => servers'[current'] = servers[current]
      <4>1. SUFFICES ASSUME session # 0 PROVE servers'[current'] = servers[current]
        OBVIOUS
      <4>2. current \in 1..Len(servers) /\ i \in 1..Len(servers)
        BY <1>0, <4>1 DEF BoundServer
      <4>3. servers' = RemoveAt(servers, i)
            /\ current' = IF current > i THEN current - 1 ELSE current
        BY <1>4, <2>2 DEF DeleteServer
      <4>4. CASE current > i
        <5>1. current - 1 \in i..(Len(servers) - 1) /\ (current - 1) + 1 = current
          BY <1>0, <4>2, <4>4
        <5> QED
          BY <1>0, <4>3, <4>4, <5>1, RemoveAtFacts
      <4>5. CASE current < i
        <5>1. current \in 1..(i - 1)
          BY <1>0, <4>2, <4>5
        <5> QED
          BY <1>0, <4>2, <4>3, <4>5, <5>1, RemoveAtFacts
      <4> QED
        BY <2>2, <4>2, <4>4, <4>5
    <3> QED
      BY <1>4, <1>b, <2>2, <3>1 DEF DeleteServer
  <2> QED
    BY <2>1, <2>2
<1>5. ASSUME \/ \E i \in DOMAIN servers : SelectServer(i)
             \/ \E kind \in Kinds : RequestFile(kind) \/ RequestPackages(kind)
             \/ RefreshSnapshot \/ CaptureEnds \/ UNCHANGED vars
      PROVE  Settles'
  <2>1. UNCHANGED <<session, shown, connState, queue, servers, current>>
    BY <1>5 DEF SelectServer, RequestFile, RequestPackages, RefreshSnapshot,
                CaptureEnds, Ask, vars
  <2> QED
    BY <1>b, <2>1
<1>6. ASSUME IngestConnected \/ IngestEnded \/ IngestTransient PROVE Settles'
  <2>1. IngestState /\ UNCHANGED shown
    BY <1>6 DEF IngestConnected, IngestEnded, IngestTransient, Ask
  <2> QED
    BY <2>1, IngestSettles DEF IngestState, Ingest, SetConnectionState
<1>7. ASSUME IngestUnknown \/ IngestFile \/ IngestSnapshot \/ IngestPackages
      PROVE  Settles'
  <2>1. /\ queue # <<>> /\ queue' = Tail(queue) /\ Head(queue).chan # "State"
        /\ UNCHANGED <<session, shown, current, connState, servers>>
    BY <1>7 DEF IngestUnknown, IngestFile, IngestSnapshot, IngestPackages, Ingest, Ask
  <2> QED
    BY <2>1, IngestSettles
<1> QED
  BY <1>1, <1>2, <1>3, <1>4, <1>5, <1>6, <1>7, <1>0, ReportSettles, AnswerSettles
     DEF Next, Session, User, UiThread

\* Once the queue is drained the controller, the row and the session agree,
\* whatever stale states of older sessions were in it (setConnectionState,
\* teardownSession).
THEOREM QuietControllerAgrees == Spec => []AgreesWhenQuiet
<1>1. Init => AgreeInv
  BY InitList DEF AgreeInv, Settles, Init
<1>2. AgreeInv /\ [Next]_vars => AgreeInv'
  BY ListStep, TypeStep, SettleStep DEF AgreeInv, ListInv
<1>3. AgreeInv => AgreesWhenQuiet
  BY DEF AgreeInv, Settles, AgreesWhenQuiet
<1> QED
  BY <1>1, <1>2, <1>3, PTL DEF Spec
=============================================================================
