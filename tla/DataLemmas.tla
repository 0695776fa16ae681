----------------------------- MODULE DataLemmas -----------------------------
(***************************************************************************)
(* What the proofs about sequences, folds and trees of files rest on.      *)
(* Induction is over a set of numbers, from the well-foundedness of their  *)
(* order.                                                                  *)
(***************************************************************************)
EXTENDS Integers, Trees, SequenceTheorems, FiniteSetTheorems,
        WellFoundedInduction, TLAPS

\* A set of numbers that is not empty has a least element.
LEMMA LeastNat ==
  ASSUME NEW T, T \subseteq Nat, T # {}
  PROVE  \E x \in T : \A y \in T : x <= y
<1>1. IsWellFoundedOn({ss \in Nat \X Nat : ss[1] < ss[2]}, Nat)
  BY NatLessThanWellFounded DEF OpToRel
<1>2. \E x \in T : \A y \in T : ~ (<<y, x>> \in {ss \in Nat \X Nat : ss[1] < ss[2]})
  BY <1>1, WFMin
<1>3. PICK x \in T : \A y \in T : ~ (<<y, x>> \in {ss \in Nat \X Nat : ss[1] < ss[2]})
  BY <1>2
<1>4. \A y \in T : ~(y < x)
  BY <1>3
<1> QED BY <1>4

\* Induction, for the set of the numbers that have a property.
LEMMA NatSetInduction ==
  ASSUME NEW S, 0 \in S, \A n \in Nat : n \in S => n + 1 \in S
  PROVE  Nat \subseteq S
<1> SUFFICES ASSUME Nat \ S # {} PROVE FALSE
  OBVIOUS
<1>1. PICK x \in Nat \ S : \A y \in Nat \ S : x <= y
  BY LeastNat
<1>2. x # 0 /\ x - 1 \in Nat
  BY <1>1
<1>3. x - 1 \in S
  BY <1>1, <1>2
<1> QED BY <1>1, <1>2, <1>3

\* Max is what it is called for the bounded sets of numbers.
LEMMA MaxUpTo ==
  ASSUME NEW T, T \subseteq Nat, T # {}, NEW n \in Nat, \A x \in T : x <= n
  PROVE  Max(T) \in T /\ \A y \in T : Max(T) >= y
<1>1. \E x \in T : \A y \in T : x >= y
  <2> DEFINE D == {n - x : x \in T}
  <2>1. D \subseteq Nat /\ D # {}
    <3>1. \A x \in T : n - x \in Nat
      OBVIOUS
    <3> QED BY <3>1
  <2>2. PICK d \in D : \A e \in D : d <= e
    BY <2>1, LeastNat
  <2>3. PICK x \in T : d = n - x
    OBVIOUS
  <2>4. \A y \in T : n - y \in D
    OBVIOUS
  <2>5. \A y \in T : n - x <= n - y
    BY <2>2, <2>3, <2>4
  <2> QED BY <2>5
<1> QED BY <1>1 DEF Max

\* The same for the indices of a sequence.
LEMMA MaxOfInitial ==
  ASSUME NEW N \in Nat, NEW s \in SUBSET (1..N), s # {}
  PROVE  Max(s) \in s /\ \A y \in s : Max(s) >= y
<1>1. s \subseteq Nat /\ \A x \in s : x <= N
  OBVIOUS
<1> QED BY <1>1, MaxUpTo

\* The iteration a fold is defined by: step functions are applied along a set
\* of indices.
IsIter(it, n, V, base, step) ==
  /\ it \in [SUBSET (1..n) -> V]
  /\ \A s \in SUBSET (1..n) : it[s] = IF s = {} THEN base ELSE step[Max(s)][it[s \ {Max(s)}]]

\* An iteration exists, so that a fold is what its definition chooses.
LEMMA IterExists ==
  ASSUME NEW V, NEW base \in V, NEW N \in Nat, NEW step \in [1..N -> [V -> V]]
  PROVE  \E it : IsIter(it, N, V, base, step)
<1> DEFINE S == {n \in Nat : n <= N => \E it : IsIter(it, n, V, base, step)}
<1>1. 0 \in S
  <2> DEFINE it == [s \in SUBSET (1..0) |-> base]
  <2>1. 1..0 = {} /\ SUBSET (1..0) = {{}}
    OBVIOUS
  <2>2. IsIter(it, 0, V, base, step)
    BY <2>1 DEF IsIter
  <2> QED BY <2>2
<1>2. ASSUME NEW n \in Nat, n \in S PROVE n + 1 \in S
  <2> SUFFICES ASSUME n + 1 <= N PROVE \E it : IsIter(it, n + 1, V, base, step)
    OBVIOUS
  <2>1. n <= N
    OBVIOUS
  <2>2. PICK it : IsIter(it, n, V, base, step)
    BY <1>2, <2>1
  <2> DEFINE jt == [s \in SUBSET (1..n+1) |-> IF n + 1 \in s THEN step[n + 1][it[s \ {n + 1}]] ELSE it[s]]
  <2>3. \A s \in SUBSET (1..n+1) : n + 1 \notin s => s \in SUBSET (1..n)
    OBVIOUS
  <2>4. \A s \in SUBSET (1..n+1) : s \ {n+1} \in SUBSET (1..n)
    OBVIOUS
  <2>5. step[n + 1] \in [V -> V]
    OBVIOUS
  <2>6. jt \in [SUBSET (1..n+1) -> V]
    BY <2>2, <2>3, <2>4, <2>5 DEF IsIter
  <2>7. ASSUME NEW s \in SUBSET (1..n+1), s # {}
        PROVE  jt[s] = step[Max(s)][jt[s \ {Max(s)}]]
    <3>1. Max(s) \in s /\ \A y \in s : Max(s) >= y
      <4>1. s \subseteq Nat /\ (\A x \in s : x <= n + 1) /\ n + 1 \in Nat
        OBVIOUS
      <4> HIDE DEF jt
      <4> QED BY <2>7, <4>1, MaxUpTo
    <3> HIDE DEF jt
    <3>2. CASE n + 1 \in s
      <4>1. Max(s) = n + 1
        <5>1. Max(s) \in 1..n+1
          BY <3>1
        <5> QED BY <3>1, <3>2, <5>1
      <4>2. jt[s] = step[n+1][it[s \ {n + 1}]] /\ jt[s \ {n+1}] = it[s \ {n+1}]
        BY <3>2 DEF jt
      <4> QED BY <4>1, <4>2
    <3>3. CASE n + 1 \notin s
      <4>1. jt[s] = it[s] /\ jt[s \ {Max(s)}] = it[s \ {Max(s)}]
        BY <3>3 DEF jt
      <4>2. s \in SUBSET (1..n)
        BY <2>3, <3>3
      <4>3. it[s] = step[Max(s)][it[s \ {Max(s)}]]
        BY <2>2, <2>7, <4>2 DEF IsIter
      <4> QED BY <4>1, <4>3
    <3> QED BY <3>2, <3>3
  <2>8. jt[{}] = base
    BY <2>2 DEF IsIter
  <2> HIDE DEF jt
  <2> QED BY <2>6, <2>7, <2>8 DEF IsIter
<1>3. Nat \subseteq S
  <2> HIDE DEF S
  <2> QED BY <1>1, <1>2, NatSetInduction
<1> QED BY <1>3


\* The values of an iteration over initial segments.
LEMMA Initials ==
  ASSUME NEW N \in Nat, NEW i \in 1..N
  PROVE  /\ 1..i \in SUBSET (1..N) /\ 1..i # {}
         /\ Max(1..i) = i /\ (1..i) \ {i} = 1..(i - 1)
<1>1. 1..i \in SUBSET (1..N) /\ i \in 1..i
  OBVIOUS
<1>2. Max(1..i) \in 1..i /\ \A y \in 1..i : Max(1..i) >= y
  BY <1>1, MaxOfInitial
<1>3. Max(1..i) = i
  BY <1>1, <1>2
<1>4. (1..i) \ {i} = 1..(i - 1)
  OBVIOUS
<1> QED BY <1>1, <1>3, <1>4

\* What is known of the function that the definition of a fold chooses: it
\* takes a step wherever the value before is one the step is defined for.
TakesSteps(h, n, V, base, step) ==
  /\ h[{}] = base
  /\ \A s \in SUBSET (1..n) : s # {} /\ h[s \ {Max(s)}] \in V =>
       h[s] = step[Max(s)][h[s \ {Max(s)}]]

\* The values of a fold, one by one.
IsRun(acc, n, V, base, step) ==
  /\ acc \in [0..n -> V] /\ acc[0] = base
  /\ \A i \in 1..n : acc[i] = step[i][acc[i - 1]]

LEMMA FoldRun ==
  ASSUME NEW V, NEW base \in V, NEW N \in Nat, NEW step \in [1..N -> [V -> V]], NEW h,
         TakesSteps(h, N, V, base, step)
  PROVE  \E acc : IsRun(acc, N, V, base, step) /\ acc[N] = h[1..N]
<1> USE DEF TakesSteps
<1>1. ASSUME NEW i \in 1..N, h[1..(i - 1)] \in V
      PROVE  h[1..i] = step[i][h[1..(i - 1)]] /\ h[1..i] \in V
  <2>1. /\ 1..i \in SUBSET (1..N) /\ 1..i # {}
        /\ Max(1..i) = i /\ (1..i) \ {i} = 1..(i - 1)
    BY Initials
  <2>2. h[(1..i) \ {Max(1..i)}] \in V
    BY <1>1, <2>1
  <2>3. h[1..i] = step[Max(1..i)][h[(1..i) \ {Max(1..i)}]]
    BY <2>1, <2>2
  <2>4. h[1..i] = step[i][h[1..(i - 1)]]
    BY <2>1, <2>3
  <2>5. step[i] \in [V -> V]
    OBVIOUS
  <2> QED BY <1>1, <2>4, <2>5
<1> DEFINE S == {n \in Nat : n <= N => h[1..n] \in V}
<1>2. 0 \in S
  <2>1. 1..0 = {}
    OBVIOUS
  <2> QED BY <2>1
<1>3. ASSUME NEW n \in Nat, n \in S PROVE n + 1 \in S
  <2> SUFFICES ASSUME n + 1 <= N PROVE h[1..(n + 1)] \in V
    OBVIOUS
  <2>1. n <= N /\ n + 1 \in 1..N /\ n + 1 - 1 = n
    OBVIOUS
  <2>2. h[1..n] \in V
    BY <1>3, <2>1
  <2>3. h[1..((n + 1) - 1)] \in V
    BY <2>1, <2>2
  <2> QED BY <1>1, <2>1, <2>3
<1>4. Nat \subseteq S
  <2> HIDE DEF S
  <2> QED BY <1>2, <1>3, NatSetInduction
<1>5. \A i \in 0..N : h[1..i] \in V
  <2> SUFFICES ASSUME NEW i \in 0..N PROVE h[1..i] \in V
    OBVIOUS
  <2>1. i \in Nat /\ i <= N
    OBVIOUS
  <2> QED BY <1>4, <2>1
<1> DEFINE acc == [i \in 0..N |-> h[1..i]]
<1>6. acc \in [0..N -> V]
  BY <1>5
<1>7. acc[0] = base /\ acc[N] = h[1..N]
  <2>1. 1..0 = {} /\ 0 \in 0..N /\ N \in 0..N
    OBVIOUS
  <2> QED BY <2>1
<1>8. ASSUME NEW i \in 1..N PROVE acc[i] = step[i][acc[i - 1]]
  <2>1. i \in 0..N /\ i - 1 \in 0..N
    OBVIOUS
  <2>2. acc[i] = h[1..i] /\ acc[i - 1] = h[1..(i - 1)]
    BY <2>1
  <2> QED BY <1>1, <1>5, <2>1, <2>2
<1> HIDE DEF acc
<1>9. IsRun(acc, N, V, base, step)
  BY <1>6, <1>7, <1>8 DEF IsRun
<1> QED BY <1>7, <1>9

(***************************************************************************)
(* Sequences with an element less, or more                                 *)
(***************************************************************************)
\* The elements of a concatenation, by the sequence they are from.
LEMMA Concat ==
  ASSUME NEW S, NEW a \in Seq(S), NEW b \in Seq(S)
  PROVE  /\ a \o b \in Seq(S) /\ Len(a \o b) = Len(a) + Len(b)
         /\ \A j \in 1..Len(a) : (a \o b)[j] = a[j]
         /\ \A j \in Len(a) + 1..Len(a) + Len(b) : (a \o b)[j] = b[j - Len(a)]
<1>1. PICK m \in Nat, n \in Nat : m = Len(a) /\ n = Len(b)
  OBVIOUS
<1>2. /\ a \o b \in Seq(S) /\ Len(a \o b) = m + n
      /\ \A j \in 1..m + n : (a \o b)[j] = IF j <= m THEN a[j] ELSE b[j - m]
  BY <1>1, ConcatProperties
<1>3. \A j \in m + 1..m + n : j \in 1..m + n /\ ~(j <= m)
  OBVIOUS
<1>4. \A j \in 1..m : j \in 1..m + n /\ j <= m
  OBVIOUS
<1> QED BY <1>1, <1>2, <1>3, <1>4

LEMMA RemoveAtProperties ==
  ASSUME NEW S, NEW s \in Seq(S), NEW i \in 1..Len(s)
  PROVE  /\ RemoveAt(s, i) \in Seq(S) /\ Len(RemoveAt(s, i)) = Len(s) - 1
         /\ \A j \in 1..i - 1 : RemoveAt(s, i)[j] = s[j]
         /\ \A j \in i..Len(s) - 1 : RemoveAt(s, i)[j] = s[j + 1]
<1>0. PICK m \in Nat, n \in Nat : i = m + 1 /\ Len(s) = m + 1 + n
  <2>1. i - 1 \in Nat /\ Len(s) - i \in Nat /\ i = i - 1 + 1 /\ Len(s) = i - 1 + 1 + (Len(s) - i)
    OBVIOUS
  <2> QED BY <2>1
<1> DEFINE a == SubSeq(s, 1, m)
           b == SubSeq(s, m + 2, m + 1 + n)
<1>1. a \in Seq(S) /\ Len(a) = m /\ \A j \in 1..m : a[j] = s[j]
  BY <1>0, SubSeqProperties
<1>2. b \in Seq(S) /\ Len(b) = n /\ \A j \in 1..n : b[j] = s[m + 1 + j]
  BY <1>0, SubSeqProperties
<1>3. RemoveAt(s, i) = a \o b
  BY <1>0 DEF RemoveAt
<1> HIDE DEF a, b
<1>4. /\ a \o b \in Seq(S) /\ Len(a \o b) = m + n
      /\ \A j \in 1..m : (a \o b)[j] = a[j]
      /\ \A j \in m + 1..m + n : (a \o b)[j] = b[j - m]
  <2>1. /\ a \o b \in Seq(S) /\ Len(a \o b) = Len(a) + Len(b)
        /\ \A j \in 1..Len(a) : (a \o b)[j] = a[j]
        /\ \A j \in Len(a) + 1..Len(a) + Len(b) : (a \o b)[j] = b[j - Len(a)]
    BY <1>1, <1>2, Concat, ZenonT(30)
  <2> QED BY <1>1, <1>2, <2>1
<1>5. ASSUME NEW j \in (m + 1)..(m + n) PROVE (a \o b)[j] = s[j + 1]
  <2>1. j - m \in 1..n /\ m + 1 + (j - m) = j + 1
    OBVIOUS
  <2> QED BY <1>2, <1>4, <2>1
<1>6. i..Len(s) - 1 = (m + 1)..(m + n) /\ Len(s) - 1 = m + n /\ 1..i - 1 = 1..m
  BY <1>0
<1> QED BY <1>1, <1>3, <1>4, <1>5, <1>6

LEMMA InsertAtProperties ==
  ASSUME NEW S, NEW s \in Seq(S), NEW i \in 1..Len(s) + 1, NEW e \in S
  PROVE  /\ InsertAt(s, i, e) \in Seq(S) /\ Len(InsertAt(s, i, e)) = Len(s) + 1
         /\ \A j \in 1..i - 1 : InsertAt(s, i, e)[j] = s[j]
         /\ InsertAt(s, i, e)[i] = e
         /\ \A j \in i + 1..Len(s) + 1 : InsertAt(s, i, e)[j] = s[j - 1]
<1>0. PICK m \in Nat, n \in Nat : i = m + 1 /\ Len(s) = m + n
  <2>1. i - 1 \in Nat /\ Len(s) - i + 1 \in Nat /\ i = i - 1 + 1 /\ Len(s) = i - 1 + (Len(s) - i + 1)
    OBVIOUS
  <2> QED BY <2>1
<1> DEFINE a == SubSeq(s, 1, m)
           b == SubSeq(s, m + 1, m + n)
           c == a \o <<e>>
<1>1. a \in Seq(S) /\ Len(a) = m /\ \A j \in 1..m : a[j] = s[j]
  BY <1>0, SubSeqProperties
<1>2. b \in Seq(S) /\ Len(b) = n /\ \A j \in 1..n : b[j] = s[m + j]
  BY <1>0, SubSeqProperties
<1>3. <<e>> \in Seq(S) /\ Len(<<e>>) = 1 /\ <<e>>[1] = e
  OBVIOUS
<1>4. InsertAt(s, i, e) = c \o b
  BY <1>0 DEF InsertAt
<1> HIDE DEF a, b
<1>5. /\ c \in Seq(S) /\ Len(c) = m + 1
      /\ \A j \in 1..m : c[j] = a[j]
      /\ \A j \in m + 1..m + 1 : c[j] = <<e>>[j - m]
  BY <1>1, <1>3, Concat
<1> HIDE DEF c
<1>6. /\ c \o b \in Seq(S) /\ Len(c \o b) = m + 1 + n
      /\ \A j \in 1..m + 1 : (c \o b)[j] = c[j]
      /\ \A j \in m + 1 + 1..m + 1 + n : (c \o b)[j] = b[j - (m + 1)]
  <2>1. /\ c \o b \in Seq(S) /\ Len(c \o b) = Len(c) + Len(b)
        /\ \A j \in 1..Len(c) : (c \o b)[j] = c[j]
        /\ \A j \in Len(c) + 1..Len(c) + Len(b) : (c \o b)[j] = b[j - Len(c)]
    BY <1>2, <1>5, Concat, ZenonT(30)
  <2> QED BY <1>2, <1>5, <2>1
<1>7. ASSUME NEW j \in m + 2..m + n + 1 PROVE (c \o b)[j] = s[j - 1]
  <2>1. /\ j - (m + 1) \in 1..n /\ m + (j - (m + 1)) = j - 1
        /\ j \in m + 1 + 1..m + 1 + n
    OBVIOUS
  <2> QED BY <1>2, <1>6, <2>1
<1>8. (c \o b)[i] = e
  <2>1. m + 1 \in m + 1..m + 1 /\ m + 1 \in 1..m + 1 /\ m + 1 - m = 1
    OBVIOUS
  <2> QED BY <1>0, <1>3, <1>5, <1>6, <2>1
<1>9. \A j \in 1..m : (c \o b)[j] = s[j]
  BY <1>1, <1>5, <1>6
<1>10. i + 1..Len(s) + 1 = m + 2..m + n + 1 /\ Len(s) + 1 = m + 1 + n /\ 1..i - 1 = 1..m
  BY <1>0
<1> QED BY <1>4, <1>6, <1>7, <1>8, <1>9, <1>10

LEMMA FrontLast ==
  ASSUME NEW S, NEW s \in Seq(S), s # <<>>
  PROVE  /\ Len(s) \in Nat \ {0} /\ Front(s) \in Seq(S) /\ Len(Front(s)) = Len(s) - 1
         /\ \A i \in 1..Len(s) - 1 : Front(s)[i] = s[i]
         /\ Last(s) = s[Len(s)] /\ Last(s) \in S
<1>1. Len(s) \in Nat \ {0}
  BY EmptySeq
<1>2. Last(s) = s[Len(s)] /\ Last(s) \in S
  BY <1>1 DEF Last
<1>3. \A i \in 1..Len(s) - 1 : s[i] \in S
  OBVIOUS
<1>4. /\ SubSeq(s, 1, Len(s) - 1) \in Seq(S) /\ Len(SubSeq(s, 1, Len(s) - 1)) = Len(s) - 1
      /\ \A i \in 1..Len(s) - 1 : SubSeq(s, 1, Len(s) - 1)[i] = s[i]
  <2>0. PICK n \in Nat : n = Len(s) - 1
    BY <1>1
  <2>1. n \in Nat /\ (IF 1 <= n THEN n - 1 + 1 ELSE 0) = n /\ n - 1 + 1 = n
    OBVIOUS
  <2>2. \A i \in 1..n : 1 + i - 1 = i
    OBVIOUS
  <2>3. /\ SubSeq(s, 1, n) \in Seq(S) /\ Len(SubSeq(s, 1, n)) = n
        /\ \A i \in 1..n : SubSeq(s, 1, n)[i] = s[1 + i - 1]
    BY <1>3, <2>0, <2>1, SubSeqProperties
  <2> QED BY <2>0, <2>2, <2>3
<1> QED BY <1>1, <1>2, <1>4 DEF Front

LEMMA FrontAppend ==
  ASSUME NEW S, NEW s \in Seq(S), NEW e \in S
  PROVE  /\ Append(s, e) \in Seq(S) /\ Append(s, e) # <<>> /\ Len(Append(s, e)) = Len(s) + 1
         /\ Front(Append(s, e)) = s
<1>1. /\ Append(s, e) \in Seq(S) /\ Append(s, e) # <<>> /\ Len(Append(s, e)) = Len(s) + 1
      /\ \A i \in 1..Len(s) : Append(s, e)[i] = s[i]
  BY AppendProperties
<1>2. Len(Append(s, e)) - 1 = Len(s)
  BY <1>1
<1>3. /\ Front(Append(s, e)) \in Seq(S) /\ Len(Front(Append(s, e))) = Len(s)
      /\ \A i \in 1..Len(s) : Front(Append(s, e))[i] = s[i]
  <2> DEFINE r == Append(s, e)
  <2> HIDE DEF r
  <2>1. /\ Front(r) \in Seq(S) /\ Len(Front(r)) = Len(r) - 1
        /\ \A i \in 1..Len(r) - 1 : Front(r)[i] = r[i]
    BY <1>1, FrontLast DEF r
  <2> QED BY <1>1, <1>2, <2>1 DEF r
<1> QED BY <1>1, <1>3, SeqEqual

(***************************************************************************)
(* Sequences that begin with others                                        *)
(***************************************************************************)
LEMMA PrefixElements ==
  ASSUME NEW S, NEW s \in Seq(S), NEW t \in Seq(S)
  PROVE  IsPrefix(s, t) <=> Len(s) <= Len(t) /\ \A i \in 1..Len(s) : s[i] = t[i]
<1>1. PICK m \in Nat, n \in Nat : m = Len(s) /\ n = Len(t)
  OBVIOUS
<1>2. ASSUME m <= n
      PROVE  /\ SubSeq(t, 1, m) \in Seq(S) /\ Len(SubSeq(t, 1, m)) = m
             /\ \A i \in 1..m : SubSeq(t, 1, m)[i] = t[i]
  BY <1>1, <1>2, SubSeqProperties
<1>3. SubSeq(s, 1, m) = s
  BY <1>1, SubSeqFull
<1>4. CASE m <= n
  <2>1. (s = SubSeq(t, 1, m)) <=> \A i \in 1..m : s[i] = t[i]
    BY <1>1, <1>2, <1>4, SeqEqual
  <2> QED BY <1>1, <1>3, <1>4, <2>1 DEF IsPrefix
<1>5. CASE ~(m <= n)
  BY <1>1, <1>5 DEF IsPrefix
<1> QED BY <1>4, <1>5

LEMMA PrefixOfFront ==
  ASSUME NEW S, NEW s \in Seq(S), NEW t \in Seq(S), t # <<>>
  PROVE  /\ IsPrefix(s, Front(t)) => IsPrefix(s, t) /\ s # t
         /\ IsPrefix(s, t) /\ s # t => IsPrefix(s, Front(t))
<1>1. /\ Len(t) \in Nat \ {0} /\ Front(t) \in Seq(S) /\ Len(Front(t)) = Len(t) - 1
      /\ \A i \in 1..Len(t) - 1 : Front(t)[i] = t[i]
  BY FrontLast
<1>2. PICK m \in Nat, n \in Nat : m = Len(s) /\ Len(t) = n + 1
  <2>1. Len(s) \in Nat /\ Len(t) - 1 \in Nat /\ Len(t) = Len(t) - 1 + 1
    BY <1>1
  <2> QED BY <2>1
<1>3. IsPrefix(s, t) <=> m <= n + 1 /\ \A i \in 1..m : s[i] = t[i]
  BY <1>2, PrefixElements
<1>4. IsPrefix(s, Front(t)) <=> m <= n /\ \A i \in 1..m : s[i] = Front(t)[i]
  BY <1>1, <1>2, PrefixElements
<1>5. \A i \in 1..n : Front(t)[i] = t[i]
  BY <1>1, <1>2
<1>6. m = n + 1 /\ (\A i \in 1..m : s[i] = t[i]) => s = t
  BY <1>2, SeqEqual
<1>7. IsPrefix(s, Front(t)) => IsPrefix(s, t) /\ s # t
  BY <1>2, <1>3, <1>4, <1>5
<1>8. IsPrefix(s, t) /\ s # t => IsPrefix(s, Front(t))
  BY <1>2, <1>3, <1>4, <1>5, <1>6
<1> QED BY <1>7, <1>8

LEMMA PrefixTransitive ==
  ASSUME NEW S, NEW s \in Seq(S), NEW t \in Seq(S), NEW u \in Seq(S)
  PROVE  /\ IsPrefix(s, s) /\ IsPrefix(<<>>, s)
         /\ IsPrefix(s, t) /\ IsPrefix(t, u) => IsPrefix(s, u)
         /\ IsPrefix(s, t) /\ IsPrefix(t, s) => s = t
<1>1. Len(s) \in Nat /\ Len(t) \in Nat /\ Len(u) \in Nat
  OBVIOUS
<1>2. IsPrefix(s, t) <=> Len(s) <= Len(t) /\ \A i \in 1..Len(s) : s[i] = t[i]
  BY PrefixElements
<1>3. IsPrefix(t, u) <=> Len(t) <= Len(u) /\ \A i \in 1..Len(t) : t[i] = u[i]
  BY PrefixElements
<1>4. IsPrefix(s, u) <=> Len(s) <= Len(u) /\ \A i \in 1..Len(s) : s[i] = u[i]
  BY PrefixElements
<1>5. IsPrefix(t, s) <=> Len(t) <= Len(s) /\ \A i \in 1..Len(t) : t[i] = s[i]
  BY PrefixElements
<1>6. IsPrefix(s, s)
  <2>1. IsPrefix(s, s) <=> Len(s) <= Len(s) /\ \A i \in 1..Len(s) : s[i] = s[i]
    BY PrefixElements
  <2> QED BY <1>1, <2>1
<1>7. IsPrefix(<<>>, s)
  <2>1. PICK e \in Seq(S) : e = <<>> /\ Len(e) = 0
    <3>1. <<>> \in Seq(S) /\ Len(<<>>) = 0
      OBVIOUS
    <3> QED BY <3>1
  <2>2. IsPrefix(e, s) <=> Len(e) <= Len(s) /\ \A i \in 1..Len(e) : e[i] = s[i]
    BY PrefixElements
  <2> QED BY <1>1, <2>1, <2>2
<1>8. IsPrefix(s, t) /\ IsPrefix(t, u) => IsPrefix(s, u)
  BY <1>1, <1>2, <1>3, <1>4
<1>9. IsPrefix(s, t) /\ IsPrefix(t, s) => s = t
  <2>1. Len(s) = Len(t) /\ (\A i \in 1..Len(s) : s[i] = t[i]) => s = t
    BY SeqEqual
  <2> QED BY <1>1, <1>2, <1>5, <2>1
<1> QED BY <1>6, <1>7, <1>8, <1>9

\* In a set of sequences that holds the front of each but the empty one, and
\* a property of all fronts, everything that a sequence begins with is there.
LEMMA PrefixClosed ==
  ASSUME NEW S, NEW T, T \subseteq Seq(S), NEW D, \A p \in T : p = <<>> \/ Front(p) \in T \cap D
  PROVE  \A p \in T, q \in Seq(S) : IsPrefix(q, p) /\ q # p => q \in T \cap D
<1> DEFINE N == {n \in Nat : \A p \in T, q \in Seq(S) :
                   Len(p) = n /\ IsPrefix(q, p) /\ q # p => q \in T \cap D}
<1>1. 0 \in N
  <2> SUFFICES ASSUME NEW p \in T, NEW q \in Seq(S), Len(p) = 0, IsPrefix(q, p) PROVE q = p
    OBVIOUS
  <2>1. p = <<>>
    BY EmptySeq
  <2>2. Len(q) = 0
    BY PrefixElements
  <2> QED BY <2>1, <2>2, EmptySeq
<1>2. ASSUME NEW n \in Nat, n \in N PROVE n + 1 \in N
  <2> SUFFICES ASSUME NEW p \in T, NEW q \in Seq(S), Len(p) = n + 1, IsPrefix(q, p), q # p
               PROVE  q \in T \cap D
    OBVIOUS
  <2>1. p \in Seq(S) /\ p # <<>>
    BY EmptySeq
  <2>2. Len(Front(p)) = n /\ IsPrefix(q, Front(p)) /\ Front(p) \in T \cap D
    <3>1. Len(Front(p)) = Len(p) - 1
      BY <2>1, FrontLast
    <3>2. IsPrefix(q, Front(p))
      BY <2>1, PrefixOfFront
    <3> QED BY <2>1, <3>1, <3>2
  <2>3. CASE q = Front(p)
    BY <2>2, <2>3
  <2>4. CASE q # Front(p)
    BY <1>2, <2>2, <2>4
  <2> QED BY <2>3, <2>4
<1>3. Nat \subseteq N
  <2> HIDE DEF N
  <2> QED BY <1>1, <1>2, NatSetInduction
<1> QED BY <1>3

LEMMA LastAppend ==
  ASSUME NEW S, NEW s \in Seq(S), NEW e \in S
  PROVE  Last(Append(s, e)) = e
<1>1. Append(s, e) \in Seq(S) /\ Append(s, e) # <<>> /\ Len(Append(s, e)) = Len(s) + 1
  BY FrontAppend
<1>2. Append(s, e)[Len(s) + 1] = e
  BY AppendProperties
<1> QED BY <1>1, <1>2, FrontLast

\* A sequence is empty, or its front with its last element appended.
LEMMA FrontThenLast ==
  ASSUME NEW S, NEW s \in Seq(S), s # <<>>
  PROVE  s = Append(Front(s), Last(s))
<1>1. /\ Len(s) \in Nat \ {0} /\ Front(s) \in Seq(S) /\ Len(Front(s)) = Len(s) - 1
      /\ \A i \in 1..Len(s) - 1 : Front(s)[i] = s[i]
      /\ Last(s) = s[Len(s)] /\ Last(s) \in S
  BY FrontLast
<1> DEFINE f == Front(s)
           r == Append(f, Last(s))
<1> HIDE DEF f
<1>2. /\ r \in Seq(S) /\ Len(r) = Len(f) + 1 /\ r[Len(f) + 1] = Last(s)
      /\ \A i \in 1..Len(f) : r[i] = f[i]
  BY <1>1, AppendProperties DEF f
<1> HIDE DEF r
<1>3. Len(f) = Len(s) - 1 /\ \A i \in 1..Len(s) - 1 : f[i] = s[i]
  BY <1>1 DEF f
<1>4. ASSUME NEW i \in 1..Len(s) PROVE s[i] = r[i]
  <2>1. CASE i = Len(s)
    BY <1>1, <1>2, <1>3, <2>1
  <2>2. CASE i # Len(s)
    <3>1. i \in 1..Len(s) - 1
      BY <1>1, <2>2
    <3> QED BY <1>2, <1>3, <3>1
  <2> QED BY <2>1, <2>2
<1>5. Len(r) = Len(s)
  BY <1>1, <1>2, <1>3
<1> QED BY <1>2, <1>4, <1>5, SeqEqual DEF r, f

\* Induction, for the set of the sequences that have a property.
LEMMA SequenceInduction ==
  ASSUME NEW S, NEW T, <<>> \in T, \A s \in Seq(S), e \in S : s \in T => Append(s, e) \in T
  PROVE  Seq(S) \subseteq T
<1> DEFINE N == {l \in Nat : \A s \in Seq(S) : Len(s) = l => s \in T}
<1>1. 0 \in N
  <2>1. \A s \in Seq(S) : Len(s) = 0 => s = <<>>
    BY EmptySeq
  <2> QED BY <2>1
<1>2. ASSUME NEW l \in Nat, l \in N PROVE l + 1 \in N
  <2> SUFFICES ASSUME NEW s \in Seq(S), Len(s) = l + 1 PROVE s \in T
    OBVIOUS
  <2>1. s # <<>>
    BY EmptySeq
  <2>2. Front(s) \in Seq(S) /\ Last(s) \in S /\ Len(Front(s)) = l
    BY <2>1, FrontLast
  <2>3. Front(s) \in T
    BY <1>2, <2>2
  <2>4. s = Append(Front(s), Last(s))
    BY <2>1, FrontThenLast
  <2> QED BY <2>2, <2>3, <2>4
<1>3. Nat \subseteq N
  <2> HIDE DEF N
  <2> QED BY <1>1, <1>2, NatSetInduction
<1>4. \A s \in Seq(S) : Len(s) \in N
  BY <1>3
<1> QED BY <1>4

\* What begins the front of a sequence begins it.
LEMMA PrefixOfAppend ==
  ASSUME NEW S, NEW r \in Seq(S), NEW s \in Seq(S), NEW e \in S, IsPrefix(r, s)
  PROVE  IsPrefix(r, Append(s, e)) /\ r # Append(s, e)
<1>1. Append(s, e) \in Seq(S) /\ Append(s, e) # <<>> /\ Front(Append(s, e)) = s
  BY FrontAppend
<1> QED BY <1>1, PrefixOfFront

(***************************************************************************)
(* Paths and trees                                                         *)
(***************************************************************************)
LEMMA BoundedPaths ==
  ASSUME NEW A, NEW d \in Nat
  PROVE  /\ BoundedSeq(A, d) \subseteq Seq(A)
         /\ \A p \in Seq(A) : p \in BoundedSeq(A, d) <=> Len(p) <= d
         /\ <<>> \in BoundedSeq(A, d)
<1> DEFINE P == BoundedSeq(A, d)
<1>1. d \in Nat
  OBVIOUS
<1>2. P = UNION {[1..m -> A] : m \in 0..d}
  BY DEF BoundedSeq, SeqOf
<1> HIDE DEF P
<1>3. ASSUME NEW p \in P PROVE p \in Seq(A) /\ Len(p) <= d
  <2>1. PICK m \in 0..d : p \in [1..m -> A]
    BY <1>2
  <2>2. m \in Nat /\ p \in Seq(A) /\ Len(p) = m
    BY <1>1, <2>1
  <2> QED BY <1>1, <2>1, <2>2
<1>4. ASSUME NEW p \in Seq(A), Len(p) <= d PROVE p \in P
  <2>1. Len(p) \in 0..d /\ p \in [1..Len(p) -> A]
    BY <1>1, <1>4
  <2> QED BY <1>2, <2>1
<1>5. <<>> \in P
  <2>1. <<>> \in Seq(A) /\ Len(<<>>) = 0
    OBVIOUS
  <2>2. Len(<<>>) <= d
    BY <1>1, <2>1
  <2> QED BY <1>4, <2>1, <2>2
<1> QED BY <1>3, <1>4, <1>5 DEF P

\* The front of a path is a shorter path.
LEMMA BoundedFronts ==
  ASSUME NEW A, NEW d \in Nat, NEW p \in BoundedSeq(A, d), p # <<>>
  PROVE  Front(p) \in BoundedSeq(A, d) /\ Front(p) # p /\ Len(Front(p)) = Len(p) - 1 /\ Parent(p) = Front(p)
<1>1. p \in Seq(A) /\ Len(p) <= d
  BY BoundedPaths
<1>2. Front(p) \in Seq(A) /\ Len(Front(p)) = Len(p) - 1 /\ Len(p) \in Nat \ {0}
  BY <1>1, FrontLast
<1>3. Len(Front(p)) <= d
  BY <1>1, <1>2
<1> QED BY <1>2, <1>3, BoundedPaths DEF Parent

LEMMA PutTree ==
  ASSUME NEW P, NEW N, NEW t, TreeOf(t, N, P), NEW p \in P, NEW n \in N,
         DirAt(t, Parent(p)), ~DirAt(t, p)
  PROVE  TreeOf(Put(t, p, n), N, P) /\ DOMAIN Put(t, p, n) = DOMAIN t \cup {p}
<1> DEFINE u == Put(t, p, n)
<1>1. u = [q \in DOMAIN t \cup {p} |-> IF q = p THEN n ELSE t[q]]
  BY DEF Put
<1>2. /\ t \in [DOMAIN t -> N] /\ DOMAIN t \subseteq P
      /\ DirAt(t, <<>>) /\ \A q \in DOMAIN t : DirAt(t, Parent(q))
  BY DEF TreeOf, WellFormed
<1> HIDE DEF u
<1>3. ASSUME NEW q \in DOMAIN t, DirAt(t, q) PROVE DirAt(u, q)
  <2>1. q # p
    BY <1>3 DEF DirAt
  <2> QED BY <1>1, <1>3, <2>1 DEF DirAt
<1>4. \A q \in DOMAIN u : DirAt(u, Parent(q))
  BY <1>1, <1>2, <1>3 DEF DirAt
<1>5. DirAt(u, <<>>)
  BY <1>2, <1>3 DEF DirAt
<1>6. u \in [DOMAIN u -> N] /\ DOMAIN u \subseteq P
  BY <1>1, <1>2
<1> QED BY <1>1, <1>4, <1>5, <1>6 DEF TreeOf, WellFormed, u

\* What lies above an entry is a directory.
LEMMA DirectoriesAbove ==
  ASSUME NEW A, NEW P, P \subseteq Seq(A), NEW N, NEW t, TreeOf(t, N, P)
  PROVE  \A p \in DOMAIN t, q \in Seq(A) : IsPrefix(q, p) /\ q # p => DirAt(t, q)
<1> DEFINE D == {q \in DOMAIN t : t[q].kind = "dir"}
<1>1. /\ DOMAIN t \subseteq Seq(A)
      /\ \A p \in DOMAIN t : p = <<>> \/ Front(p) \in DOMAIN t \cap D
  BY DEF TreeOf, WellFormed, DirAt, Parent
<1>2. \A p \in DOMAIN t, q \in Seq(A) : IsPrefix(q, p) /\ q # p => q \in DOMAIN t \cap D
  <2> HIDE DEF D
  <2> QED BY <1>1, PrefixClosed
<1> QED BY <1>2 DEF DirAt

\* Below a directory without entries there is nothing.
LEMMA NothingBelow ==
  ASSUME NEW A, NEW P, P \subseteq Seq(A), NEW N, NEW t, TreeOf(t, N, P),
         NEW d \in Seq(A), Children(t, d) = {}
  PROVE  \A p \in DOMAIN t : IsPrefix(d, p) => p = d
<1> DEFINE B == {p \in DOMAIN t : IsPrefix(d, p) /\ p # d}
           T == {Len(p) : p \in B}
<1>1. DOMAIN t \subseteq Seq(A) /\ \A p \in DOMAIN t : p # <<>> => Front(p) \in DOMAIN t
  BY DEF TreeOf, WellFormed, DirAt, Parent
<1> SUFFICES ASSUME B # {} PROVE FALSE
  OBVIOUS
<1>2. T \subseteq Nat /\ T # {}
  <2>1. \A p \in B : Len(p) \in Nat
    BY <1>1
  <2> QED BY <2>1
<1>3. PICK p \in B : \A q \in B : Len(p) <= Len(q)
  <2> HIDE DEF B
  <2>1. PICK l \in T : \A k \in T : l <= k
    BY <1>2, LeastNat
  <2> QED BY <2>1
<1>4. p \in Seq(A) /\ p # <<>>
  BY <1>1, PrefixTransitive
<1>5. IsPrefix(d, Front(p)) /\ Front(p) \in DOMAIN t
  BY <1>1, <1>4, PrefixOfFront
<1>6. Front(p) \notin B
  BY <1>3, <1>4, FrontLast
<1>7. Front(p) = d
  BY <1>5, <1>6
<1> QED BY <1>4, <1>7 DEF Children

LEMMA WithoutTree ==
  ASSUME NEW A, NEW P, P \subseteq Seq(A), NEW N, NEW t, TreeOf(t, N, P),
         NEW d \in Seq(A), d # <<>>
  PROVE  TreeOf(Without(t, Within(d, DOMAIN t)), N, P)
<1> DEFINE S == Within(d, DOMAIN t)
           u == Without(t, S)
<1>1. u = [q \in DOMAIN t \ S |-> t[q]]
  BY DEF Without, Restrict
<1>2. /\ t \in [DOMAIN t -> N] /\ DOMAIN t \subseteq P
      /\ DirAt(t, <<>>) /\ \A q \in DOMAIN t : DirAt(t, Parent(q))
  BY DEF TreeOf, WellFormed
<1>3. <<>> \notin S
  <2>1. <<>> \in Seq(A) /\ IsPrefix(<<>>, d)
    BY PrefixTransitive
  <2> QED BY <2>1, PrefixTransitive DEF Within
<1>4. ASSUME NEW q \in DOMAIN t, q \notin S PROVE Parent(q) \notin S
  <2>1. CASE q = <<>>
    BY <1>3, <2>1 DEF Parent
  <2>2. CASE q # <<>>
    <3>1. q \in Seq(A) /\ Parent(q) = Front(q)
      BY <1>2, <2>2 DEF Parent
    <3> QED BY <1>4, <2>2, <3>1, PrefixOfFront DEF Within
  <2> QED BY <2>1, <2>2
<1> HIDE DEF u, S
<1>5. DirAt(u, <<>>) /\ \A q \in DOMAIN u : DirAt(u, Parent(q))
  BY <1>1, <1>2, <1>3, <1>4 DEF DirAt
<1>6. u \in [DOMAIN u -> N] /\ DOMAIN u \subseteq P
  BY <1>1, <1>2
<1> QED BY <1>5, <1>6 DEF TreeOf, WellFormed, u, S

\* r lies below to as p lies below from.
LiesAlike(A, p, from, r, to) ==
  /\ r \in Seq(A) /\ IsPrefix(to, r)
  /\ p = from => r = to
  /\ Len(r) + Len(from) = Len(to) + Len(p)
  /\ \A i \in 1..Len(p) - Len(from) : r[Len(to) + i] = p[Len(from) + i]

\* What lies below a path, put below another.
LEMMA RebasedElements ==
  ASSUME NEW A, NEW p \in Seq(A), NEW from \in Seq(A), NEW to \in Seq(A), IsPrefix(from, p)
  PROVE  LiesAlike(A, p, from, Rebase(p, from, to), to)
<1> DEFINE r == Rebase(p, from, to)
<1>1. PICK k \in Nat, m \in Nat, n \in Nat : Len(from) = k /\ Len(to) = m /\ Len(p) = k + n
  <2>1. Len(from) <= Len(p)
    BY PrefixElements
  <2>2. /\ Len(p) - Len(from) \in Nat /\ Len(p) = Len(from) + (Len(p) - Len(from))
        /\ Len(from) \in Nat /\ Len(to) \in Nat
    BY <2>1
  <2> QED BY <2>2
<1> DEFINE b == SubSeq(p, k + 1, k + n)
<1>2. b \in Seq(A) /\ Len(b) = n /\ \A i \in 1..n : b[i] = p[k + i]
  BY <1>1, SubSeqProperties
<1>3. r = to \o b
  BY <1>1 DEF Rebase
<1> HIDE DEF b, r
<1>4. /\ to \o b \in Seq(A) /\ Len(to \o b) = Len(to) + Len(b)
      /\ \A j \in 1..Len(to) : (to \o b)[j] = to[j]
      /\ \A j \in Len(to) + 1..Len(to) + Len(b) : (to \o b)[j] = b[j - Len(to)]
  BY <1>2, Concat, Zenon
<1>5. /\ r \in Seq(A) /\ Len(r) = m + n
      /\ \A j \in 1..m : r[j] = to[j]
      /\ \A j \in m + 1..m + n : r[j] = b[j - m]
  BY <1>1, <1>2, <1>3, <1>4
<1>6. IsPrefix(to, r)
  <2>1. IsPrefix(to, r) <=> Len(to) <= Len(r) /\ \A i \in 1..Len(to) : to[i] = r[i]
    BY <1>5, PrefixElements
  <2> QED BY <1>1, <1>5, <2>1
<1>7. ASSUME p = from PROVE r = to
  <2>1. n = 0
    BY <1>1, <1>7
  <2> QED BY <1>1, <1>5, <2>1, SeqEqual
<1>8. ASSUME NEW i \in 1..n PROVE r[m + i] = p[k + i]
  <2>1. m + i \in m + 1..m + n /\ m + i - m = i
    OBVIOUS
  <2>2. r[m + i] = b[i]
    BY <1>5, <2>1
  <2> QED BY <1>2, <2>2
<1>9. Len(p) - Len(from) = n /\ Len(r) + Len(from) = Len(to) + Len(p)
  BY <1>1, <1>5
<1>10. \A i \in 1..Len(p) - Len(from) : r[Len(to) + i] = p[Len(from) + i]
  BY <1>1, <1>8, <1>9
<1> QED BY <1>5, <1>6, <1>7, <1>9, <1>10 DEF r, LiesAlike

LEMMA SamePlace ==
  ASSUME NEW A, NEW p \in Seq(A), NEW from \in Seq(A), IsPrefix(from, p)
  PROVE  Rebase(p, from, from) = p
<1> DEFINE r == Rebase(p, from, from)
<1>1. LiesAlike(A, p, from, r, from)
  BY RebasedElements
<1> HIDE DEF r
<1>2. PICK k \in Nat, n \in Nat : Len(from) = k /\ Len(p) = n
  OBVIOUS
<1>3. /\ r \in Seq(A) /\ Len(r) = n /\ k <= n
      /\ \A i \in 1..k : from[i] = r[i] /\ from[i] = p[i]
      /\ \A i \in 1..n - k : r[k + i] = p[k + i]
  <2>1. r \in Seq(A) /\ IsPrefix(from, r) /\ Len(r) + k = k + n
    BY <1>1, <1>2 DEF LiesAlike
  <2>2. Len(r) = n /\ \A i \in 1..n - k : r[k + i] = p[k + i]
    BY <1>1, <1>2, <2>1 DEF LiesAlike
  <2>3. \A i \in 1..k : from[i] = r[i]
    BY <1>2, <2>1, PrefixElements
  <2>4. k <= n /\ \A i \in 1..k : from[i] = p[i]
    BY <1>2, PrefixElements
  <2> QED BY <2>1, <2>2, <2>3, <2>4
<1>4. ASSUME NEW i \in 1..n PROVE r[i] = p[i]
  <2>1. CASE i \in 1..k
    BY <1>3, <2>1
  <2>2. CASE i \notin 1..k
    <3>1. i - k \in 1..n - k /\ k + (i - k) = i
      BY <1>2, <2>2
    <3> QED BY <1>3, <3>1
  <2> QED BY <2>1, <2>2
<1>5. r = p
  BY <1>2, <1>3, <1>4, SeqEqual
<1> QED BY <1>5 DEF r

\* It can be put back, and its front is that of what was put there.
LEMMA RebasedPaths ==
  ASSUME NEW A, NEW p \in Seq(A), NEW from \in Seq(A), NEW to \in Seq(A), IsPrefix(from, p)
  PROVE  /\ Rebase(p, from, to) \in Seq(A) /\ IsPrefix(to, Rebase(p, from, to))
         /\ Rebase(Rebase(p, from, to), to, from) = p
         /\ p = from => Rebase(p, from, to) = to
         /\ p # from => /\ p # <<>> /\ IsPrefix(from, Front(p)) /\ Rebase(p, from, to) # <<>>
                        /\ Front(Rebase(p, from, to)) = Rebase(Front(p), from, to)
<1> DEFINE r == Rebase(p, from, to)
           b == Rebase(r, to, from)
           f == Rebase(Front(p), from, to)
<1>1. PICK k \in Nat, m \in Nat, n \in Nat : k = Len(from) /\ m = Len(to) /\ Len(p) = k + n
  <2>1. Len(from) <= Len(p)
    BY PrefixElements
  <2>2. /\ Len(p) - Len(from) \in Nat /\ Len(p) = Len(from) + (Len(p) - Len(from))
        /\ Len(from) \in Nat /\ Len(to) \in Nat
    BY <2>1
  <2> QED BY <2>2
<1>2. /\ r \in Seq(A) /\ IsPrefix(to, r) /\ Len(r) = m + n
      /\ p = from => r = to
      /\ \A i \in 1..n : r[m + i] = p[k + i]
  <2>1. LiesAlike(A, p, from, r, to)
    BY RebasedElements
  <2> HIDE DEF r
  <2> QED BY <1>1, <2>1 DEF LiesAlike
<1> HIDE DEF r
<1>3. /\ b \in Seq(A) /\ IsPrefix(from, b) /\ Len(b) = k + n
      /\ \A i \in 1..n : b[k + i] = r[m + i]
  <2>1. LiesAlike(A, r, to, b, from)
    BY <1>2, RebasedElements
  <2> HIDE DEF b
  <2> QED BY <1>1, <1>2, <2>1 DEF LiesAlike
<1> HIDE DEF b
<1>4. Len(r) = m + n /\ Len(b) = k + n /\ \A i \in 1..n : b[k + i] = p[k + i]
  BY <1>2, <1>3
<1>5. \A i \in 1..k : b[i] = p[i]
  <2>1. \A i \in 1..Len(from) : from[i] = b[i]
    BY <1>3, PrefixElements
  <2>2. \A i \in 1..Len(from) : from[i] = p[i]
    BY PrefixElements
  <2> QED BY <1>1, <2>1, <2>2
<1>6. b = p
  <2>1. ASSUME NEW i \in 1..k + n PROVE b[i] = p[i]
    <3>1. CASE i \in 1..k
      BY <1>5, <3>1
    <3>2. CASE i \notin 1..k
      <4>1. i - k \in 1..n /\ k + (i - k) = i
        BY <3>2
      <4> QED BY <1>4, <4>1
    <3> QED BY <3>1, <3>2
  <2> QED BY <1>1, <1>3, <1>4, <2>1, SeqEqual
<1>7. ASSUME p # from
      PROVE  p # <<>> /\ IsPrefix(from, Front(p)) /\ r # <<>> /\ Front(r) = f
  <2>1. n # 0 /\ p # <<>>
    <3>1. p # <<>>
      BY <1>7, PrefixTransitive
    <3>2. n # 0
      BY <1>1, <1>7, PrefixElements, SeqEqual
    <3> QED BY <3>1, <3>2
  <2>2. IsPrefix(from, Front(p))
    BY <1>7, <2>1, PrefixOfFront
  <2>3. /\ Front(p) \in Seq(A) /\ Len(Front(p)) = k + n - 1
        /\ \A i \in 1..k + n - 1 : Front(p)[i] = p[i]
    <3>1. /\ Front(p) \in Seq(A) /\ Len(Front(p)) = Len(p) - 1
          /\ \A i \in 1..Len(p) - 1 : Front(p)[i] = p[i]
      BY <2>1, FrontLast
    <3> QED BY <1>1, <3>1
  <2>4. PICK l \in Nat : n = l + 1
    <3>1. n - 1 \in Nat /\ n = n - 1 + 1
      BY <2>1
    <3> QED BY <3>1
  <2>5. Len(Front(p)) = k + l
    BY <2>3, <2>4
  <2>6. /\ f \in Seq(A) /\ IsPrefix(to, f) /\ Len(f) = m + l
        /\ \A i \in 1..l : f[m + i] = Front(p)[k + i]
    <3>1. LiesAlike(A, Front(p), from, f, to)
      BY <2>2, <2>3, RebasedElements
    <3> HIDE DEF f
    <3>2. /\ f \in Seq(A) /\ IsPrefix(to, f) /\ Len(f) + Len(from) = Len(to) + Len(Front(p))
          /\ \A i \in 1..Len(Front(p)) - Len(from) : f[Len(to) + i] = Front(p)[Len(from) + i]
      BY <3>1 DEF LiesAlike
    <3>3. Len(Front(p)) - Len(from) = l /\ Len(from) = k /\ Len(to) = m /\ Len(f) = m + l
      BY <1>1, <2>5, <3>2
    <3> QED BY <3>2, <3>3
  <2> HIDE DEF f
  <2>7. r # <<>>
    BY <1>2, <1>4, <2>4, EmptySeq
  <2>8. /\ Front(r) \in Seq(A) /\ Len(Front(r)) = m + l
        /\ \A i \in 1..m + l : Front(r)[i] = r[i]
    <3>1. /\ Front(r) \in Seq(A) /\ Len(Front(r)) = Len(r) - 1
          /\ \A i \in 1..Len(r) - 1 : Front(r)[i] = r[i]
      BY <1>2, <2>7, FrontLast
    <3> QED BY <1>4, <2>4, <3>1
  <2>9. ASSUME NEW i \in 1..m + l PROVE Front(r)[i] = f[i]
    <3>1. CASE i \in 1..m
      <4>1. i \in 1..Len(to)
        BY <1>1, <3>1
      <4>2. r[i] = to[i]
        BY <1>1, <1>2, <4>1, PrefixElements
      <4>3. f[i] = to[i]
        BY <1>1, <2>6, <4>1, PrefixElements
      <4> QED BY <2>8, <3>1, <4>2, <4>3
    <3>2. CASE i \notin 1..m
      <4>1. PICK j \in 1..l : i = m + j
        <5>1. i - m \in 1..l /\ i = m + (i - m)
          BY <3>2
        <5> QED BY <5>1
      <4>2. f[m + j] = Front(p)[k + j] /\ r[m + j] = p[k + j]
        <5>1. j \in 1..n
          BY <2>4
        <5> QED BY <1>2, <2>6, <5>1
      <4>3. Front(p)[k + j] = p[k + j]
        BY <2>3, <2>4
      <4> QED BY <2>8, <4>1, <4>2, <4>3
    <3> QED BY <3>1, <3>2
  <2>10. Front(r) = f
    BY <2>6, <2>8, <2>9, SeqEqual
  <2> QED BY <2>1, <2>2, <2>7, <2>10
<1> QED BY <1>2, <1>6, <1>7 DEF r, b

LEMMA MovedTree ==
  ASSUME NEW A, NEW P, P \subseteq Seq(A), NEW N, NEW t, TreeOf(t, N, P),
         NEW from \in DOMAIN t, NEW to \in P, to # <<>>,
         DirAt(t, Parent(to)), ~IsPrefix(from, to), ~DirAt(t, to),
         Rebased(DOMAIN t, from, to) \subseteq P
  PROVE  TreeOf(Moved(t, from, to), N, P)
<1> DEFINE M == Rebased(DOMAIN t, from, to)
           W == Within(from, DOMAIN t)
           u == Moved(t, from, to)
<1>1. u = [q \in M \cup (DOMAIN t \ W) |-> IF q \in M THEN t[Rebase(q, to, from)] ELSE t[q]]
  BY DEF Moved
<1>2. /\ t \in [DOMAIN t -> N] /\ DOMAIN t \subseteq P /\ DOMAIN t \subseteq Seq(A)
      /\ DirAt(t, <<>>) /\ \A q \in DOMAIN t : DirAt(t, Parent(q))
      /\ from \in Seq(A) /\ to \in Seq(A)
  BY DEF TreeOf, WellFormed
<1>3. W = {p \in DOMAIN t : IsPrefix(from, p)} /\ M = {Rebase(p, from, to) : p \in W}
  BY DEF Within, Rebased
<1> HIDE DEF M, W, u
<1>4. ASSUME NEW p \in W
      PROVE  /\ Rebase(p, from, to) \in M /\ u[Rebase(p, from, to)] = t[p]
             /\ Rebase(p, from, to) \in Seq(A) /\ IsPrefix(to, Rebase(p, from, to))
  BY <1>1, <1>2, <1>3, RebasedPaths
<1>5. \A q \in M : q \in Seq(A) /\ IsPrefix(to, q)
  BY <1>3, <1>4
<1>6. <<>> \notin W /\ <<>> \notin M
  <2>1. <<>> \in Seq(A) /\ IsPrefix(<<>>, to) /\ IsPrefix(<<>>, from)
    BY <1>2, PrefixTransitive
  <2>2. from # <<>>
    BY <2>1
  <2> QED BY <1>2, <1>3, <1>5, <2>1, <2>2, PrefixTransitive
<1>7. DirAt(u, <<>>)
  BY <1>1, <1>2, <1>6 DEF DirAt
<1>8. ASSUME NEW q \in M PROVE DirAt(u, Parent(q))
  <2>1. PICK p \in W : q = Rebase(p, from, to)
    BY <1>3
  <2>2. CASE p = from
    <3>1. q = to /\ Parent(to) = Front(to) /\ Front(to) \in Seq(A) /\ Front(to) \in DOMAIN t
      BY <1>2, <2>1, <2>2, <1>3, RebasedPaths, FrontLast DEF Parent, DirAt
    <3>2. Front(to) \notin W /\ Front(to) \notin M
      BY <1>2, <1>3, <1>5, <3>1, PrefixOfFront
    <3> QED BY <1>1, <3>1, <3>2 DEF DirAt
  <2>3. CASE p # from
    <3>1. /\ p # <<>> /\ IsPrefix(from, Front(p)) /\ q # <<>>
          /\ Front(q) = Rebase(Front(p), from, to)
      BY <1>2, <1>3, <2>1, <2>3, RebasedPaths
    <3>2. DirAt(t, Front(p)) /\ Front(p) \in W
      BY <1>2, <1>3, <3>1 DEF Parent, DirAt
    <3> QED BY <1>1, <1>4, <3>1, <3>2 DEF DirAt, Parent
  <2> QED BY <2>2, <2>3
<1>9. ASSUME NEW q \in DOMAIN t, q \notin W PROVE DirAt(u, Parent(q))
  <2>1. CASE q = <<>>
    BY <1>7, <2>1 DEF Parent
  <2>2. CASE q # <<>>
    <3>1. Parent(q) = Front(q) /\ DirAt(t, Front(q)) /\ Front(q) \in DOMAIN t
      BY <1>2, <2>2 DEF Parent, DirAt
    <3>2. Front(q) \notin W
      BY <1>2, <1>3, <1>9, <2>2, <3>1, PrefixOfFront
    <3>3. Front(q) \notin M
      <4>1. Front(q) \in M => IsPrefix(to, q) /\ to # q
        BY <1>2, <1>5, <2>2, PrefixOfFront
      <4> QED BY <1>2, <4>1, DirectoriesAbove
    <3> QED BY <1>1, <3>1, <3>2, <3>3 DEF DirAt
  <2> QED BY <2>1, <2>2
<1>10. \A q \in DOMAIN u : DirAt(u, Parent(q))
  BY <1>1, <1>8, <1>9
<1>11. u \in [DOMAIN u -> N] /\ DOMAIN u \subseteq P
  <2>1. \A q \in M : u[q] \in N
    BY <1>2, <1>3, <1>4
  <2>2. M \subseteq P
    BY DEF M
  <2> QED BY <1>1, <1>2, <2>1, <2>2
<1> QED BY <1>7, <1>10, <1>11 DEF TreeOf, WellFormed, u

(***************************************************************************)
(* The elements of a set of numbers in their order                         *)
(***************************************************************************)
UpTo(is, i) == {j \in is : j <= i}

\* w lists the c elements of the set is: the n-th has n elements up to it.
Ranking(w, is, c) ==
  /\ c = Cardinality(is) /\ w \in [1..c -> is]
  /\ \A n \in 1..c : Cardinality(UpTo(is, w[n])) = n
  /\ \A i \in is : Cardinality(UpTo(is, i)) \in 1..c
  /\ \A i \in is : w[Cardinality(UpTo(is, i))] = i

LEMMA RankingEmpty ==
  ASSUME NEW w, w = [n \in 1..0 |-> n]
  PROVE  Ranking(w, {}, 0)
<1>1. Cardinality({}) = 0 /\ 1..0 = {}
  BY FS_EmptySet
<1>2. w \in [1..0 -> {}]
  BY <1>1
<1> QED BY <1>1, <1>2 DEF Ranking

\* A number that is greater than all comes last.
LEMMA RankingNext ==
  ASSUME NEW k \in Nat, NEW is, is \subseteq 1..k, NEW c \in Nat, NEW w, Ranking(w, is, c),
         NEW v, v = [n \in 1..c + 1 |-> IF n = c + 1 THEN k + 1 ELSE w[n]]
  PROVE  Ranking(v, is \cup {k + 1}, c + 1)
<1> DEFINE js == is \cup {k + 1}
<1>1. IsFiniteSet(is) /\ k + 1 \notin is
  <2>1. IsFiniteSet(1..k)
    BY FS_Interval
  <2>2. IsFiniteSet(is)
    BY <2>1, FS_Subset
  <2>3. k + 1 \notin 1..k
    OBVIOUS
  <2> QED BY <2>2, <2>3
<1>2. Cardinality(js) = c + 1
  BY <1>1, FS_AddElement DEF Ranking
<1>3. \A i \in is : UpTo(js, i) = UpTo(is, i)
  BY DEF UpTo
<1>4. UpTo(js, k + 1) = js
  <2>1. \A j \in js : j <= k + 1
    OBVIOUS
  <2> QED BY <2>1 DEF UpTo
<1>5. v[c + 1] = k + 1 /\ \A n \in 1..c : v[n] = w[n]
  OBVIOUS
<1>6. \A n \in 1..c : w[n] \in is
  BY DEF Ranking
<1>7. v \in [1..c + 1 -> js]
  BY <1>6
<1>8. ASSUME NEW n \in 1..c + 1 PROVE Cardinality(UpTo(js, v[n])) = n
  <2>1. CASE n = c + 1
    BY <2>1, <1>2, <1>4, <1>5
  <2>2. CASE n \in 1..c
    BY <2>2, <1>3, <1>5, <1>6 DEF Ranking
  <2> QED BY <2>1, <2>2
<1>9. ASSUME NEW i \in js
      PROVE  Cardinality(UpTo(js, i)) \in 1..c + 1 /\ v[Cardinality(UpTo(js, i))] = i
  <2>1. CASE i = k + 1
    <3>1. Cardinality(UpTo(js, i)) = c + 1
      BY <2>1, <1>2, <1>4
    <3> QED BY <2>1, <3>1, <1>5
  <2>2. CASE i \in is
    <3>1. PICK n \in 1..c : n = Cardinality(UpTo(is, i)) /\ w[n] = i
      BY <2>2 DEF Ranking
    <3>2. Cardinality(UpTo(js, i)) = n
      BY <2>2, <3>1, <1>3
    <3> QED BY <3>1, <3>2, <1>5
  <2> QED BY <2>1, <2>2
<1> HIDE DEF js
<1>10. Ranking(v, js, c + 1)
  BY <1>2, <1>7, <1>8, <1>9 DEF Ranking
<1> QED BY <1>10 DEF js

\* The element that has n elements up to it is the n-th.
LEMMA RankingChoice ==
  ASSUME NEW w, NEW is, NEW c, Ranking(w, is, c), NEW n \in 1..c
  PROVE  (CHOOSE i \in is : Cardinality(UpTo(is, i)) = n) = w[n]
<1>1. w[n] \in is /\ Cardinality(UpTo(is, w[n])) = n
  BY DEF Ranking
<1>2. \A i \in is : Cardinality(UpTo(is, i)) = n => i = w[n]
  BY DEF Ranking
<1> QED BY <1>1, <1>2

(***************************************************************************)
(* Sequences put together                                                  *)
(***************************************************************************)
\* What is done at the end of b is done at the end of a \o b.
AppendsAlike(a, b, e) == Append(a \o b, e) = a \o Append(b, e)
EndsAlike(a, b) == a \o b # <<>> /\ Last(a \o b) = Last(b) /\ Front(a \o b) = a \o Front(b)

LEMMA ConcatEnds ==
  ASSUME NEW S, NEW a \in Seq(S), NEW b \in Seq(S), NEW e \in S
  PROVE  AppendsAlike(a, b, e) /\ (b # <<>> => EndsAlike(a, b))
<1>1. PICK m \in Nat, n \in Nat : m = Len(a) /\ n = Len(b)
  OBVIOUS
<1>2. /\ a \o b \in Seq(S) /\ Len(a \o b) = m + n
      /\ \A j \in 1..m : (a \o b)[j] = a[j]
      /\ \A j \in m + 1..m + n : (a \o b)[j] = b[j - m]
  BY <1>1, Concat, ZenonT(30)
<1>3. PICK c : c = a \o b
  OBVIOUS
<1>4. Append(c, e) = a \o Append(b, e)
  <2>1. PICK d : d = Append(b, e)
    OBVIOUS
  <2>2. d \in Seq(S) /\ Len(d) = n + 1 /\ d[n + 1] = e /\ \A j \in 1..n : d[j] = b[j]
    BY <1>1, <2>1, AppendProperties
  <2>3. /\ a \o d \in Seq(S) /\ Len(a \o d) = Len(a) + Len(d)
        /\ \A j \in 1..Len(a) : (a \o d)[j] = a[j]
        /\ \A j \in Len(a) + 1..Len(a) + Len(d) : (a \o d)[j] = d[j - Len(a)]
    BY <2>2, Concat, ZenonT(30)
  <2>4. /\ Append(c, e) \in Seq(S) /\ Len(Append(c, e)) = m + n + 1
        /\ Append(c, e)[m + n + 1] = e /\ \A j \in 1..m + n : Append(c, e)[j] = c[j]
    BY <1>2, <1>3, AppendProperties
  <2>5. PICK f, g : f = a \o d /\ g = Append(c, e)
    OBVIOUS
  <2>6. f \in Seq(S) /\ g \in Seq(S) /\ Len(f) = m + n + 1 /\ Len(g) = m + n + 1
    BY <1>1, <2>2, <2>3, <2>4, <2>5
  <2>7. ASSUME NEW j \in 1..m + n + 1 PROVE f[j] = g[j]
    <3>1. CASE j <= m
      BY <1>1, <1>2, <1>3, <2>3, <2>4, <2>5, <3>1
    <3>2. CASE m < j /\ j <= m + n
      <4>1. j \in m + 1..m + n /\ j - m \in 1..n /\ j \in m + 1..m + (n + 1) /\ j \in 1..m + n
        BY <3>2
      <4>2. f[j] = d[j - m]
        BY <1>1, <2>2, <2>3, <2>5, <4>1
      <4> QED BY <1>2, <1>3, <2>2, <2>4, <2>5, <4>1, <4>2
    <3>3. CASE j = m + n + 1
      <4>1. f[j] = d[j - m] /\ j - m = n + 1
        BY <1>1, <2>2, <2>3, <2>5, <3>3
      <4> QED BY <2>2, <2>4, <2>5, <3>3, <4>1
    <3> QED BY <3>1, <3>2, <3>3
  <2>8. f = g
    BY <2>6, <2>7, SeqEqual
  <2> QED BY <2>1, <2>5, <2>8
<1>5. ASSUME b # <<>> PROVE c # <<>> /\ Last(c) = Last(b) /\ Front(c) = a \o Front(b)
  <2>1. /\ n \in Nat \ {0} /\ Front(b) \in Seq(S) /\ Len(Front(b)) = n - 1
        /\ \A j \in 1..n - 1 : Front(b)[j] = b[j]
        /\ Last(b) = b[n]
    BY <1>1, <1>5, FrontLast
  <2>2. c # <<>>
    <3>1. Len(<<>>) = 0
      OBVIOUS
    <3> QED BY <1>2, <1>3, <2>1, <3>1
  <2>3. /\ Front(c) \in Seq(S) /\ Len(Front(c)) = m + n - 1
        /\ \A j \in 1..m + n - 1 : Front(c)[j] = c[j]
        /\ Last(c) = c[m + n]
    <3>1. c \in Seq(S) /\ Len(c) = m + n
      BY <1>2, <1>3
    <3>2. /\ Front(c) \in Seq(S) /\ Len(Front(c)) = Len(c) - 1
          /\ \A j \in 1..Len(c) - 1 : Front(c)[j] = c[j]
          /\ Last(c) = c[Len(c)]
      BY <2>2, <3>1, FrontLast
    <3> QED BY <3>1, <3>2
  <2>4. Last(c) = Last(b)
    <3>1. m + n \in m + 1..m + n /\ m + n - m = n
      BY <2>1
    <3> QED BY <1>2, <1>3, <2>1, <2>3, <3>1
  <2>5. PICK d : d = Front(b)
    OBVIOUS
  <2>6. /\ a \o d \in Seq(S) /\ Len(a \o d) = Len(a) + Len(d)
        /\ \A j \in 1..Len(a) : (a \o d)[j] = a[j]
        /\ \A j \in Len(a) + 1..Len(a) + Len(d) : (a \o d)[j] = d[j - Len(a)]
    BY <2>1, <2>5, Concat, ZenonT(30)
  <2>7. PICK f, g : f = a \o d /\ g = Front(c)
    OBVIOUS
  <2>8. f \in Seq(S) /\ g \in Seq(S) /\ Len(f) = m + n - 1 /\ Len(g) = m + n - 1
    BY <1>1, <2>1, <2>3, <2>5, <2>6, <2>7
  <2>9. ASSUME NEW j \in 1..m + n - 1 PROVE f[j] = g[j]
    <3>1. CASE j <= m
      <4>1. f[j] = a[j] /\ g[j] = c[j] /\ c[j] = a[j]
        BY <1>1, <1>2, <1>3, <2>3, <2>6, <2>7, <3>1
      <4> QED BY <4>1
    <3>2. CASE m < j
      <4>1. j \in m + 1..m + n /\ j - m \in 1..n - 1 /\ j \in m + 1..m + (n - 1)
        BY <2>1, <3>2
      <4>2. f[j] = d[j - m]
        BY <1>1, <2>1, <2>5, <2>6, <2>7, <4>1
      <4> QED BY <1>2, <1>3, <2>1, <2>3, <2>5, <2>7, <4>1, <4>2
    <3> QED BY <3>1, <3>2
  <2>10. f = g
    BY <2>8, <2>9, SeqEqual
  <2> QED BY <2>2, <2>4, <2>5, <2>7, <2>10
<1>6. AppendsAlike(a, b, e)
  BY <1>3, <1>4 DEF AppendsAlike
<1>7. b # <<>> => EndsAlike(a, b)
  BY <1>3, <1>5 DEF EndsAlike
<1> QED BY <1>6, <1>7
=============================================================================
