------------------------ MODULE TerminalStreamProofs ------------------------
(***************************************************************************)
(* Proofs about the text of the terminal, for any output, any limits and   *)
(* any way the output is cut into chunks.                                  *)
(***************************************************************************)
EXTENDS TerminalStream, DataLemmas

\* The beginning of a sequence.
Pre(s, n) == SubSeq(s, 1, n)

LEMMA Begins ==
  ASSUME NEW S, NEW s \in Seq(S), NEW n \in 0..Len(s)
  PROVE  /\ Pre(s, n) \in Seq(S) /\ Len(Pre(s, n)) = n
         /\ \A i \in 1..n : Pre(s, n)[i] = s[i]
<1>1. PICK m \in Nat : m = Len(s)
  OBVIOUS
<1> QED BY <1>1, SubSeqProperties DEF Pre

LEMMA AllOf ==
  ASSUME NEW S, NEW s \in Seq(S)
  PROVE  Pre(s, Len(s)) = s /\ Pre(s, 0) = <<>>
<1>1. PICK m \in Nat : m = Len(s)
  OBVIOUS
<1> QED BY <1>1, SubSeqFull, SubSeqEmpty DEF Pre

\* The rest of it.
From(s, n) == SubSeq(s, n + 1, Len(s))

LEMMA GoesOn ==
  ASSUME NEW S, NEW s \in Seq(S), NEW n \in 0..Len(s)
  PROVE  /\ From(s, n) \in Seq(S) /\ Len(From(s, n)) = Len(s) - n
         /\ \A j \in 1..Len(s) - n : From(s, n)[j] = s[n + j]
<1>1. PICK l \in Nat : l = Len(s) /\ n \in 0..l
  OBVIOUS
<1>2. PICK u : u = SubSeq(s, n + 1, l)
  OBVIOUS
<1>3. \A i \in n + 1..l : s[i] \in S
  BY <1>1
<1>4. /\ u \in Seq(S) /\ Len(u) = IF n + 1 <= l THEN l - (n + 1) + 1 ELSE 0
      /\ \A i \in 1..l - (n + 1) + 1 : u[i] = s[n + 1 + i - 1]
  BY <1>1, <1>2, <1>3, SubSeqProperties
<1>5. l - (n + 1) + 1 = l - n /\ \A i \in 1..l - n : n + 1 + i - 1 = n + i
  BY <1>1
<1> QED BY <1>1, <1>2, <1>4, <1>5 DEF From

\* What goes on after n + h goes on after h in what goes on after n.
LEMMA GoesOnFurther ==
  ASSUME NEW S, NEW s \in Seq(S), NEW n \in 0..Len(s), NEW h \in 0..Len(s) - n
  PROVE  From(From(s, n), h) = From(s, n + h)
<1>1. PICK l \in Nat : l = Len(s) /\ n \in 0..l /\ h \in 0..l - n
  OBVIOUS
<1>2. PICK u : u = From(s, n)
  OBVIOUS
<1>3. u \in Seq(S) /\ Len(u) = l - n /\ \A j \in 1..l - n : u[j] = s[n + j]
  BY <1>1, <1>2, GoesOn
<1>4. PICK v : v = From(u, h)
  OBVIOUS
<1>5. v \in Seq(S) /\ Len(v) = l - n - h /\ \A j \in 1..l - n - h : v[j] = u[h + j]
  <2>1. h \in 0..Len(u) /\ Len(u) - h = l - n - h
    BY <1>1, <1>3
  <2>2. /\ v \in Seq(S) /\ Len(v) = Len(u) - h
        /\ \A j \in 1..Len(u) - h : v[j] = u[h + j]
    BY <1>3, <1>4, <2>1, GoesOn
  <2> QED BY <2>1, <2>2
<1>6. PICK w : w = From(s, n + h)
  OBVIOUS
<1>7. w \in Seq(S) /\ Len(w) = l - (n + h) /\ \A j \in 1..l - (n + h) : w[j] = s[(n + h) + j]
  <2>1. n + h \in 0..Len(s)
    BY <1>1
  <2> QED BY <1>1, <1>6, <2>1, GoesOn
<1>8. ASSUME NEW j \in 1..l - n - h PROVE v[j] = w[j]
  <2>1. h + j \in 1..l - n /\ j \in 1..l - (n + h) /\ n + (h + j) = (n + h) + j
    BY <1>1
  <2> QED BY <1>3, <1>5, <1>7, <2>1
<1>9. Len(v) = Len(w) /\ 1..Len(v) = 1..l - n - h
  BY <1>1, <1>5, <1>7
<1>10. v = w
  BY <1>5, <1>7, <1>8, <1>9, SeqEqual
<1> QED BY <1>2, <1>4, <1>6, <1>10

\* What goes on in a goes on into what comes after a.
LEMMA GoesOnInto ==
  ASSUME NEW S, NEW a \in Seq(S), NEW b \in Seq(S), NEW n \in 0..Len(a), NEW c, c = a \o b
  PROVE  From(c, n) = From(a, n) \o b
<1>1. PICK l \in Nat, m \in Nat : l = Len(a) /\ m = Len(b) /\ n \in 0..l
  OBVIOUS
<1>2. /\ c \in Seq(S) /\ Len(c) = l + m
      /\ \A j \in 1..l : c[j] = a[j]
      /\ \A j \in l + 1..l + m : c[j] = b[j - l]
  <2>1. /\ a \o b \in Seq(S) /\ Len(a \o b) = Len(a) + Len(b)
        /\ \A j \in 1..Len(a) : (a \o b)[j] = a[j]
        /\ \A j \in Len(a) + 1..Len(a) + Len(b) : (a \o b)[j] = b[j - Len(a)]
    BY Concat, ZenonT(30)
  <2> QED BY <1>1, <2>1
<1>3. PICK u : u = From(a, n)
  OBVIOUS
<1>4. u \in Seq(S) /\ Len(u) = l - n /\ \A j \in 1..l - n : u[j] = a[n + j]
  BY <1>1, <1>3, GoesOn
<1>5. PICK d : d = u \o b
  OBVIOUS
<1>6. /\ d \in Seq(S) /\ Len(d) = l - n + m
      /\ \A j \in 1..l - n : d[j] = u[j]
      /\ \A j \in l - n + 1..l - n + m : d[j] = b[j - (l - n)]
  <2>1. /\ u \o b \in Seq(S) /\ Len(u \o b) = Len(u) + Len(b)
        /\ \A j \in 1..Len(u) : (u \o b)[j] = u[j]
        /\ \A j \in Len(u) + 1..Len(u) + Len(b) : (u \o b)[j] = b[j - Len(u)]
    BY <1>4, Concat, ZenonT(30)
  <2> QED BY <1>1, <1>4, <1>5, <2>1
<1>7. PICK v : v = From(c, n)
  OBVIOUS
<1>8. v \in Seq(S) /\ Len(v) = l + m - n /\ \A j \in 1..l + m - n : v[j] = c[n + j]
  <2>1. n \in 0..Len(c) /\ Len(c) - n = l + m - n
    <3>1. Len(c) = l + m
      BY <1>2
    <3>2. n \in 0..l + m
      BY <1>1
    <3> QED BY <3>1, <3>2
  <2>2. /\ v \in Seq(S) /\ Len(v) = Len(c) - n
        /\ \A j \in 1..Len(c) - n : v[j] = c[n + j]
    <3>1. c \in Seq(S)
      BY <1>2
    <3> QED BY <1>7, <2>1, <3>1, GoesOn
  <2> QED BY <2>1, <2>2
<1>9. ASSUME NEW j \in 1..l + m - n PROVE v[j] = d[j]
  <2>1. CASE j <= l - n
    <3>1. j \in 1..l - n /\ n + j \in 1..l
      BY <1>1, <2>1
    <3> QED BY <1>2, <1>4, <1>6, <1>8, <3>1
  <2>2. CASE j > l - n
    <3>1. j \in l - n + 1..l - n + m /\ n + j \in l + 1..l + m /\ (n + j) - l = j - (l - n)
      BY <1>1, <2>2
    <3>2. v[j] = b[(n + j) - l]
      BY <1>2, <1>8, <3>1
    <3>3. d[j] = b[j - (l - n)]
      BY <1>6, <3>1
    <3> QED BY <3>1, <3>2, <3>3
  <2> QED BY <1>1, <2>1, <2>2
<1>10. Len(v) = Len(d) /\ 1..Len(v) = 1..l + m - n
  BY <1>1, <1>6, <1>8
<1>11. v = d
  BY <1>6, <1>8, <1>9, <1>10, SeqEqual
<1> QED BY <1>3, <1>5, <1>7, <1>11

(***************************************************************************)
(* Typing, character by character                                          *)
(***************************************************************************)
Line == Seq(Printing)

LEMMA TypeCases ==
  ASSUME NEW s, NEW line, NEW i
  PROVE  /\ s[i] = CR => Type(s, line, i) = Append(line, LF)
         /\ s[i] = BS /\ line # <<>> /\ Last(line) # LF => Type(s, line, i) = Front(line)
         /\ s[i] = BS /\ ~(line # <<>> /\ Last(line) # LF) => Type(s, line, i) = line
         /\ s[i] \in Printing /\ ~(s[i] = LF /\ i > 1 /\ s[i - 1] = CR) =>
              Type(s, line, i) = Append(line, s[i])
         /\ s[i] = LF /\ i > 1 /\ s[i - 1] = CR => Type(s, line, i) = line
         /\ s[i] \notin Printing \cup {CR, BS} => Type(s, line, i) = line
<1>1. CR # BS /\ CR # LF /\ BS # LF /\ CR \notin Printing /\ BS \notin Printing /\ LF \in Printing
  BY DEF CR, BS, LF, Printing, Intermediates, Parameters, Letters
<1> QED BY <1>1, Zenon DEF Type

LEMMA LineTyped ==
  ASSUME NEW s, NEW line \in Line, NEW i
  PROVE  Type(s, line, i) \in Line
<1>1. LF \in Printing
  BY DEF Printing
<1>2. CASE s[i] = CR
  BY <1>1, <1>2, TypeCases DEF Line
<1>3. CASE s[i] = BS
  <2>1. line # <<>> => Front(line) \in Line
    BY FrontLast DEF Line
  <2> QED BY <1>3, <2>1, TypeCases
<1>4. CASE s[i] \in Printing
  BY <1>4, TypeCases DEF Line
<1>5. CASE s[i] \notin Printing \cup {CR, BS}
  BY <1>5, TypeCases
<1> QED BY <1>2, <1>3, <1>4, <1>5

LEMMA TypeOne ==
  ASSUME NEW s
  PROVE  \A line \in Line : \A i : Type(s, line, i) \in Line
BY LineTyped

\* The values of the fold.
TypingRun(acc, s) ==
  /\ acc[0] = <<>>
  /\ \A i \in 0..Len(s) : acc[i] \in Line
  /\ \A i \in 1..Len(s) : acc[i] = Type(s, acc[i - 1], i)

LEMMA TypedRuns ==
  ASSUME NEW S, NEW s \in Seq(S)
  PROVE  \E acc : TypingRun(acc, s) /\ acc[Len(s)] = Typed(s)
<1> DEFINE N == Len(s)
           is == [i \in DOMAIN s |-> i]
           F(h) == [T \in SUBSET (1..N) |-> IF T = {} THEN <<>>
                                            ELSE Type(s, h[T \ {Max(T)}], is[Max(T)])]
           step == [i \in 1..N |-> [line \in Line |-> Type(s, line, i)]]
           h == CHOOSE h : h = F(h)
<1>1. Typed(s) = h[1..N]
  <2>1. DOMAIN s = 1..N /\ DOMAIN is = 1..N
    OBVIOUS
  <2> QED BY <2>1, Zenon DEF Typed, FoldLeftDomain, FoldLeft, MapThenFoldSet
<1>2. <<>> \in Line
  BY DEF Line
<1>3. N \in Nat /\ \A i \in 1..N : is[i] = i
  OBVIOUS
<1>4. \A line \in Line : \A i : Type(s, line, i) \in Line
  BY TypeOne
<1>5. step \in [1..N -> [Line -> Line]]
  <2> HIDE DEF N
  <2> QED BY <1>4
<1>6. PICK it : IsIter(it, N, Line, <<>>, step)
  <2> HIDE DEF step, N
  <2> QED BY <1>2, <1>3, <1>5, IterExists
<1>7. \A T \in SUBSET (1..N) : T # {} => Max(T) \in 1..N /\ is[Max(T)] = Max(T)
  <2> HIDE DEF N, is
  <2> QED BY <1>3, MaxOfInitial
<1> HIDE DEF is
<1>8. it = F(it)
  <2>1. ASSUME NEW T \in SUBSET (1..N), T # {}
        PROVE  it[T] = Type(s, it[T \ {Max(T)}], is[Max(T)])
    <3>1. it[T \ {Max(T)}] \in Line
      BY <1>6 DEF IsIter
    <3>2. it[T] = step[Max(T)][it[T \ {Max(T)}]]
      BY <1>6, <2>1 DEF IsIter
    <3> QED BY <1>7, <2>1, <3>1, <3>2
  <2> QED BY <2>1, <1>6 DEF IsIter
<1>9. h = F(h)
  BY <1>8
<1>10. TakesSteps(h, N, Line, <<>>, step)
  <2> HIDE DEF h
  <2>1. h[{}] = <<>>
    BY <1>9
  <2>2. ASSUME NEW T \in SUBSET (1..N), T # {}, h[T \ {Max(T)}] \in Line
        PROVE  h[T] = step[Max(T)][h[T \ {Max(T)}]]
    <3>1. h[T] = Type(s, h[T \ {Max(T)}], is[Max(T)])
      BY <1>9, <2>2
    <3> QED BY <1>7, <2>2, <3>1
  <2> QED BY <2>1, <2>2 DEF TakesSteps
<1>11. PICK acc : IsRun(acc, N, Line, <<>>, step) /\ acc[N] = h[1..N]
  <2> HIDE DEF h, step, N
  <2> QED BY <1>2, <1>3, <1>5, <1>10, FoldRun
<1>12. \A i \in 0..N : acc[i] \in Line
  BY <1>11 DEF IsRun
<1>13. ASSUME NEW i \in 1..N PROVE acc[i] = Type(s, acc[i - 1], i)
  <2>1. acc[i - 1] \in Line
    BY <1>3, <1>12
  <2> QED BY <1>11, <2>1 DEF IsRun
<1>14. acc[0] = <<>>
  BY <1>11 DEF IsRun
<1> HIDE DEF h, step
<1> QED BY <1>1, <1>11, <1>12, <1>13, <1>14 DEF TypingRun

LEMMA TypeLocal ==
  ASSUME NEW s, NEW t, NEW line, NEW i, NEW j, s[i] = t[j],
         (i > 1 /\ s[i - 1] = CR) <=> (j > 1 /\ t[j - 1] = CR)
  PROVE  Type(s, line, i) = Type(t, line, j)
<1>1. (s[i] = LF /\ i > 1 /\ s[i - 1] = CR) <=> (t[j] = LF /\ j > 1 /\ t[j - 1] = CR)
  OBVIOUS
<1> QED BY <1>1, Zenon DEF Type

Alike(s, t, n) == \A i \in 1..n : s[i] = t[i]
TypingSteps(acc, s, n) == \A i \in 1..n : acc[i] = Type(s, acc[i - 1], i)

\* Sequences that begin alike are typed alike.
LEMMA SameTyping ==
  ASSUME NEW s, NEW t, NEW acc, NEW aux, NEW n \in Nat,
         acc[0] = aux[0],
         Alike(s, t, n), TypingSteps(acc, s, n), TypingSteps(aux, t, n)
  PROVE  acc[n] = aux[n]
<1> USE DEF Alike, TypingSteps
<1> DEFINE S == {k \in Nat : k <= n => acc[k] = aux[k]}
<1>1. 0 \in S
  OBVIOUS
<1>2. ASSUME NEW k \in Nat, k \in S PROVE k + 1 \in S
  <2> SUFFICES ASSUME k + 1 <= n PROVE acc[k + 1] = aux[k + 1]
    OBVIOUS
  <2>1. k <= n /\ k + 1 \in 1..n /\ (k + 1) - 1 = k
    OBVIOUS
  <2>2. acc[k] = aux[k]
    BY <1>2, <2>1
  <2>3. s[k + 1] = t[k + 1] /\ (k + 1 > 1 => k \in 1..n /\ s[(k + 1) - 1] = t[(k + 1) - 1])
    BY <2>1
  <2>4. Type(s, acc[k], k + 1) = Type(t, acc[k], k + 1)
    BY <2>3, TypeLocal
  <2>5. acc[k + 1] = Type(s, acc[(k + 1) - 1], k + 1) /\ aux[k + 1] = Type(t, aux[(k + 1) - 1], k + 1)
    BY <2>1
  <2> QED BY <2>1, <2>2, <2>4, <2>5
<1>3. Nat \subseteq S
  <2> HIDE DEF S
  <2> QED BY <1>1, <1>2, NatSetInduction
<1> QED BY <1>3

\* What is typed is typed character by character.
LEMMA Typing ==
  ASSUME NEW S, NEW s \in Seq(S)
  PROVE  /\ Typed(s) \in Line /\ Typed(Pre(s, 0)) = <<>>
         /\ \A k \in 0..Len(s) : Typed(Pre(s, k)) \in Line
         /\ \A k \in 1..Len(s) : Typed(Pre(s, k)) = Type(s, Typed(Pre(s, k - 1)), k)
<1>1. PICK acc : TypingRun(acc, s) /\ acc[Len(s)] = Typed(s)
  BY TypedRuns
<1>2. Len(s) \in Nat
  OBVIOUS
<1>3. ASSUME NEW k \in 0..Len(s) PROVE Typed(Pre(s, k)) = acc[k]
  <2>1. /\ Pre(s, k) \in Seq(S) /\ Len(Pre(s, k)) = k
        /\ \A i \in 1..k : Pre(s, k)[i] = s[i]
    BY Begins
  <2>2. PICK aux : TypingRun(aux, Pre(s, k)) /\ aux[k] = Typed(Pre(s, k))
    BY <2>1, TypedRuns
  <2>3. /\ acc[0] = aux[0] /\ k \in Nat
        /\ TypingSteps(aux, Pre(s, k), k) /\ TypingSteps(acc, s, k) /\ Alike(s, Pre(s, k), k)
    BY <1>1, <1>2, <2>1, <2>2 DEF TypingRun, TypingSteps, Alike
  <2>4. acc[k] = aux[k]
    BY <2>3, SameTyping
  <2> QED BY <2>2, <2>4
<1>4. \A k \in 0..Len(s) : Typed(Pre(s, k)) \in Line
  BY <1>1, <1>3 DEF TypingRun
<1>5. ASSUME NEW k \in 1..Len(s) PROVE Typed(Pre(s, k)) = Type(s, Typed(Pre(s, k - 1)), k)
  <2>1. k \in 0..Len(s) /\ k - 1 \in 0..Len(s)
    BY <1>2
  <2>2. Typed(Pre(s, k)) = acc[k] /\ Typed(Pre(s, k - 1)) = acc[k - 1]
    BY <1>3, <2>1
  <2> QED BY <1>1, <2>2 DEF TypingRun
<1>6. 0 \in 0..Len(s) /\ Len(s) \in 0..Len(s)
  BY <1>2
<1>7. Typed(s) \in Line /\ Typed(Pre(s, 0)) = <<>>
  BY <1>1, <1>3, <1>6 DEF TypingRun
<1> QED BY <1>4, <1>5, <1>7

\* No backspace of b reaches into a, and no line break lies across.
Joins(a, b) ==
  /\ \A i \in 1..Len(b) : b[i] = BS => Typed(Pre(b, i - 1)) # <<>>
  /\ ~(Len(a) > 0 /\ Len(b) > 0 /\ a[Len(a)] = CR /\ b[1] = LF)

\* The i-th of s and the j-th of t, which comes after y, are typed alike.
TypedAlike(s, i, t, j, y) ==
  /\ s[i] = t[j]
  /\ t[j] = BS => y # <<>>
  /\ t[j] = LF => ((i > 1 /\ s[i - 1] = CR) <=> (j > 1 /\ t[j - 1] = CR))

TypesAlike(s, i, t, j, x, y) == Type(s, x \o y, i) = x \o Type(t, y, j)

\* One more character is typed after x as it is without x.
LEMMA TypeAfter ==
  ASSUME NEW s, NEW t, NEW i, NEW j, NEW x \in Line, NEW y \in Line, TypedAlike(s, i, t, j, y)
  PROVE  TypesAlike(s, i, t, j, x, y)
<1> USE DEF TypedAlike, TypesAlike
<1>1. LF \in Printing
  BY DEF Printing
<1>2. ASSUME NEW e \in Printing PROVE AppendsAlike(x, y, e)
  BY ConcatEnds DEF Line
<1>3. y # <<>> => EndsAlike(x, y)
  BY <1>1, ConcatEnds DEF Line
<1>4. PICK z : z = x \o y
  OBVIOUS
<1>5. CASE t[j] = CR
  <2>1. s[i] = CR
    BY <1>5
  <2>2. Type(s, z, i) = Append(z, LF) /\ Type(t, y, j) = Append(y, LF)
    BY <1>5, <2>1, TypeCases
  <2> QED BY <1>1, <1>2, <1>4, <2>2 DEF AppendsAlike
<1>6. CASE t[j] = BS
  <2>1. s[i] = BS /\ y # <<>>
    BY <1>6
  <2>2. z # <<>> /\ Last(z) = Last(y) /\ Front(z) = x \o Front(y)
    BY <1>3, <1>4, <2>1 DEF EndsAlike
  <2>3. CASE Last(y) # LF
    <3>1. Type(s, z, i) = Front(z)
      BY <2>1, <2>2, <2>3, TypeCases
    <3>2. Type(t, y, j) = Front(y)
      BY <1>6, <2>1, <2>3, TypeCases
    <3> QED BY <1>4, <2>2, <3>1, <3>2
  <2>4. CASE Last(y) = LF
    <3>1. Type(s, z, i) = z
      BY <2>1, <2>2, <2>4, TypeCases
    <3>2. Type(t, y, j) = y
      BY <1>6, <2>4, TypeCases
    <3> QED BY <1>4, <3>1, <3>2
  <2> QED BY <2>3, <2>4
<1>7. CASE t[j] \in Printing /\ ~(t[j] = LF /\ j > 1 /\ t[j - 1] = CR)
  <2>1. s[i] \in Printing /\ ~(s[i] = LF /\ i > 1 /\ s[i - 1] = CR)
    BY <1>7
  <2>2. Type(s, z, i) = Append(z, s[i])
    BY <2>1, TypeCases
  <2>3. Type(t, y, j) = Append(y, t[j])
    BY <1>7, TypeCases
  <2> QED BY <1>2, <1>4, <1>7, <2>2, <2>3 DEF AppendsAlike
<1>8. CASE t[j] = LF /\ j > 1 /\ t[j - 1] = CR
  <2>1. s[i] = LF /\ i > 1 /\ s[i - 1] = CR
    BY <1>8
  <2>2. Type(s, z, i) = z
    BY <2>1, TypeCases
  <2>3. Type(t, y, j) = y
    BY <1>8, TypeCases
  <2> QED BY <1>4, <2>2, <2>3
<1>9. CASE t[j] \notin Printing \cup {CR, BS}
  <2>1. s[i] \notin Printing \cup {CR, BS}
    BY <1>9
  <2>2. Type(s, z, i) = z
    BY <2>1, TypeCases
  <2>3. Type(t, y, j) = y
    BY <1>9, TypeCases
  <2> QED BY <1>4, <2>2, <2>3
<1> QED BY <1>5, <1>6, <1>7, <1>8, <1>9

\* What is typed in two pieces is typed as a whole.
LEMMA TypedTogether ==
  ASSUME NEW S, NEW a \in Seq(S), NEW b \in Seq(S), Joins(a, b)
  PROVE  Typed(a \o b) = Typed(a) \o Typed(b)
<1>1. PICK m \in Nat, n \in Nat : m = Len(a) /\ n = Len(b)
  OBVIOUS
<1>2. PICK s : s = a \o b
  OBVIOUS
<1>3. /\ s \in Seq(S) /\ Len(s) = m + n
      /\ \A j \in 1..m : s[j] = a[j]
      /\ \A j \in m + 1..m + n : s[j] = b[j - m]
  <2>1. /\ a \o b \in Seq(S) /\ Len(a \o b) = Len(a) + Len(b)
        /\ \A j \in 1..Len(a) : (a \o b)[j] = a[j]
        /\ \A j \in Len(a) + 1..Len(a) + Len(b) : (a \o b)[j] = b[j - Len(a)]
    BY Concat, ZenonT(30)
  <2> QED BY <1>1, <1>2, <2>1
<1>4. PICK x \in Line : x = Typed(a)
  BY Typing
<1> DEFINE K == {k \in Nat : k <= n => Typed(Pre(s, m + k)) = x \o Typed(Pre(b, k))}
<1>5. 0 \in K
  <2>1. Typed(Pre(b, 0)) = <<>>
    BY Typing
  <2>2. Pre(s, m) = a
    <3>1. m \in 0..Len(s)
      BY <1>3
    <3>2. /\ Pre(s, m) \in Seq(S) /\ Len(Pre(s, m)) = m
          /\ \A i \in 1..m : Pre(s, m)[i] = s[i]
      BY <1>3, <3>1, Begins
    <3>3. PICK p : p = Pre(s, m)
      OBVIOUS
    <3>4. p \in Seq(S) /\ Len(p) = Len(a) /\ \A i \in 1..Len(p) : p[i] = a[i]
      BY <1>1, <1>3, <3>2, <3>3
    <3>5. p = a
      BY <3>4, SeqEqual
    <3> QED BY <3>3, <3>5
  <2>3. x \o <<>> = x /\ m + 0 = m
    BY ConcatEmptySeq DEF Line
  <2> QED BY <1>4, <2>1, <2>2, <2>3
<1>6. ASSUME NEW k \in Nat, k \in K PROVE k + 1 \in K
  <2> SUFFICES ASSUME k + 1 <= n
               PROVE  Typed(Pre(s, m + (k + 1))) = x \o Typed(Pre(b, k + 1))
    OBVIOUS
  <2>1. /\ k <= n /\ k + 1 \in 1..Len(b) /\ (k + 1) - 1 = k /\ k \in 0..Len(b)
        /\ m + (k + 1) \in 1..Len(s) /\ (m + (k + 1)) - 1 = m + k
    BY <1>1, <1>3
  <2>2. PICK y \in Line : y = Typed(Pre(b, k))
    BY <2>1, Typing
  <2>3. Typed(Pre(s, m + k)) = x \o y
    BY <1>6, <2>1, <2>2
  <2>4. Typed(Pre(s, m + (k + 1))) = Type(s, x \o y, m + (k + 1))
    <3>1. Typed(Pre(s, m + (k + 1))) = Type(s, Typed(Pre(s, (m + (k + 1)) - 1)), m + (k + 1))
      BY <1>3, <2>1, Typing
    <3> QED BY <2>1, <2>3, <3>1
  <2>5. Typed(Pre(b, k + 1)) = Type(b, y, k + 1)
    <3>1. Typed(Pre(b, k + 1)) = Type(b, Typed(Pre(b, (k + 1) - 1)), k + 1)
      BY <2>1, Typing
    <3> QED BY <2>1, <2>2, <3>1
  <2>6. s[m + (k + 1)] = b[k + 1]
    <3>1. m + (k + 1) \in m + 1..m + n /\ (m + (k + 1)) - m = k + 1
      BY <2>1
    <3> QED BY <1>3, <3>1
  <2>7. b[k + 1] = BS => y # <<>>
    <3>1. b[k + 1] = BS => Typed(Pre(b, (k + 1) - 1)) # <<>>
      BY <2>1 DEF Joins
    <3> QED BY <2>1, <2>2, <3>1
  <2>8. b[k + 1] = LF => ((m + (k + 1) > 1 /\ s[(m + (k + 1)) - 1] = CR)
                            <=> (k + 1 > 1 /\ b[(k + 1) - 1] = CR))
    <3> SUFFICES ASSUME b[k + 1] = LF
                 PROVE  (m + k > 0 /\ s[m + k] = CR) <=> (k > 0 /\ b[k] = CR)
      BY <2>1
    <3>1. CASE k = 0
      <4>1. m > 0 => s[m] = a[m]
        BY <1>3
      <4>2. b[1] = LF /\ m + k = m
        BY <3>1
      <4>3. ~(m > 0 /\ a[m] = CR)
        BY <1>1, <2>1, <4>2 DEF Joins
      <4> QED BY <3>1, <4>1, <4>2, <4>3
    <3>2. CASE k > 0
      <4>1. m + k \in m + 1..m + n /\ (m + k) - m = k
        BY <2>1, <3>2
      <4> QED BY <1>3, <3>2, <4>1
    <3> QED BY <3>1, <3>2
  <2>9. Type(s, x \o y, m + (k + 1)) = x \o Type(b, y, k + 1)
    <3>1. PICK i, j : i = m + (k + 1) /\ j = k + 1
      OBVIOUS
    <3>2. TypedAlike(s, i, b, j, y)
      BY <2>6, <2>7, <2>8, <3>1 DEF TypedAlike
    <3>3. TypesAlike(s, i, b, j, x, y)
      BY <3>2, TypeAfter
    <3> QED BY <3>1, <3>3 DEF TypesAlike
  <2> QED BY <2>4, <2>5, <2>9
<1>7. Nat \subseteq K
  <2> HIDE DEF K
  <2> QED BY <1>5, <1>6, NatSetInduction
<1>8. Typed(Pre(s, m + n)) = x \o Typed(Pre(b, n))
  BY <1>7
<1>9. Pre(s, m + n) = s /\ Pre(b, n) = b
  BY <1>1, <1>3, AllOf
<1> QED BY <1>2, <1>4, <1>8, <1>9

LEMMA TypedNothing == Typed(<<>>) = <<>>
<1>1. <<>> \in Seq(Char) /\ Len(<<>>) = 0
  OBVIOUS
<1>2. Typed(Pre(<<>>, 0)) = <<>>
  BY <1>1, Typing
<1>3. Pre(<<>>, 0) = <<>>
  BY <1>1, AllOf
<1> QED BY <1>2, <1>3

(***************************************************************************)
(* The text has a limit                                                    *)
(***************************************************************************)
LEMMA LastOfShort ==
  ASSUME NEW s, NEW n \in Nat, Len(s) <= n
  PROVE  LastOf(s, n) = s
BY DEF LastOf

LEMMA LastOfNothing == LastOf(<<>>, MaxText) = <<>>
<1>1. Len(<<>>) <= MaxText /\ MaxText \in Nat
  BY SizesAssumption
<1> QED BY <1>1, LastOfShort

IsLastOf(t, s, n, l) == Len(t) = n /\ \A i \in 1..n : t[i] = s[l - n + i]

LEMMA LastOfLong ==
  ASSUME NEW S, NEW s \in Seq(S), NEW n \in Nat, Len(s) > n
  PROVE  LastOf(s, n) \in Seq(S) /\ IsLastOf(LastOf(s, n), s, n, Len(s))
<1>1. PICK l \in Nat : l = Len(s)
  OBVIOUS
<1>2. LastOf(s, n) = SubSeq(s, l - n + 1, l)
  BY <1>1 DEF LastOf
<1>3. l - n + 1 \in 1..Len(s) + 1 /\ l \in l - n..Len(s) /\ l - (l - n + 1) + 1 = n
  BY <1>1
<1>4. /\ SubSeq(s, l - n + 1, l) \in Seq(S)
      /\ Len(SubSeq(s, l - n + 1, l)) = n
      /\ \A i \in 1..n : SubSeq(s, l - n + 1, l)[i] = s[(l - n + 1) + i - 1]
  BY <1>1, <1>3, SubSeqProperties
<1>5. \A i \in 1..n : (l - n + 1) + i - 1 = l - n + i
  BY <1>1
<1> QED BY <1>1, <1>2, <1>4, <1>5 DEF IsLastOf

\* Cutting before more is typed makes no difference.
LEMMA LastOfTogether ==
  ASSUME NEW S, NEW a \in Seq(S), NEW b \in Seq(S), NEW n \in Nat
  PROVE  LastOf(LastOf(a, n) \o b, n) = LastOf(a \o b, n)
<1>1. PICK l \in Nat, m \in Nat : l = Len(a) /\ m = Len(b)
  OBVIOUS
<1>2. CASE l <= n
  BY <1>1, <1>2, LastOfShort
<1>3. CASE l > n
  <2>1. PICK c \in Seq(S) : c = LastOf(a, n) /\ IsLastOf(c, a, n, l)
    BY <1>1, <1>3, LastOfLong
  <2>2. PICK d : d = c \o b
    OBVIOUS
  <2>3. /\ d \in Seq(S) /\ Len(d) = n + m
        /\ \A i \in 1..n : d[i] = c[i]
        /\ \A i \in n + 1..n + m : d[i] = b[i - n]
    <3>1. /\ c \o b \in Seq(S) /\ Len(c \o b) = Len(c) + Len(b)
          /\ \A j \in 1..Len(c) : (c \o b)[j] = c[j]
          /\ \A j \in Len(c) + 1..Len(c) + Len(b) : (c \o b)[j] = b[j - Len(c)]
      BY Concat, ZenonT(30)
    <3>2. Len(c) = n
      BY <2>1 DEF IsLastOf
    <3> QED BY <1>1, <2>2, <3>1, <3>2
  <2>4. PICK e : e = a \o b
    OBVIOUS
  <2>5. /\ e \in Seq(S) /\ Len(e) = l + m
        /\ \A i \in 1..l : e[i] = a[i]
        /\ \A i \in l + 1..l + m : e[i] = b[i - l]
    <3>1. /\ a \o b \in Seq(S) /\ Len(a \o b) = Len(a) + Len(b)
          /\ \A j \in 1..Len(a) : (a \o b)[j] = a[j]
          /\ \A j \in Len(a) + 1..Len(a) + Len(b) : (a \o b)[j] = b[j - Len(a)]
      BY Concat, ZenonT(30)
    <3> QED BY <1>1, <2>4, <3>1
  <2>6. ASSUME NEW i \in 1..n + m PROVE d[i] = e[l - n + i]
    <3>1. CASE i <= n
      <4>1. i \in 1..n /\ l - n + i \in 1..l
        BY <1>3, <3>1
      <4>2. c[i] = a[l - n + i]
        BY <2>1, <4>1 DEF IsLastOf
      <4> QED BY <2>3, <2>5, <4>1, <4>2
    <3>2. CASE i > n
      <4>1. i \in n + 1..n + m /\ l - n + i \in l + 1..l + m /\ (l - n + i) - l = i - n
        BY <1>3, <3>2
      <4>2. d[i] = b[i - n]
        BY <2>3, <4>1
      <4>3. e[l - n + i] = b[(l - n + i) - l]
        BY <2>5, <4>1
      <4> QED BY <4>1, <4>2, <4>3
    <3> QED BY <3>1, <3>2
  <2>7. PICK f \in Seq(S) : f = LastOf(e, n) /\ IsLastOf(f, e, n, l + m)
    <3>1. Len(e) > n
      BY <1>3, <2>5
    <3> QED BY <2>5, <3>1, LastOfLong
  <2>8. PICK g \in Seq(S) : g = LastOf(d, n) /\ IsLastOf(g, d, n, n + m)
    <3>1. CASE m = 0
      <4>1. LastOf(d, n) = d
        BY <2>3, <3>1, LastOfShort
      <4>2. IsLastOf(d, d, n, n + m)
        BY <2>3, <3>1 DEF IsLastOf
      <4> QED BY <2>3, <4>1, <4>2
    <3>2. CASE m > 0
      <4>1. Len(d) > n
        BY <2>3, <3>2
      <4> QED BY <2>3, <4>1, LastOfLong
    <3> QED BY <3>1, <3>2
  <2>9. ASSUME NEW i \in 1..n PROVE g[i] = f[i]
    <3>1. m + i \in 1..n + m /\ n + m - n + i = m + i /\ l - n + (m + i) = l + m - n + i
      BY <1>3
    <3>2. d[m + i] = e[l - n + (m + i)]
      BY <2>6, <3>1
    <3>3. g[i] = d[n + m - n + i] /\ f[i] = e[l + m - n + i]
      BY <2>7, <2>8 DEF IsLastOf
    <3> QED BY <3>1, <3>2, <3>3
  <2>10. Len(g) = n /\ Len(f) = n
    BY <2>7, <2>8 DEF IsLastOf
  <2>11. g = f
    BY <2>9, <2>10, SeqEqual
  <2> QED BY <2>1, <2>2, <2>4, <2>7, <2>8, <2>11
<1> QED BY <1>2, <1>3

(***************************************************************************)
(* Reading, character by character                                         *)
(***************************************************************************)
Mode == {"text", "escape", "control", "charset", "command", "command escape", "string", "string escape"}
Reading == [mode : Mode, out : Seq(Char)]
AtStart == [mode |-> "text", out |-> <<>>]

LEMMA ModeCases ==
  ASSUME NEW c
  PROVE  /\ c \notin {Esc, Csi} => ModeAfter("text", c) = "text"
         /\ c = Esc => ModeAfter("text", c) = "escape"
         /\ c = Csi => ModeAfter("text", c) = "control"
<1>1. Esc # Csi
  BY DEF Esc, Csi
<1> QED BY <1>1, Zenon DEF ModeAfter

LEMMA EscapeCases ==
  ASSUME NEW c
  PROVE  /\ c = "[" => ModeAfter("escape", c) = "control"
         /\ c = "]" => ModeAfter("escape", c) = "command"
         /\ c = "P" => ModeAfter("escape", c) = "string"
         /\ c \in Intermediates => ModeAfter("escape", c) = "charset"
         /\ c \notin Intermediates \cup {"[", "]", "P"} => ModeAfter("escape", c) = "text"
<1>1. "[" \notin Intermediates /\ "]" \notin Intermediates /\ "P" \notin Intermediates
  BY DEF Intermediates
<1> QED BY <1>1, Zenon DEF ModeAfter

LEMMA ControlCases ==
  ASSUME NEW c
  PROVE  /\ ModeAfter("control", c) = IF c \in CsiFinal THEN "text" ELSE "control"
         /\ ModeAfter("charset", c) = IF c \in EscFinal THEN "text" ELSE "charset"
BY Zenon DEF ModeAfter

\* Reading a string to its end, which a character of bells cuts short.
LEMMA StringCases ==
  ASSUME NEW c
  PROVE  /\ c = Bel => /\ ModeAfter("command", c) = "text"
                       /\ ModeAfter("command escape", c) = "text"
         /\ c = "\\" => /\ ModeAfter("command escape", c) = "text"
                        /\ ModeAfter("string escape", c) = "text"
                        /\ ModeAfter("command", c) = "command"
                        /\ ModeAfter("string", c) = "string"
         /\ c = Esc => /\ ModeAfter("command", c) = "command escape"
                       /\ ModeAfter("command escape", c) = "command escape"
                       /\ ModeAfter("string", c) = "string escape"
                       /\ ModeAfter("string escape", c) = "string escape"
         /\ c \notin {Bel, Esc, "\\"} => /\ ModeAfter("command", c) = "command"
                                         /\ ModeAfter("command escape", c) = "command"
         /\ c \notin {Esc, "\\"} => /\ ModeAfter("string", c) = "string"
                                    /\ ModeAfter("string escape", c) = "string"
<1>1. Bel # Esc /\ Bel # "\\" /\ Esc # "\\"
  BY DEF Bel, Esc
<1> QED BY <1>1, Zenon DEF ModeAfter

LEMMA ModeStays ==
  ASSUME NEW mode \in Mode, NEW c
  PROVE  ModeAfter(mode, c) \in Mode
<1>1. CASE mode = "text"
  BY <1>1, ModeCases DEF Mode
<1>2. CASE mode = "escape"
  BY <1>2, EscapeCases DEF Mode
<1>3. CASE mode = "control"
  BY <1>3, ControlCases DEF Mode
<1>4. CASE mode = "charset"
  BY <1>4, ControlCases DEF Mode
<1>5. CASE mode = "command"
  BY <1>5, StringCases DEF Mode
<1>6. CASE mode = "command escape"
  BY <1>6, StringCases DEF Mode
<1>7. CASE mode = "string"
  BY <1>7, StringCases DEF Mode
<1>8. CASE mode = "string escape"
  BY <1>8, StringCases DEF Mode
<1> QED BY <1>1, <1>2, <1>3, <1>4, <1>5, <1>6, <1>7, <1>8 DEF Mode

LEMMA ReadOne ==
  ASSUME NEW acc \in Reading, NEW c \in Char
  PROVE  /\ ReadChar(acc, c) \in Reading
         /\ ReadChar(acc, c).mode = ModeAfter(acc.mode, c)
         /\ acc.mode = "text" /\ c \notin {Esc, Csi} => ReadChar(acc, c).out = Append(acc.out, c)
         /\ acc.mode # "text" \/ c \in {Esc, Csi} => ReadChar(acc, c).out = acc.out
<1>1. acc.mode \in Mode /\ acc.out \in Seq(Char)
  BY DEF Reading
<1>2. ModeAfter(acc.mode, c) \in Mode
  BY <1>1, ModeStays
<1> QED BY <1>1, <1>2 DEF ReadChar, Reading

LEMMA ReadAny == \A acc \in Reading, c \in Char : ReadChar(acc, c) \in Reading
BY ReadOne

\* The values of the fold, from any state.
ReadingRun(acc, s) ==
  /\ \A i \in 0..Len(s) : acc[i] \in Reading
  /\ \A i \in 1..Len(s) : acc[i] = ReadChar(acc[i - 1], s[i])

LEMMA ParsedRuns ==
  ASSUME NEW s \in Seq(Char)
  PROVE  \E acc : ReadingRun(acc, s) /\ acc[0] = AtStart /\ acc[Len(s)] = Parsed(s)
<1> DEFINE N == Len(s)
           F(h) == [T \in SUBSET (1..N) |-> IF T = {} THEN AtStart
                                            ELSE ReadChar(h[T \ {Max(T)}], s[Max(T)])]
           step == [i \in 1..N |-> [x \in Reading |-> ReadChar(x, s[i])]]
           h == CHOOSE h : h = F(h)
<1>1. Parsed(s) = h[1..N]
  <2>1. DOMAIN s = 1..N
    OBVIOUS
  <2> QED BY <2>1, Zenon DEF Parsed, AtStart, FoldLeft, MapThenFoldSet
<1>2. AtStart \in Reading
  BY DEF AtStart, Reading, Mode
<1>3. N \in Nat /\ \A i \in 1..N : s[i] \in Char
  OBVIOUS
<1>4. \A acc \in Reading, c \in Char : ReadChar(acc, c) \in Reading
  BY ReadAny
<1>5. step \in [1..N -> [Reading -> Reading]]
  <2> HIDE DEF N
  <2> QED BY <1>3, <1>4
<1>6. PICK it : IsIter(it, N, Reading, AtStart, step)
  <2> HIDE DEF step, N
  <2> QED BY <1>2, <1>3, <1>5, IterExists
<1>7. \A T \in SUBSET (1..N) : T # {} => Max(T) \in 1..N
  <2> HIDE DEF N
  <2> QED BY <1>3, MaxOfInitial
<1>8. it = F(it)
  <2>1. ASSUME NEW T \in SUBSET (1..N), T # {}
        PROVE  it[T] = ReadChar(it[T \ {Max(T)}], s[Max(T)])
    <3>1. it[T \ {Max(T)}] \in Reading
      BY <1>6 DEF IsIter
    <3>2. it[T] = step[Max(T)][it[T \ {Max(T)}]]
      BY <1>6, <2>1 DEF IsIter
    <3> QED BY <1>7, <2>1, <3>1, <3>2
  <2> QED BY <2>1, <1>6 DEF IsIter
<1>9. h = F(h)
  BY <1>8
<1>10. TakesSteps(h, N, Reading, AtStart, step)
  <2> HIDE DEF h
  <2>1. h[{}] = AtStart
    BY <1>9
  <2>2. ASSUME NEW T \in SUBSET (1..N), T # {}, h[T \ {Max(T)}] \in Reading
        PROVE  h[T] = step[Max(T)][h[T \ {Max(T)}]]
    <3>1. h[T] = ReadChar(h[T \ {Max(T)}], s[Max(T)])
      BY <1>9, <2>2
    <3> QED BY <1>7, <2>2, <3>1
  <2> QED BY <2>1, <2>2 DEF TakesSteps
<1>11. PICK acc : IsRun(acc, N, Reading, AtStart, step) /\ acc[N] = h[1..N]
  <2> HIDE DEF h, step, N
  <2> QED BY <1>2, <1>3, <1>5, <1>10, FoldRun
<1>12. \A i \in 0..N : acc[i] \in Reading
  BY <1>11 DEF IsRun
<1>13. ASSUME NEW i \in 1..N PROVE acc[i] = ReadChar(acc[i - 1], s[i])
  <2>1. acc[i - 1] \in Reading
    BY <1>3, <1>12
  <2> QED BY <1>11, <2>1 DEF IsRun
<1>14. acc[0] = AtStart
  BY <1>11 DEF IsRun
<1> HIDE DEF h, step
<1> QED BY <1>1, <1>11, <1>12, <1>13, <1>14 DEF ReadingRun

ReadingSteps(acc, s, n) == \A i \in 1..n : acc[i] = ReadChar(acc[i - 1], s[i])

LEMMA SameReading ==
  ASSUME NEW s, NEW t, NEW acc, NEW aux, NEW n \in Nat,
         acc[0] = aux[0],
         Alike(s, t, n), ReadingSteps(acc, s, n), ReadingSteps(aux, t, n)
  PROVE  acc[n] = aux[n]
<1> USE DEF Alike, ReadingSteps
<1> DEFINE S == {k \in Nat : k <= n => acc[k] = aux[k]}
<1>1. 0 \in S
  OBVIOUS
<1>2. ASSUME NEW k \in Nat, k \in S PROVE k + 1 \in S
  <2> SUFFICES ASSUME k + 1 <= n PROVE acc[k + 1] = aux[k + 1]
    OBVIOUS
  <2>1. k <= n /\ k + 1 \in 1..n /\ (k + 1) - 1 = k
    OBVIOUS
  <2>2. acc[k] = aux[k]
    BY <1>2, <2>1
  <2>3. /\ acc[k + 1] = ReadChar(acc[(k + 1) - 1], s[k + 1])
        /\ aux[k + 1] = ReadChar(aux[(k + 1) - 1], t[k + 1])
        /\ s[k + 1] = t[k + 1]
    BY <2>1
  <2> QED BY <2>1, <2>2, <2>3
<1>3. Nat \subseteq S
  <2> HIDE DEF S
  <2> QED BY <1>1, <1>2, NatSetInduction
<1> QED BY <1>3

\* What is read of the beginning is a value of the run.
LEMMA ParsedPrefix ==
  ASSUME NEW s \in Seq(Char), NEW acc, ReadingRun(acc, s), acc[0] = AtStart,
         NEW t \in Seq(Char), Len(t) <= Len(s), Alike(s, t, Len(t))
  PROVE  Parsed(t) = acc[Len(t)]
<1>1. PICK n \in Nat, m \in Nat : n = Len(t) /\ m = Len(s)
  OBVIOUS
<1>2. PICK aux : ReadingRun(aux, t) /\ aux[0] = AtStart /\ aux[Len(t)] = Parsed(t)
  BY ParsedRuns
<1>3. acc[0] = aux[0] /\ ReadingSteps(acc, s, n) /\ ReadingSteps(aux, t, n)
  BY <1>1, <1>2 DEF ReadingRun, ReadingSteps
<1>4. acc[n] = aux[n]
  BY <1>1, <1>3, SameReading
<1> QED BY <1>1, <1>2, <1>4

(***************************************************************************)
(* Where a control sequence ends                                           *)
(***************************************************************************)
LEMMA MinIs ==
  ASSUME NEW T, T \subseteq Nat, T # {}
  PROVE  Min(T) \in T /\ \A y \in T : Min(T) <= y
<1>1. \E x \in T : \A y \in T : x <= y
  BY LeastNat
<1> QED BY <1>1, Zenon DEF Min

\* e is 0 if there is nothing in T, or else n after the least of T.
IsAfter(e, T, n) == \/ T = {} /\ e = 0
                    \/ \E x \in T : e = x + n /\ \A y \in T : x <= y

LEMMA AfterIs ==
  ASSUME NEW T, T \subseteq Nat, NEW n \in Nat
  PROVE  IsAfter(After(T, n), T, n)
<1>1. CASE T = {}
  BY <1>1 DEF After, IsAfter
<1>2. CASE T # {}
  <2>1. Min(T) \in T /\ \A y \in T : Min(T) <= y
    BY <1>2, MinIs
  <2>2. After(T, n) = Min(T) + n
    BY <1>2 DEF After
  <2> QED BY <2>1, <2>2 DEF IsAfter
<1> QED BY <1>1, <1>2

\* From k on, nothing is shown before e, where text begins again; nothing at
\* all if e is 0.
Skips(acc, s, k, e) ==
  \/ e = 0 /\ acc[Len(s)].out = acc[k].out
  \/ e \in k + 2..Len(s) + 1 /\ acc[e - 1].mode = "text" /\ acc[e - 1].out = acc[k].out

\* How the mode goes on from k to the first of the positions stops.
Waits(w, s, k, stops) ==
  /\ w \in [k..Len(s) -> Mode \ {"text"}]
  /\ \A n \in k..Len(s) - 1 :
       ModeAfter(w[n], s[n + 1]) = IF n + 1 \in stops THEN "text" ELSE w[n + 1]

LEMMA WaitsEnd ==
  ASSUME NEW s \in Seq(Char), NEW acc, ReadingRun(acc, s), NEW k \in 0..Len(s),
         NEW stops \in SUBSET (k + 1..Len(s)), NEW w, Waits(w, s, k, stops), acc[k].mode = w[k],
         NEW e, IsAfter(e, stops, 1)
  PROVE  Skips(acc, s, k, e)
<1>1. PICK l \in Nat : l = Len(s)
  OBVIOUS
<1> DEFINE free(n) == \A j \in stops : j > n
           S == {d \in Nat : k + d <= l /\ free(k + d) =>
                               acc[k + d].mode = w[k + d] /\ acc[k + d].out = acc[k].out}
<1>2. 0 \in S
  OBVIOUS
<1>3. ASSUME NEW n \in k..l - 1, acc[n].mode = w[n], acc[n].out = acc[k].out
      PROVE  /\ acc[n + 1].mode = IF n + 1 \in stops THEN "text" ELSE w[n + 1]
             /\ acc[n + 1].out = acc[k].out
  <2>1. n + 1 \in 1..Len(s) /\ n \in 0..Len(s) /\ (n + 1) - 1 = n /\ n \in k..Len(s) - 1 /\ n \in k..Len(s)
    BY <1>1
  <2>2. acc[n + 1] = ReadChar(acc[n], s[n + 1]) /\ acc[n] \in Reading /\ s[n + 1] \in Char
    <3>1. acc[n + 1] = ReadChar(acc[(n + 1) - 1], s[n + 1]) /\ acc[n] \in Reading
      BY <2>1 DEF ReadingRun
    <3> QED BY <2>1, <3>1
  <2>3. w[n] # "text" /\ ModeAfter(w[n], s[n + 1]) = IF n + 1 \in stops THEN "text" ELSE w[n + 1]
    BY <2>1 DEF Waits
  <2>4. acc[n + 1].mode = ModeAfter(acc[n].mode, s[n + 1]) /\ acc[n + 1].out = acc[n].out
    BY <1>3, <2>2, <2>3, ReadOne
  <2> QED BY <1>3, <2>3, <2>4
<1>4. ASSUME NEW d \in Nat, d \in S PROVE d + 1 \in S
  <2> SUFFICES ASSUME k + (d + 1) <= l, free(k + (d + 1))
               PROVE  /\ acc[k + (d + 1)].mode = w[k + (d + 1)]
                      /\ acc[k + (d + 1)].out = acc[k].out
    OBVIOUS
  <2>1. PICK n \in k..l - 1 : n = k + d /\ n + 1 = k + (d + 1)
    BY <1>1
  <2>2. free(n) /\ n + 1 \notin stops
    BY <1>1, <2>1
  <2>3. acc[n].mode = w[n] /\ acc[n].out = acc[k].out
    BY <1>4, <2>1, <2>2
  <2> QED BY <1>3, <2>1, <2>2, <2>3
<1>5. Nat \subseteq S
  <2> HIDE DEF S
  <2> QED BY <1>2, <1>4, NatSetInduction
<1>6. ASSUME NEW n \in k..l, free(n) PROVE acc[n].mode = w[n] /\ acc[n].out = acc[k].out
  <2>1. n - k \in Nat /\ k + (n - k) = n
    BY <1>1
  <2> QED BY <1>5, <1>6, <2>1
<1>7. CASE stops = {} /\ e = 0
  <2>1. l \in k..l /\ free(l)
    BY <1>1, <1>7
  <2> QED BY <1>1, <1>6, <1>7, <2>1 DEF Skips
<1>8. ASSUME NEW x \in stops, e = x + 1, \A y \in stops : x <= y PROVE Skips(acc, s, k, e)
  <2>1. PICK n \in k..l - 1 : n + 1 = x
    <3>1. x - 1 \in k..l - 1 /\ (x - 1) + 1 = x
      BY <1>1
    <3> QED BY <3>1
  <2>2. n \in k..l /\ free(n)
    BY <1>1, <1>8, <2>1
  <2>3. acc[n].mode = w[n] /\ acc[n].out = acc[k].out
    BY <1>6, <2>2
  <2>4. acc[x].mode = "text" /\ acc[x].out = acc[k].out
    BY <1>3, <2>1, <2>3
  <2>5. e - 1 = x /\ e \in k + 2..Len(s) + 1
    BY <1>1, <1>8, <2>1
  <2> QED BY <2>4, <2>5 DEF Skips
<1> QED BY <1>7, <1>8 DEF IsAfter

\* A sequence that a final character ends.
LEMMA FinalEnds ==
  ASSUME NEW s \in Seq(Char), NEW acc, ReadingRun(acc, s), NEW k \in 0..Len(s), NEW final,
         \/ acc[k].mode = "control" /\ final = CsiFinal
         \/ acc[k].mode = "charset" /\ final = EscFinal
  PROVE  Skips(acc, s, k, After({j \in k + 1..Len(s) : s[j] \in final}, 1))
<1> DEFINE stops == {j \in k + 1..Len(s) : s[j] \in final}
           w == [n \in k..Len(s) |-> acc[k].mode]
<1>1. PICK l \in Nat : l = Len(s)
  OBVIOUS
<1>2. stops \in SUBSET (k + 1..Len(s)) /\ stops \subseteq Nat
  BY <1>1
<1>3. Waits(w, s, k, stops)
  <2>1. w \in [k..Len(s) -> Mode \ {"text"}]
    BY DEF Mode
  <2>2. ASSUME NEW n \in k..Len(s) - 1
        PROVE  ModeAfter(w[n], s[n + 1]) = IF n + 1 \in stops THEN "text" ELSE w[n + 1]
    <3>1. w[n] = acc[k].mode /\ w[n + 1] = acc[k].mode /\ (n + 1 \in stops <=> s[n + 1] \in final)
      BY <1>1
    <3> QED BY <3>1, ControlCases
  <2> QED BY <2>1, <2>2 DEF Waits
<1>4. IsAfter(After(stops, 1), stops, 1)
  BY <1>2, AfterIs
<1>5. acc[k].mode = w[k]
  BY <1>1
<1> HIDE DEF stops, w
<1>6. Skips(acc, s, k, After(stops, 1))
  BY <1>2, <1>3, <1>4, <1>5, WaitsEnd
<1> QED BY <1>6 DEF stops

\* The first of two ends, either of which may be missing.
FirstEnd(bell, terminator) ==
  IF 0 \in {bell, terminator} THEN bell + terminator ELSE Min({bell, terminator})

LEMMA FirstEndIs ==
  ASSUME NEW B, NEW T, B \subseteq Nat, T \subseteq Nat,
         NEW bell, IsAfter(bell, B, 1), NEW terminator, IsAfter(terminator, T, 2)
  PROVE  IsAfter(FirstEnd(bell, terminator), B \cup {j + 1 : j \in T}, 1)
<1> DEFINE stops == B \cup {j + 1 : j \in T}
           e == FirstEnd(bell, terminator)
<1>1. ASSUME B = {}, bell = 0, T = {}, terminator = 0 PROVE IsAfter(e, stops, 1)
  BY <1>1 DEF IsAfter, FirstEnd
<1>2. ASSUME B = {}, bell = 0, NEW x \in T, terminator = x + 2, \A y \in T : x <= y
      PROVE  IsAfter(e, stops, 1)
  <2>1. e = (x + 1) + 1
    BY <1>2 DEF FirstEnd
  <2>2. x + 1 \in stops /\ \A y \in stops : x + 1 <= y
    BY <1>2
  <2> HIDE DEF e, stops
  <2> QED BY <2>1, <2>2 DEF IsAfter
<1>3. ASSUME NEW x \in B, bell = x + 1, \A y \in B : x <= y, T = {}, terminator = 0
      PROVE  IsAfter(e, stops, 1)
  <2>1. e = x + 1
    BY <1>3 DEF FirstEnd
  <2>2. x \in stops /\ \A y \in stops : x <= y
    BY <1>3
  <2> HIDE DEF e, stops
  <2> QED BY <2>1, <2>2 DEF IsAfter
<1>4. ASSUME NEW x \in B, bell = x + 1, \A y \in B : x <= y,
             NEW z \in T, terminator = z + 2, \A y \in T : z <= y
      PROVE  IsAfter(e, stops, 1)
  <2>1. x \in Nat /\ z \in Nat
    OBVIOUS
  <2>2. {bell, terminator} \subseteq Nat /\ {bell, terminator} # {}
    BY <1>4, <2>1
  <2>3. Min({bell, terminator}) \in {bell, terminator} /\ \A y \in {bell, terminator} : Min({bell, terminator}) <= y
    BY <2>2, MinIs
  <2>4. e = Min({bell, terminator})
    BY <1>4, <2>1 DEF FirstEnd
  <2>5. CASE e = bell
    <3>1. e <= terminator
      BY <2>3, <2>4
    <3>2. x <= z + 1
      BY <1>4, <2>1, <2>5, <3>1
    <3>3. e = x + 1 /\ x \in stops /\ \A y \in stops : x <= y
      BY <1>4, <2>1, <2>5, <3>2
    <3> HIDE DEF e, stops
    <3> QED BY <3>3 DEF IsAfter
  <2>6. CASE e = terminator
    <3>1. e <= bell
      BY <2>3, <2>4
    <3>2. z + 1 <= x
      BY <1>4, <2>1, <2>6, <3>1
    <3>3. e = (z + 1) + 1 /\ z + 1 \in stops /\ \A y \in stops : z + 1 <= y
      BY <1>4, <2>1, <2>6, <3>2
    <3> HIDE DEF e, stops
    <3> QED BY <3>3 DEF IsAfter
  <2> QED BY <2>3, <2>4, <2>5, <2>6
<1> HIDE DEF e, stops
<1>5. IsAfter(e, stops, 1)
  BY <1>1, <1>2, <1>3, <1>4 DEF IsAfter
<1> QED BY <1>5 DEF e, stops

\* The modes of reading a string, the second after an escape, and what ends it
\* besides its terminator.
StringMode(plain, held, bells) ==
  \/ plain = "command" /\ held = "command escape" /\ bells = {Bel}
  \/ plain = "string" /\ held = "string escape" /\ bells = {}

LEMMA StringStep ==
  ASSUME NEW plain, NEW held, NEW bells, StringMode(plain, held, bells)
  PROVE  /\ plain \in Mode \ {"text"} /\ held \in Mode \ {"text"} /\ plain # held
         /\ \A m \in {plain, held} : \A c :
              ModeAfter(m, c) = IF c \in bells \/ (m = held /\ c = "\\") THEN "text"
                                ELSE IF c = Esc THEN held ELSE plain
<1>1. Bel # Esc /\ Bel # "\\" /\ Esc # "\\"
  BY DEF Bel, Esc
<1>2. ASSUME plain = "command", held = "command escape", bells = {Bel}, NEW m \in {plain, held}, NEW c
      PROVE  ModeAfter(m, c) = IF c \in bells \/ (m = held /\ c = "\\") THEN "text"
                               ELSE IF c = Esc THEN held ELSE plain
  <2>1. CASE c = Bel
    <3>1. ModeAfter("command", c) = "text" /\ ModeAfter("command escape", c) = "text"
      BY <1>1, <2>1, StringCases
    <3> QED BY <1>1, <1>2, <2>1, <3>1
  <2>2. CASE c = Esc
    BY <1>1, <1>2, <2>2, StringCases
  <2>3. CASE c = "\\"
    BY <1>1, <1>2, <2>3, StringCases
  <2>4. CASE c \notin {Bel, Esc, "\\"}
    BY <1>1, <1>2, <2>4, StringCases
  <2> QED BY <2>1, <2>2, <2>3, <2>4
<1>3. ASSUME plain = "string", held = "string escape", bells = {}, NEW m \in {plain, held}, NEW c
      PROVE  ModeAfter(m, c) = IF c \in bells \/ (m = held /\ c = "\\") THEN "text"
                               ELSE IF c = Esc THEN held ELSE plain
  <2>1. CASE c = Bel
    <3>1. ModeAfter("string", c) = "string" /\ ModeAfter("string escape", c) = "string"
      BY <1>1, <2>1, StringCases
    <3> QED BY <1>1, <1>3, <2>1, <3>1
  <2>2. CASE c = Esc
    BY <1>1, <1>3, <2>2, StringCases
  <2>3. CASE c = "\\"
    BY <1>1, <1>3, <2>3, StringCases
  <2>4. CASE c \notin {Bel, Esc, "\\"}
    BY <1>1, <1>3, <2>4, StringCases
  <2> QED BY <2>1, <2>2, <2>3, <2>4
<1>4. plain \in Mode \ {"text"} /\ held \in Mode \ {"text"} /\ plain # held
  BY DEF StringMode, Mode
<1> QED BY <1>2, <1>3, <1>4 DEF StringMode

\* A sequence that a terminator ends, and a bell if it is a command.
LEMMA StringEnds ==
  ASSUME NEW s \in Seq(Char), NEW acc, ReadingRun(acc, s), NEW k \in 0..Len(s),
         NEW plain, NEW held, NEW bells, StringMode(plain, held, bells), acc[k].mode = plain
  PROVE  Skips(acc, s, k, FirstEnd(After({j \in k + 1..Len(s) : s[j] \in bells}, 1),
                                   After(Terminators(s, k + 1), 2)))
<1>1. PICK l \in Nat : l = Len(s)
  OBVIOUS
<1>2. PICK B, T : B = {j \in k + 1..l : s[j] \in bells} /\ T = Terminators(s, k + 1)
  OBVIOUS
<1>3. T = {j \in k + 1..l - 1 : s[j] = Esc /\ s[j + 1] = "\\"}
  BY <1>1, <1>2 DEF Terminators
<1>4. k \in 0..l /\ B \subseteq k + 1..l /\ T \subseteq k + 1..l - 1
  BY <1>1, <1>2, <1>3
<1>5. PICK stops : stops = B \cup {j + 1 : j \in T}
  OBVIOUS
<1>6. B \subseteq Nat /\ T \subseteq Nat /\ stops \in SUBSET (k + 1..l)
  <2>1. \A j \in k + 1..l - 1 : j + 1 \in k + 1..l
    BY <1>4
  <2>2. {j + 1 : j \in T} \subseteq k + 1..l
    BY <1>4, <2>1
  <2>3. B \subseteq Nat /\ T \subseteq Nat
    BY <1>4
  <2> QED BY <1>4, <1>5, <2>2, <2>3
<1>7. ASSUME NEW n \in k..l - 1
      PROVE  n + 1 \in stops <=> \/ s[n + 1] \in bells
                                 \/ n > k /\ s[n] = Esc /\ s[n + 1] = "\\"
  <2>1. n + 1 \in B <=> s[n + 1] \in bells
    BY <1>2, <1>4
  <2>2. n + 1 \in {j + 1 : j \in T} <=> n \in T
    BY <1>4
  <2>3. n > k <=> n \in k + 1..l - 1
    BY <1>4
  <2>4. n \in T <=> n > k /\ s[n] = Esc /\ s[n + 1] = "\\"
    BY <1>3, <2>3
  <2> QED BY <1>5, <2>1, <2>2, <2>4
<1>8. PICK w : w = [n \in k..l |-> IF n > k /\ s[n] = Esc THEN held ELSE plain]
  OBVIOUS
<1>9. Waits(w, s, k, stops)
  <2>1. w \in [k..l -> Mode \ {"text"}]
    BY <1>8, StringStep
  <2>2. ASSUME NEW n \in k..l - 1
        PROVE  ModeAfter(w[n], s[n + 1]) = IF n + 1 \in stops THEN "text" ELSE w[n + 1]
    <3>1. n \in k..l /\ n + 1 \in k..l /\ n + 1 > k
      BY <1>4
    <3>2. /\ w[n] = IF n > k /\ s[n] = Esc THEN held ELSE plain
          /\ w[n + 1] = IF s[n + 1] = Esc THEN held ELSE plain
      BY <1>8, <3>1
    <3>3. n + 1 \in stops <=> \/ s[n + 1] \in bells
                              \/ n > k /\ s[n] = Esc /\ s[n + 1] = "\\"
      BY <1>7
    <3>4. plain # held /\ w[n] \in {plain, held}
      BY <3>2, StringStep
    <3>5. ModeAfter(w[n], s[n + 1]) =
            IF s[n + 1] \in bells \/ (w[n] = held /\ s[n + 1] = "\\") THEN "text"
            ELSE IF s[n + 1] = Esc THEN held ELSE plain
      BY <3>4, StringStep
    <3> QED BY <3>2, <3>3, <3>4, <3>5
  <2> QED BY <1>1, <2>1, <2>2 DEF Waits
<1>10. IsAfter(FirstEnd(After(B, 1), After(T, 2)), stops, 1)
  BY <1>5, <1>6, AfterIs, FirstEndIs
<1>11. acc[k].mode = w[k]
  BY <1>4, <1>8
<1>12. Skips(acc, s, k, FirstEnd(After(B, 1), After(T, 2)))
  BY <1>1, <1>6, <1>9, <1>10, <1>11, WaitsEnd
<1> QED BY <1>1, <1>2, <1>12

\* The next of the characters S, in what the code calls it.
EndIn(s, k, S) == After({j \in k + 1..Len(s) : s[j] \in S}, 1)
StringEnd(s, k, bells) == FirstEnd(EndIn(s, k, bells), After(Terminators(s, k + 1), 2))

LEMMA EndOfCases ==
  ASSUME NEW s \in Seq(Char), NEW i \in 1..Len(s)
  PROVE  /\ s[i] = Csi => EndOf(s, i) = EndIn(s, i, CsiFinal)
         /\ s[i] = Esc /\ i = Len(s) => EndOf(s, i) = 0
         /\ s[i] = Esc /\ i < Len(s) =>
              /\ s[i + 1] = "[" => EndOf(s, i) = EndIn(s, i + 1, CsiFinal)
              /\ s[i + 1] = "]" => EndOf(s, i) = StringEnd(s, i + 1, {Bel})
              /\ s[i + 1] = "P" => EndOf(s, i) = StringEnd(s, i + 1, {})
              /\ s[i + 1] \in Intermediates => EndOf(s, i) = EndIn(s, i + 1, EscFinal)
              /\ s[i + 1] \notin Intermediates \cup {"[", "]", "P"} => EndOf(s, i) = i + 2
<1>1. Esc # Csi /\ "[" \notin Intermediates /\ "]" \notin Intermediates /\ "P" \notin Intermediates
  BY DEF Esc, Csi, Intermediates
<1>2. (i + 1) + 1 = i + 2 /\ (i = Len(s) => ~(i < Len(s)))
  OBVIOUS
<1> DEFINE first(S, from) == After({j \in from..Len(s) : s[j] \in S}, 1)
           terminator == After(Terminators(s, i + 2), 2)
           bell == first({Bel}, i + 2)
<1>3. CASE s[i] = Csi
  BY <1>1, <1>3, Zenon DEF EndOf, EndIn
<1>4. CASE s[i] = Esc /\ i = Len(s)
  BY <1>1, <1>2, <1>4, Zenon DEF EndOf
<1>5. CASE s[i] = Esc /\ i < Len(s)
  <2>1. CASE s[i + 1] = "["
    <3>1. EndOf(s, i) = first(CsiFinal, i + 2)
      BY <1>1, <1>2, <1>5, <2>1, Zenon DEF EndOf
    <3> QED BY <1>1, <1>2, <1>5, <2>1, <3>1 DEF EndIn
  <2>2. CASE s[i + 1] = "]"
    <3>1. EndOf(s, i) = FirstEnd(bell, terminator)
      <4>1. CASE 0 \in {bell, terminator}
        BY <1>1, <1>2, <1>5, <2>2, <4>1, Zenon DEF EndOf, FirstEnd
      <4>2. CASE 0 \notin {bell, terminator}
        BY <1>1, <1>2, <1>5, <2>2, <4>2, Zenon DEF EndOf, FirstEnd
      <4> QED BY <4>1, <4>2
    <3> QED BY <1>1, <1>2, <1>5, <2>2, <3>1 DEF EndIn, StringEnd
  <2>3. CASE s[i + 1] = "P"
    <3>1. EndOf(s, i) = terminator
      BY <1>1, <1>2, <1>5, <2>3, Zenon DEF EndOf
    <3>2. FirstEnd(0, terminator) = terminator
      <4>1. Terminators(s, i + 2) \subseteq Nat
        <5>1. PICK l \in Nat : l = Len(s)
          OBVIOUS
        <5> QED BY <5>1 DEF Terminators
      <4>2. IsAfter(terminator, Terminators(s, i + 2), 2)
        BY <4>1, AfterIs
      <4>3. terminator \in Nat
        BY <4>1, <4>2 DEF IsAfter
      <4> QED BY <4>3 DEF FirstEnd
    <3>3. EndIn(s, i + 1, {}) = 0
      BY DEF EndIn, After
    <3> QED BY <1>1, <1>2, <1>5, <2>3, <3>1, <3>2, <3>3 DEF StringEnd
  <2>4. CASE s[i + 1] \in Intermediates
    <3>1. EndOf(s, i) = first(EscFinal, i + 2)
      BY <1>1, <1>2, <1>5, <2>4, Zenon DEF EndOf
    <3> QED BY <1>1, <1>2, <1>5, <2>4, <3>1 DEF EndIn
  <2>5. CASE s[i + 1] \notin Intermediates \cup {"[", "]", "P"}
    <3>1. EndOf(s, i) = i + 2
      BY <1>1, <1>2, <1>5, <2>5, Zenon DEF EndOf
    <3> QED BY <1>1, <1>2, <1>5, <2>5, <3>1
  <2> QED BY <2>1, <2>2, <2>3, <2>4, <2>5
<1> QED BY <1>1, <1>3, <1>4, <1>5

\* A control sequence shows nothing, and ends where reading says it does.
LEMMA ControlSkips ==
  ASSUME NEW s \in Seq(Char), NEW acc, ReadingRun(acc, s), NEW i \in 1..Len(s),
         s[i] \in {Esc, Csi}, acc[i - 1].mode = "text"
  PROVE  Skips(acc, s, i - 1, EndOf(s, i))
<1>1. PICK l \in Nat : l = Len(s) /\ i \in 1..l
  OBVIOUS
<1>2. ASSUME NEW k \in 1..l
      PROVE  acc[k] = ReadChar(acc[k - 1], s[k]) /\ acc[k - 1] \in Reading /\ s[k] \in Char
  <2>1. k \in 1..Len(s) /\ k - 1 \in 0..Len(s)
    BY <1>1
  <2> QED BY <2>1 DEF ReadingRun
<1>3. acc[i].mode = ModeAfter("text", s[i]) /\ acc[i].out = acc[i - 1].out
  BY <1>1, <1>2, ReadOne
<1>4. CASE s[i] = Csi
  <2>1. acc[i].mode = "control" /\ i \in 0..Len(s)
    BY <1>1, <1>3, <1>4, ModeCases
  <2>2. Skips(acc, s, i, EndOf(s, i))
    <3>1. Skips(acc, s, i, EndIn(s, i, CsiFinal))
      BY <2>1, FinalEnds DEF EndIn
    <3> QED BY <1>4, <3>1, EndOfCases
  <2>3. i + 2..Len(s) + 1 \subseteq (i - 1) + 2..Len(s) + 1
    BY <1>1
  <2> QED BY <1>3, <2>2, <2>3 DEF Skips
<1>5. CASE s[i] = Esc /\ i = Len(s)
  BY <1>3, <1>5, EndOfCases DEF Skips
<1>6. CASE s[i] = Esc /\ i < Len(s)
  <2>1. i + 1 \in 1..l /\ (i + 1) - 1 = i /\ i + 1 \in 0..Len(s) /\ i + 1 \in 0..l
    BY <1>1, <1>6
  <2>2. acc[i].mode = "escape"
    BY <1>3, <1>6, ModeCases
  <2>3. acc[i + 1] = ReadChar(acc[i], s[i + 1]) /\ acc[i] \in Reading /\ s[i + 1] \in Char
    <3>1. /\ acc[i + 1] = ReadChar(acc[(i + 1) - 1], s[i + 1])
          /\ acc[(i + 1) - 1] \in Reading /\ s[i + 1] \in Char
      BY <1>2, <2>1
    <3> QED BY <2>1, <3>1
  <2>4. acc[i + 1].mode = ModeAfter("escape", s[i + 1]) /\ acc[i + 1].out = acc[i - 1].out
    BY <1>3, <2>2, <2>3, ReadOne
  <2>5. Skips(acc, s, i + 1, EndOf(s, i)) => Skips(acc, s, i - 1, EndOf(s, i))
    <3>1. (i + 1) + 2..Len(s) + 1 \subseteq (i - 1) + 2..Len(s) + 1
      BY <1>1
    <3> QED BY <2>4, <3>1 DEF Skips
  <2>6. CASE s[i + 1] = "["
    <3>1. acc[i + 1].mode = "control"
      BY <2>4, <2>6, EscapeCases
    <3>2. Skips(acc, s, i + 1, EndIn(s, i + 1, CsiFinal))
      BY <2>1, <3>1, FinalEnds DEF EndIn
    <3> QED BY <1>6, <2>5, <2>6, <3>2, EndOfCases
  <2>7. CASE s[i + 1] = "]"
    <3>1. acc[i + 1].mode = "command" /\ StringMode("command", "command escape", {Bel})
      BY <2>4, <2>7, EscapeCases DEF StringMode
    <3>2. Skips(acc, s, i + 1, StringEnd(s, i + 1, {Bel}))
      BY <2>1, <3>1, StringEnds DEF StringEnd, EndIn
    <3> QED BY <1>6, <2>5, <2>7, <3>2, EndOfCases
  <2>8. CASE s[i + 1] = "P"
    <3>1. acc[i + 1].mode = "string" /\ StringMode("string", "string escape", {})
      BY <2>4, <2>8, EscapeCases DEF StringMode
    <3>2. Skips(acc, s, i + 1, StringEnd(s, i + 1, {}))
      BY <2>1, <3>1, StringEnds DEF StringEnd, EndIn
    <3> QED BY <1>6, <2>5, <2>8, <3>2, EndOfCases
  <2>9. CASE s[i + 1] \in Intermediates
    <3>1. acc[i + 1].mode = "charset"
      BY <2>4, <2>9, EscapeCases
    <3>2. Skips(acc, s, i + 1, EndIn(s, i + 1, EscFinal))
      BY <2>1, <3>1, FinalEnds DEF EndIn
    <3> QED BY <1>6, <2>5, <2>9, <3>2, EndOfCases
  <2>10. CASE s[i + 1] \notin Intermediates \cup {"[", "]", "P"}
    <3>1. acc[i + 1].mode = "text"
      BY <2>4, <2>10, EscapeCases
    <3>2. EndOf(s, i) = i + 2
      BY <1>6, <2>10, EndOfCases
    <3>3. i + 2 \in (i - 1) + 2..Len(s) + 1 /\ (i + 2) - 1 = i + 1
      BY <1>1, <2>1
    <3> QED BY <2>4, <3>1, <3>2, <3>3 DEF Skips
  <2> QED BY <2>6, <2>7, <2>8, <2>9, <2>10
<1>7. i = Len(s) \/ i < Len(s)
  BY <1>1
<1> QED BY <1>4, <1>5, <1>6, <1>7

LEMMA EndRange ==
  ASSUME NEW s \in Seq(Char), NEW i \in 1..Len(s), s[i] \in {Esc, Csi}
  PROVE  EndOf(s, i) \in {0} \cup (i + 1..Len(s) + 1)
<1>1. PICK l \in Nat : l = Len(s) /\ i \in 1..l
  OBVIOUS
<1>2. ASSUME NEW k \in i..l, NEW S
      PROVE  EndIn(s, k, S) \in {0} \cup (i + 1..l + 1)
  <2> DEFINE T == {j \in k + 1..l : s[j] \in S}
  <2>1. T \subseteq Nat /\ T \subseteq i + 1..l
    BY <1>1
  <2>2. EndIn(s, k, S) = After(T, 1)
    BY <1>1 DEF EndIn
  <2> HIDE DEF T
  <2>3. IsAfter(After(T, 1), T, 1)
    BY <2>1, AfterIs
  <2>4. \A x \in T : x + 1 \in i + 1..l + 1
    BY <1>1, <2>1
  <2> QED BY <2>2, <2>3, <2>4 DEF IsAfter
<1>3. ASSUME NEW k \in i..l, NEW bells
      PROVE  StringEnd(s, k, bells) \in {0} \cup (i + 1..l + 1)
  <2> DEFINE B == {j \in k + 1..l : s[j] \in bells}
             T == Terminators(s, k + 1)
             stops == B \cup {j + 1 : j \in T}
  <2>1. B \subseteq Nat /\ B \subseteq i + 1..l
    BY <1>1
  <2>2. T \subseteq Nat /\ T \subseteq i + 1..l - 1
    BY <1>1 DEF Terminators
  <2>3. StringEnd(s, k, bells) = FirstEnd(After(B, 1), After(T, 2))
    BY <1>1 DEF StringEnd, EndIn
  <2> HIDE DEF B, T
  <2>4. IsAfter(FirstEnd(After(B, 1), After(T, 2)), stops, 1)
    BY <2>1, <2>2, AfterIs, FirstEndIs
  <2>5. \A x \in stops : x + 1 \in i + 1..l + 1
    BY <1>1, <2>1, <2>2
  <2> HIDE DEF stops
  <2> QED BY <2>3, <2>4, <2>5 DEF IsAfter
<1>4. CASE s[i] = Csi
  BY <1>1, <1>2, <1>4, EndOfCases
<1>5. CASE s[i] = Esc /\ i = Len(s)
  BY <1>5, EndOfCases
<1>6. CASE s[i] = Esc /\ i < Len(s)
  <2>1. i + 1 \in i..l /\ i + 2 \in i + 1..l + 1
    BY <1>1, <1>6
  <2> QED BY <1>1, <1>2, <1>3, <1>6, <2>1, EndOfCases
<1>7. i = Len(s) \/ i < Len(s)
  BY <1>1
<1> QED BY <1>4, <1>5, <1>6, <1>7

(***************************************************************************)
(* What is left of a chunk                                                 *)
(***************************************************************************)
\* What is left from i on, if f says what is left from the positions after it.
Rest(s, f, i) ==
  IF i > Len(s) THEN [out |-> <<>>, held |-> <<>>]
  ELSE IF s[i] \notin {Esc, Csi} THEN [f[i + 1] EXCEPT !.out = <<s[i]>> \o @]
  ELSE IF EndOf(s, i) = 0 THEN [out |-> <<>>, held |-> SubSeq(s, i, Len(s))]
  ELSE f[EndOf(s, i)]

IsRest(f, s, j) == f = [i \in j..Len(s) + 1 |-> Rest(s, f, i)]

LEMMA RestIsLocal ==
  ASSUME NEW s \in Seq(Char), NEW i \in 1..Len(s) + 1, NEW f, NEW g,
         \A m \in i + 1..Len(s) + 1 : f[m] = g[m]
  PROVE  Rest(s, f, i) = Rest(s, g, i)
<1>1. PICK l \in Nat : l = Len(s) /\ i \in 1..l + 1
  OBVIOUS
<1>2. CASE i > Len(s)
  BY <1>2 DEF Rest
<1>3. CASE i \in 1..l /\ s[i] \notin {Esc, Csi}
  <2>1. f[i + 1] = g[i + 1] /\ ~(i > Len(s))
    BY <1>1, <1>3
  <2> QED BY <1>3, <2>1 DEF Rest
<1>4. CASE i \in 1..l /\ s[i] \in {Esc, Csi}
  <2>1. EndOf(s, i) = 0 \/ f[EndOf(s, i)] = g[EndOf(s, i)]
    BY <1>1, <1>4, EndRange
  <2>2. ~(i > Len(s))
    BY <1>1, <1>4
  <2> QED BY <1>4, <2>1, <2>2 DEF Rest
<1> QED BY <1>1, <1>2, <1>3, <1>4

LEMMA RestExists ==
  ASSUME NEW s \in Seq(Char)
  PROVE  \E f : IsRest(f, s, 1)
<1>1. PICK l \in Nat : l = Len(s)
  OBVIOUS
<1> DEFINE S == {k \in Nat : k <= l => \E f : IsRest(f, s, l + 1 - k)}
<1>2. 0 \in S
  <2>1. PICK f : f = [i \in l + 1..l + 1 |-> [out |-> <<>>, held |-> <<>>]]
    OBVIOUS
  <2>2. \A i \in l + 1..l + 1 : Rest(s, f, i) = [out |-> <<>>, held |-> <<>>]
    BY <1>1 DEF Rest
  <2>3. f = [i \in l + 1..l + 1 |-> Rest(s, f, i)]
    BY <2>1, <2>2
  <2>4. IsRest(f, s, l + 1 - 0)
    BY <1>1, <2>3 DEF IsRest
  <2> QED BY <2>4
<1>3. ASSUME NEW k \in Nat, k \in S PROVE k + 1 \in S
  <2> SUFFICES ASSUME k + 1 <= l PROVE \E f : IsRest(f, s, l + 1 - (k + 1))
    OBVIOUS
  <2>1. PICK j \in 1..l : j = l + 1 - (k + 1) /\ j + 1 = l + 1 - k
    BY <1>1
  <2>2. PICK f : IsRest(f, s, j + 1)
    BY <1>3, <2>1
  <2>3. \A i \in j + 1..l + 1 : f[i] = Rest(s, f, i)
    BY <1>1, <2>2 DEF IsRest
  <2>4. PICK g : g = [i \in j..l + 1 |-> IF i = j THEN Rest(s, f, j) ELSE f[i]]
    OBVIOUS
  <2>5. \A i \in j + 1..l + 1 : f[i] = g[i]
    BY <2>4
  <2>6. ASSUME NEW i \in j..l + 1 PROVE g[i] = Rest(s, g, i)
    <3>1. \A m \in i + 1..Len(s) + 1 : f[m] = g[m]
      BY <1>1, <2>5
    <3>2. i \in 1..Len(s) + 1
      BY <1>1
    <3>3. Rest(s, f, i) = Rest(s, g, i)
      BY <3>1, <3>2, RestIsLocal
    <3>4. CASE i = j
      BY <2>4, <3>3, <3>4
    <3>5. CASE i # j
      <4>1. i \in j + 1..l + 1
        BY <3>5
      <4> QED BY <2>3, <2>5, <3>3, <4>1
    <3> QED BY <3>4, <3>5
  <2>7. g = [i \in j..l + 1 |-> g[i]]
    BY <2>4
  <2>8. g = [i \in j..l + 1 |-> Rest(s, g, i)]
    BY <2>6, <2>7
  <2>9. IsRest(g, s, j)
    BY <1>1, <2>8 DEF IsRest
  <2> QED BY <2>1, <2>9
<1>4. Nat \subseteq S
  <2> HIDE DEF S
  <2> QED BY <1>2, <1>3, NatSetInduction
<1>5. l + 1 - l = 1
  OBVIOUS
<1> QED BY <1>4, <1>5

\* Sanitise is computed from the end.
LEMMA SanitiseIs ==
  ASSUME NEW s \in Seq(Char)
  PROVE  \E f : Sanitise(s) = f[1] /\ \A i \in 1..Len(s) + 1 : f[i] = Rest(s, f, i)
<1> DEFINE F(f) == [i \in 1..Len(s) + 1 |-> Rest(s, f, i)]
           from == CHOOSE f : f = F(f)
<1>1. \E f : f = F(f)
  BY RestExists DEF IsRest
<1>2. from = F(from)
  BY <1>1, Zenon
<1>3. Sanitise(s) = from[1]
  BY Zenon DEF Sanitise, Rest
<1> HIDE DEF from
<1> QED BY <1>2, <1>3

Left == [out : Seq(Char), held : Seq(Char)]

\* What is read from k on is shown by what is left, up to a place where text
\* begins again and what is held begins.
Strips(acc, s, k, r) ==
  /\ r \in Left
  /\ acc[k].mode = "text" =>
       \E h \in k..Len(s) : /\ r.held = SubSeq(s, h + 1, Len(s))
                            /\ acc[h].mode = "text" /\ acc[h].out = acc[Len(s)].out
                            /\ acc[Len(s)].out = acc[k].out \o r.out

Unshifts(a, c, b) == Append(a, c) \o b = a \o (<<c>> \o b)

LEMMA AppendThenConcat ==
  ASSUME NEW S, NEW a \in Seq(S), NEW c \in S, NEW b \in Seq(S)
  PROVE  Unshifts(a, c, b)
<1>1. Append(a, c) = a \o <<c>> /\ <<c>> \in Seq(S)
  BY AppendIsConcat
<1>2. (a \o <<c>>) \o b = a \o (<<c>> \o b)
  BY <1>1, ConcatAssociative
<1> QED BY <1>1, <1>2 DEF Unshifts

LEMMA StripsStep ==
  ASSUME NEW s \in Seq(Char), NEW acc, ReadingRun(acc, s), NEW f, NEW k \in 0..Len(s) - 1,
         f[k + 1] = Rest(s, f, k + 1),
         \A m \in k + 1..Len(s) : Strips(acc, s, m, f[m + 1])
  PROVE  Strips(acc, s, k, f[k + 1])
<1>1. PICK l \in Nat : l = Len(s) /\ k \in 0..l - 1
  OBVIOUS
<1>2. k + 1 \in 1..Len(s) /\ ~(k + 1 > Len(s)) /\ (k + 1) - 1 = k /\ k \in 0..Len(s)
  BY <1>1
<1>3. acc[k + 1] = ReadChar(acc[k], s[k + 1]) /\ acc[k] \in Reading /\ s[k + 1] \in Char
  <2>1. acc[k + 1] = ReadChar(acc[(k + 1) - 1], s[k + 1]) /\ acc[k] \in Reading
    BY <1>2 DEF ReadingRun
  <2> QED BY <1>2, <2>1
<1>4. acc[k].out \in Seq(Char)
  BY <1>3 DEF Reading
<1>5. CASE s[k + 1] \notin {Esc, Csi}
  <2>1. Strips(acc, s, k + 1, f[(k + 1) + 1])
    BY <1>1
  <2>2. PICK r : r = f[(k + 1) + 1]
    OBVIOUS
  <2>3. r \in Left
    BY <2>1, <2>2 DEF Strips
  <2>4. PICK u : u = f[k + 1]
    OBVIOUS
  <2>5. u = [r EXCEPT !.out = <<s[k + 1]>> \o @]
    BY <1>2, <1>5, <2>2, <2>4, Zenon DEF Rest
  <2>6. <<s[k + 1]>> \o r.out \in Seq(Char)
    BY <1>3, <2>3, ConcatProperties DEF Left
  <2>7. u \in Left /\ u.out = <<s[k + 1]>> \o r.out /\ u.held = r.held
    BY <2>3, <2>5, <2>6 DEF Left
  <2>8. ASSUME acc[k].mode = "text"
        PROVE  \E h \in k..Len(s) : /\ u.held = SubSeq(s, h + 1, Len(s))
                                    /\ acc[h].mode = "text" /\ acc[h].out = acc[Len(s)].out
                                    /\ acc[Len(s)].out = acc[k].out \o u.out
    <3>1. acc[k + 1].mode = "text" /\ acc[k + 1].out = Append(acc[k].out, s[k + 1])
      <4>1. PICK x \in Reading, c \in Char : x = acc[k] /\ c = s[k + 1]
        BY <1>3
      <4>2. ReadChar(x, c).mode = ModeAfter(x.mode, c) /\ ReadChar(x, c).out = Append(x.out, c)
        BY <1>5, <2>8, <4>1, ReadOne
      <4>3. ModeAfter("text", c) = "text"
        BY <1>5, <4>1, ModeCases
      <4> QED BY <1>3, <2>8, <4>1, <4>2, <4>3
    <3>2. PICK h \in k + 1..Len(s) : /\ r.held = SubSeq(s, h + 1, Len(s))
                                     /\ acc[h].mode = "text" /\ acc[h].out = acc[Len(s)].out
                                     /\ acc[Len(s)].out = acc[k + 1].out \o r.out
      BY <2>1, <2>2, <3>1 DEF Strips
    <3>3. r.out \in Seq(Char)
      BY <2>3 DEF Left
    <3>4. Unshifts(acc[k].out, s[k + 1], r.out)
      BY <1>3, <1>4, <3>3, AppendThenConcat
    <3>5. acc[Len(s)].out = acc[k].out \o u.out
      BY <2>7, <3>1, <3>2, <3>4 DEF Unshifts
    <3>6. h \in k..Len(s)
      BY <1>1
    <3> QED BY <2>7, <3>2, <3>5, <3>6
  <2> QED BY <2>4, <2>7, <2>8 DEF Strips
<1>6. CASE s[k + 1] \in {Esc, Csi} /\ EndOf(s, k + 1) = 0
  <2>1. PICK u : u = f[k + 1]
    OBVIOUS
  <2>2. u = [out |-> <<>>, held |-> SubSeq(s, k + 1, Len(s))]
    BY <1>2, <1>6, <2>1 DEF Rest
  <2>3. u \in Left
    <3>1. SubSeq(s, k + 1, Len(s)) \in Seq(Char)
      BY <1>1, SubSeqProperties
    <3> QED BY <2>2, <3>1 DEF Left
  <2>4. acc[k].mode = "text" => acc[Len(s)].out = acc[k].out
    <3> SUFFICES ASSUME acc[k].mode = "text" PROVE acc[Len(s)].out = acc[k].out
      OBVIOUS
    <3>1. PICK i \in 1..Len(s) : i = k + 1 /\ i - 1 = k
      BY <1>2
    <3>2. Skips(acc, s, i - 1, EndOf(s, i))
      BY <1>6, <3>1, ControlSkips
    <3>3. 0 \notin k + 2..Len(s) + 1
      BY <1>1
    <3> QED BY <1>6, <3>1, <3>2, <3>3 DEF Skips
  <2>5. acc[k].out = acc[k].out \o u.out
    BY <1>4, <2>2, ConcatEmptySeq
  <2>6. k \in k..Len(s)
    BY <1>1
  <2>7. u.held = SubSeq(s, k + 1, Len(s))
    BY <2>2
  <2> QED BY <2>1, <2>3, <2>4, <2>5, <2>6, <2>7 DEF Strips
<1>7. CASE s[k + 1] \in {Esc, Csi} /\ EndOf(s, k + 1) # 0
  <2>1. PICK e : e = EndOf(s, k + 1)
    OBVIOUS
  <2>2. e \in k + 2..l + 1 /\ (e - 1) + 1 = e /\ e - 1 \in k + 1..Len(s)
    <3>1. EndOf(s, k + 1) \in {0} \cup ((k + 1) + 1..Len(s) + 1)
      BY <1>2, <1>7, EndRange
    <3> QED BY <1>1, <1>7, <2>1, <3>1
  <2>3. f[k + 1] = f[e]
    BY <1>2, <1>7, <2>1 DEF Rest
  <2>4. Strips(acc, s, e - 1, f[e])
    BY <2>2
  <2>5. ASSUME acc[k].mode = "text" PROVE acc[e - 1].mode = "text" /\ acc[e - 1].out = acc[k].out
    <3>1. PICK i \in 1..Len(s) : i = k + 1 /\ i - 1 = k
      BY <1>2
    <3>2. Skips(acc, s, i - 1, EndOf(s, i))
      BY <1>7, <2>5, <3>1, ControlSkips
    <3> QED BY <1>7, <2>1, <3>1, <3>2 DEF Skips
  <2>6. e - 1..Len(s) \subseteq k..Len(s)
    BY <1>1, <2>2
  <2> QED BY <2>3, <2>4, <2>5, <2>6 DEF Strips
<1> QED BY <1>5, <1>6, <1>7

\* What is left of s is what reading s shows.
LEMMA SanitiseStrips ==
  ASSUME NEW s \in Seq(Char), NEW acc, ReadingRun(acc, s)
  PROVE  Strips(acc, s, 0, Sanitise(s))
<1>1. PICK l \in Nat : l = Len(s)
  OBVIOUS
<1>2. PICK f : Sanitise(s) = f[1] /\ \A i \in 1..Len(s) + 1 : f[i] = Rest(s, f, i)
  BY SanitiseIs
<1> DEFINE S == {d \in Nat : \A k \in 0..l : l - k <= d => Strips(acc, s, k, f[k + 1])}
<1>3. 0 \in S
  <2>1. l + 1 > Len(s) /\ l + 1 \in 1..Len(s) + 1
    BY <1>1
  <2>2. f[l + 1] = [out |-> <<>>, held |-> <<>>]
    BY <1>2, <2>1 DEF Rest
  <2>3. SubSeq(s, l + 1, l) = <<>>
    BY SubSeqEmpty
  <2>4. acc[l] \in Reading /\ l \in l..Len(s)
    BY <1>1 DEF ReadingRun
  <2>5. acc[l].out \o <<>> = acc[l].out
    BY <2>4, ConcatEmptySeq DEF Reading
  <2>6. f[l + 1] \in Left /\ f[l + 1].out = <<>> /\ f[l + 1].held = <<>>
    BY <2>2 DEF Left
  <2>7. Strips(acc, s, l, f[l + 1])
    BY <1>1, <2>3, <2>4, <2>5, <2>6 DEF Strips
  <2>8. \A k \in 0..l : l - k <= 0 => k = l
    BY <1>1
  <2> QED BY <2>7, <2>8
<1>4. ASSUME NEW d \in Nat, d \in S PROVE d + 1 \in S
  <2> SUFFICES ASSUME NEW k \in 0..l, l - k <= d + 1 PROVE Strips(acc, s, k, f[k + 1])
    OBVIOUS
  <2>1. CASE l - k <= d
    BY <1>4, <2>1
  <2>2. CASE ~(l - k <= d)
    <3>1. k \in 0..Len(s) - 1 /\ k + 1 \in 1..Len(s) + 1
      BY <1>1, <2>2
    <3>2. ASSUME NEW m \in k + 1..Len(s) PROVE Strips(acc, s, m, f[m + 1])
      <4>1. m \in 0..l /\ l - m <= d
        BY <1>1
      <4> QED BY <1>4, <4>1
    <3>3. f[k + 1] = Rest(s, f, k + 1)
      BY <1>2, <3>1
    <3> QED BY <3>1, <3>2, <3>3, StripsStep
  <2> QED BY <2>1, <2>2
<1>5. Nat \subseteq S
  <2> HIDE DEF S
  <2> QED BY <1>3, <1>4, NatSetInduction
<1>6. 0 \in 0..l /\ l - 0 <= l /\ 0 + 1 = 1
  OBVIOUS
<1>7. Strips(acc, s, 0, f[0 + 1])
  BY <1>1, <1>5, <1>6
<1> QED BY <1>2, <1>6, <1>7

(***************************************************************************)
(* Taking in a chunk                                                       *)
(***************************************************************************)
LEMMA VisibleIs ==
  ASSUME NEW s \in Seq(Char)
  PROVE  Visible(s) \in Seq(Char)
<1>1. PICK acc : ReadingRun(acc, s) /\ acc[Len(s)] = Parsed(s)
  BY ParsedRuns
<1>2. acc[Len(s)] \in Reading
  BY <1>1 DEF ReadingRun
<1> QED BY <1>1, <1>2 DEF Visible, Reading

\* The reading of what is not yet taken in.
ReadsOn(acc, t, n, s) ==
  /\ ReadingRun(acc, s) /\ Len(s) = Len(t) - n
  /\ \A j \in 0..Len(s) : acc[j] = Parsed(Pre(t, n + j))

LEMMA ParsedRest ==
  ASSUME NEW t \in Seq(Char), NEW n \in 0..Len(t), NEW s \in Seq(Char), s = From(t, n)
  PROVE  \E acc : ReadsOn(acc, t, n, s)
<1>1. PICK l \in Nat : l = Len(t) /\ n \in 0..l
  OBVIOUS
<1>2. PICK run : ReadingRun(run, t) /\ run[0] = AtStart /\ run[Len(t)] = Parsed(t)
  BY ParsedRuns
<1>3. ASSUME NEW j \in 0..l PROVE run[j] = Parsed(Pre(t, j))
  <2>1. /\ Pre(t, j) \in Seq(Char) /\ Len(Pre(t, j)) = j
        /\ \A i \in 1..j : Pre(t, j)[i] = t[i]
    BY <1>1, Begins
  <2>2. j <= Len(t) /\ Alike(t, Pre(t, j), j)
    BY <1>1, <2>1 DEF Alike
  <2> QED BY <1>2, <2>1, <2>2, ParsedPrefix
<1>4. Len(s) = l - n /\ \A j \in 1..l - n : s[j] = t[n + j]
  BY <1>1, GoesOn
<1>5. PICK acc : acc = [j \in 0..l - n |-> run[n + j]]
  OBVIOUS
<1>6. ReadingRun(acc, s)
  <2>1. ASSUME NEW j \in 0..l - n PROVE acc[j] \in Reading
    <3>1. n + j \in 0..Len(t)
      BY <1>1
    <3> QED BY <1>2, <1>5, <3>1 DEF ReadingRun
  <2>2. ASSUME NEW j \in 1..l - n PROVE acc[j] = ReadChar(acc[j - 1], s[j])
    <3>1. n + j \in 1..Len(t) /\ j \in 0..l - n /\ j - 1 \in 0..l - n /\ (n + j) - 1 = n + (j - 1)
      BY <1>1
    <3>2. run[n + j] = ReadChar(run[(n + j) - 1], t[n + j])
      BY <1>2, <3>1 DEF ReadingRun
    <3> QED BY <1>4, <1>5, <3>1, <3>2
  <2> QED BY <1>4, <2>1, <2>2 DEF ReadingRun
<1>7. ASSUME NEW j \in 0..l - n PROVE acc[j] = Parsed(Pre(t, n + j))
  <2>1. n + j \in 0..l
    BY <1>1
  <2> QED BY <1>3, <1>5, <2>1
<1> QED BY <1>1, <1>4, <1>6, <1>7 DEF ReadsOn

\* Whatever is stripped, sequences of characters are left.
LEMMA SanitiseLeaves ==
  ASSUME NEW s \in Seq(Char)
  PROVE  Sanitise(s) \in Left
<1>1. PICK acc : ReadingRun(acc, s)
  BY ParsedRuns
<1> QED BY <1>1, SanitiseStrips DEF Strips

\* Up to what is held, s has been read to where text begins, and shows no more.
Holds(held, s) ==
  \E n \in 0..Len(s) :
    /\ held = From(s, n)
    /\ Parsed(Pre(s, n)).mode = "text"
    /\ Visible(Pre(s, n)) = Visible(s)

Shows(t, s, out) == Visible(t) = Visible(s) \o out

\* A chunk is taken in: what is stripped from it and from what was held is
\* what the whole output shows more than before.
LEMMA ChunkTaken ==
  ASSUME NEW s \in Seq(Char), NEW chunk \in Seq(Char), NEW held, Holds(held, s),
         NEW t, t = s \o chunk, NEW r, r = Sanitise(held \o chunk)
  PROVE  t \in Seq(Char) /\ r \in Left /\ Shows(t, s, r.out) /\ Holds(r.held, t)
<1>1. PICK l \in Nat, m \in Nat : l = Len(s) /\ m = Len(chunk)
  OBVIOUS
<1>2. PICK n \in 0..Len(s) : /\ held = From(s, n)
                             /\ Parsed(Pre(s, n)).mode = "text"
                             /\ Visible(Pre(s, n)) = Visible(s)
  BY DEF Holds
<1>3. t \in Seq(Char) /\ Len(t) = l + m /\ \A j \in 1..l : t[j] = s[j]
  <2>1. /\ s \o chunk \in Seq(Char) /\ Len(s \o chunk) = Len(s) + Len(chunk)
        /\ \A j \in 1..Len(s) : (s \o chunk)[j] = s[j]
    BY Concat, ZenonT(30)
  <2> QED BY <1>1, <2>1
<1>4. n \in 0..l /\ n \in 0..Len(t)
  <2>1. Len(t) = l + m
    BY <1>3
  <2> QED BY <1>1, <2>1
<1>5. PICK u : u = held \o chunk
  OBVIOUS
<1>6. u = From(t, n) /\ u \in Seq(Char)
  <2>1. u = From(t, n)
    BY <1>2, <1>5, GoesOnInto
  <2> QED BY <1>3, <1>4, <2>1, GoesOn
<1>7. Pre(t, n) = Pre(s, n)
  <2>1. /\ Pre(s, n) \in Seq(Char) /\ Len(Pre(s, n)) = n
        /\ \A i \in 1..n : Pre(s, n)[i] = s[i]
    BY Begins
  <2>2. /\ Pre(t, n) \in Seq(Char) /\ Len(Pre(t, n)) = n
        /\ \A i \in 1..n : Pre(t, n)[i] = t[i]
    BY <1>3, <1>4, Begins
  <2>3. \A i \in 1..n : i \in 1..l
    BY <1>4
  <2>4. \A i \in 1..n : t[i] = s[i]
    BY <1>3, <2>3
  <2> QED BY <2>1, <2>2, <2>4, SeqEqual
<1>8. PICK acc : /\ ReadingRun(acc, u) /\ Len(u) = Len(t) - n
                 /\ \A j \in 0..Len(u) : acc[j] = Parsed(Pre(t, n + j))
  <2>1. PICK acc : ReadsOn(acc, t, n, u)
    BY <1>3, <1>4, <1>6, ParsedRest
  <2> QED BY <2>1 DEF ReadsOn
<1>9. PICK k \in Nat : k = Len(u) /\ n + k = Len(t) /\ 0 \in 0..Len(u) /\ k \in 0..Len(u)
  <2>1. Len(t) = l + m /\ Len(u) = Len(t) - n
    BY <1>3, <1>8
  <2> QED BY <1>4, <1>6, <2>1
<1>10. acc[0] = Parsed(Pre(s, n)) /\ acc[k] = Parsed(t)
  <2>1. acc[0] = Parsed(Pre(t, n + 0)) /\ n + 0 = n
    BY <1>4, <1>8, <1>9
  <2>2. acc[k] = Parsed(Pre(t, n + k)) /\ Pre(t, Len(t)) = t
    BY <1>3, <1>8, <1>9, AllOf
  <2> QED BY <1>7, <1>9, <2>1, <2>2
<1>11. Strips(acc, u, 0, r)
  BY <1>5, <1>6, <1>8, SanitiseStrips
<1>12. PICK h \in 0..Len(u) : /\ r.held = SubSeq(u, h + 1, Len(u))
                              /\ acc[h].mode = "text" /\ acc[h].out = acc[Len(u)].out
                              /\ acc[Len(u)].out = acc[0].out \o r.out
  BY <1>2, <1>10, <1>11 DEF Strips
<1>13. Shows(t, s, r.out)
  <2>1. Parsed(Pre(s, n)).out = Parsed(s).out
    BY <1>2 DEF Visible
  <2> QED BY <1>9, <1>10, <1>12, <2>1 DEF Shows, Visible
<1>14. PICK i : i = n + h
  OBVIOUS
<1>15. i \in 0..Len(t) /\ h \in 0..Len(t) - n
  <2>1. Len(t) = l + m /\ Len(u) = Len(t) - n
    BY <1>3, <1>8
  <2> QED BY <1>4, <1>14, <2>1
<1>16. r.held = From(t, i)
  <2>1. From(From(t, n), h) = From(t, n + h)
    BY <1>3, <1>4, <1>15, GoesOnFurther
  <2> QED BY <1>6, <1>12, <1>14, <2>1 DEF From
<1>17. acc[h] = Parsed(Pre(t, i))
  BY <1>8, <1>14
<1>18. Holds(r.held, t)
  <2>1. Visible(Pre(t, i)) = Visible(t)
    BY <1>9, <1>10, <1>12, <1>17 DEF Visible
  <2>2. Parsed(Pre(t, i)).mode = "text"
    BY <1>12, <1>17
  <2> QED BY <1>15, <1>16, <2>1, <2>2 DEF Holds
<1>19. r \in Left
  BY <1>11 DEF Strips
<1> QED BY <1>3, <1>13, <1>18, <1>19

(***************************************************************************)
(* The invariant                                                           *)
(***************************************************************************)
Typings ==
  /\ received \in Seq(Char) /\ pending \in Seq(Char)
  /\ text \in Line /\ cleared \in Nat

IInv ==
  /\ Typings
  /\ ~givenUp => Holds(pending, received) /\ cleared <= Len(Visible(received))
  /\ CutsDontShow

LEMMA InitHolds == Init => IInv
<1> SUFFICES ASSUME Init PROVE IInv
  OBVIOUS
<1>1. received = <<>> /\ pending = <<>> /\ text = <<>> /\ cleared = 0
  BY DEF Init
<1>2. received \in Seq(Char) /\ pending \in Seq(Char) /\ text \in Line /\ Len(received) = 0
  BY <1>1 DEF Line
<1>3. Pre(received, 0) = received /\ From(received, 0) = <<>>
  <2>1. Pre(received, 0) = <<>>
    BY <1>2, AllOf
  <2>2. From(received, 0) = <<>>
    BY <1>2, SubSeqEmpty DEF From
  <2> QED BY <1>1, <2>1, <2>2
<1>4. PICK acc : ReadingRun(acc, received) /\ acc[0] = AtStart /\ acc[Len(received)] = Parsed(received)
  BY <1>2, ParsedRuns
<1>5. Parsed(received) = AtStart
  BY <1>2, <1>4
<1>6. Parsed(received).mode = "text" /\ Visible(received) = <<>>
  BY <1>5 DEF AtStart, Visible
<1>7. Holds(pending, received)
  <2>1. 0 \in 0..Len(received)
    BY <1>2
  <2> QED BY <1>1, <1>3, <1>6, <2>1 DEF Holds
<1>8. Typings
  BY <1>1, <1>2 DEF Typings
<1>9. cleared <= Len(Visible(received))
  BY <1>1, <1>6
<1>10. CutsDontShow
  <2>1. SubSeq(Visible(received), cleared + 1, Len(Visible(received))) = <<>>
    BY <1>1, <1>6, SubSeqEmpty
  <2>2. Typed(<<>>) = <<>>
    BY TypedNothing
  <2>3. LastOf(<<>>, MaxText) = <<>>
    BY LastOfNothing
  <2> QED BY <1>1, <2>1, <2>2, <2>3 DEF CutsDontShow
<1> QED BY <1>7, <1>8, <1>9, <1>10 DEF IInv

\* Without a seam, what comes goes on with what is shown.
LEMMA NoSeam ==
  ASSUME NEW v \in Seq(Char), NEW out \in Seq(Char), ~Seam(v, out), NEW n \in 0..Len(v)
  PROVE  Joins(From(v, n), out)
<1>1. PICK l \in Nat, m \in Nat : l = Len(v) /\ m = Len(out) /\ n \in 0..l
  OBVIOUS
<1>2. PICK u : u = From(v, n)
  OBVIOUS
<1>3. u \in Seq(Char) /\ Len(u) = l - n /\ \A j \in 1..l - n : u[j] = v[n + j]
  BY <1>1, <1>2, GoesOn
<1>4. ASSUME NEW i \in 1..m, out[i] = BS PROVE Typed(Pre(out, i - 1)) # <<>>
  <2>1. i \in DOMAIN out
    BY <1>1
  <2> QED BY <1>4, <2>1 DEF Seam, Pre
<1>5. ASSUME Len(u) > 0, Len(out) > 0, u[Len(u)] = CR, out[1] = LF PROVE FALSE
  <2>1. l - n \in 1..l - n /\ n + (l - n) = l /\ l > 0 /\ Len(u) = l - n
    BY <1>1, <1>3, <1>5
  <2>2. v[l] = CR
    BY <1>3, <1>5, <2>1
  <2>3. v # <<>> /\ out # <<>>
    BY <1>1, <1>5, <2>1
  <2>4. Last(v) = CR /\ Head(out) = LF
    BY <1>1, <1>5, <2>2, <2>3 DEF Last
  <2> QED BY <2>3, <2>4 DEF Seam
<1> QED BY <1>1, <1>2, <1>4, <1>5 DEF Joins

LEMMA LastOfIn ==
  ASSUME NEW S, NEW s \in Seq(S), NEW n \in Nat
  PROVE  LastOf(s, n) \in Seq(S)
<1>1. PICK l \in Nat : l = Len(s)
  OBVIOUS
<1> QED BY <1>1, LastOfShort, LastOfLong

\* What is shown before and after a chunk, when nothing shows the cut.
ShownAlike(v, out, n, w) ==
  LastOf(LastOf(Typed(From(v, n)), MaxText) \o Typed(out), MaxText)
    = LastOf(Typed(From(w, n)), MaxText)

LEMMA ShownTogether ==
  ASSUME NEW v \in Seq(Char), NEW out \in Seq(Char), ~Seam(v, out), NEW n \in 0..Len(v),
         NEW w, w = v \o out
  PROVE  ShownAlike(v, out, n, w)
<1>1. PICK u : u = From(v, n)
  OBVIOUS
<1>2. u \in Seq(Char) /\ Joins(u, out)
  BY <1>1, GoesOn, NoSeam
<1>3. From(w, n) = u \o out
  BY <1>1, GoesOnInto
<1>4. Typed(u \o out) = Typed(u) \o Typed(out)
  BY <1>2, TypedTogether
<1>5. Typed(u) \in Line /\ Typed(out) \in Line /\ MaxText \in Nat
  BY <1>2, Typing, SizesAssumption
<1>6. LastOf(LastOf(Typed(u), MaxText) \o Typed(out), MaxText)
        = LastOf(Typed(u) \o Typed(out), MaxText)
  BY <1>5, LastOfTogether DEF Line
<1> QED BY <1>1, <1>3, <1>4, <1>6 DEF ShownAlike

\* A chunk is appended.
LEMMA AppendHolds ==
  ASSUME IInv, NEW chunk \in Seq(Char), AppendBytes(chunk)
  PROVE  IInv'
<1>1. PICK clean : clean = Sanitise(pending \o chunk)
  OBVIOUS
<1>3. /\ pending' = IF Len(clean.held) > MaxPending THEN <<>> ELSE clean.held
      /\ text' = LastOf(text \o Typed(clean.out), MaxText)
      /\ received' = received \o chunk
      /\ cleared' = cleared
  BY <1>1 DEF AppendBytes
<1>4. ~givenUp' => ~givenUp /\ ~(Len(clean.held) > MaxPending)
  BY <1>1 DEF AppendBytes
<1>5. ~seam' => ~seam /\ ~Seam(Visible(received), clean.out)
  BY <1>1 DEF AppendBytes
<1>6. Typings
  BY DEF IInv
<1>7. clean \in Left
  <2>1. pending \o chunk \in Seq(Char)
    BY <1>6, ConcatProperties DEF Typings
  <2> QED BY <1>1, <2>1, SanitiseLeaves
<1>8. clean.out \in Seq(Char) /\ clean.held \in Seq(Char)
  BY <1>7 DEF Left
<1>9. Typings'
  <2>1. received' \in Seq(Char)
    BY <1>3, <1>6, ConcatProperties DEF Typings
  <2>2. pending' \in Seq(Char)
    BY <1>3, <1>8
  <2>3. text' \in Line
    <3>1. Typed(clean.out) \in Line
      BY <1>8, Typing
    <3>2. text \o Typed(clean.out) \in Line
      BY <1>6, <3>1, ConcatProperties DEF Typings, Line
    <3> QED BY <1>3, <3>2, LastOfIn, SizesAssumption DEF Line
  <2>4. cleared' \in Nat
    BY <1>3, <1>6 DEF Typings
  <2> QED BY <2>1, <2>2, <2>3, <2>4 DEF Typings
<1>10. CASE givenUp'
  BY <1>9, <1>10 DEF IInv, CutsDontShow
<1>11. CASE ~givenUp'
  <2>1. Holds(pending, received) /\ cleared <= Len(Visible(received)) /\ ~givenUp
    BY <1>4, <1>11 DEF IInv
  <2>2. Shows(received', received, clean.out) /\ Holds(clean.held, received')
    BY <1>1, <1>3, <1>6, <2>1, ChunkTaken DEF Typings
  <2>3. Holds(pending', received')
    BY <1>3, <1>4, <1>11, <2>2
  <2>4. PICK v, w : v = Visible(received) /\ w = Visible(received')
    OBVIOUS
  <2>5. v \in Seq(Char)
    BY <1>6, <2>4, VisibleIs DEF Typings
  <2>6. w = v \o clean.out
    BY <2>2, <2>4 DEF Shows
  <2>7. cleared \in 0..Len(v)
    BY <1>6, <2>1, <2>4, <2>5 DEF Typings
  <2>8. cleared' <= Len(w)
    <3>1. PICK i \in Nat, j \in Nat : i = Len(v) /\ j = Len(clean.out)
      BY <1>8, <2>5
    <3>2. Len(w) = i + j
      BY <1>8, <2>5, <2>6, <3>1, ConcatProperties
    <3> QED BY <1>3, <2>7, <3>1, <3>2
  <2>9. CutsDontShow'
    <3> SUFFICES ASSUME ~seam' PROVE text' = LastOf(Typed(From(w, cleared)), MaxText)
      BY <1>3, <2>4 DEF CutsDontShow, From
    <3>1. ~seam /\ ~Seam(v, clean.out)
      BY <1>5, <2>4
    <3>2. text = LastOf(Typed(From(v, cleared)), MaxText)
      BY <2>1, <2>4, <3>1 DEF IInv, CutsDontShow, From
    <3>3. text' = LastOf(LastOf(Typed(From(v, cleared)), MaxText) \o Typed(clean.out), MaxText)
      BY <1>3, <3>2
    <3>4. ShownAlike(v, clean.out, cleared, w)
      BY <1>8, <2>5, <2>6, <2>7, <3>1, ShownTogether
    <3> QED BY <3>3, <3>4 DEF ShownAlike
  <2> QED BY <1>9, <2>3, <2>4, <2>8, <2>9 DEF IInv
<1> QED BY <1>10, <1>11

\* The pane is cleared.
LEMMA ClearHolds ==
  ASSUME IInv, Clear
  PROVE  IInv'
<1>1. PICK v : v = Visible(received)
  OBVIOUS
<1>2. /\ text' = <<>> /\ cleared' = Len(v) /\ pending' = pending
      /\ received' = received /\ seam' = seam /\ givenUp' = givenUp
  BY <1>1 DEF Clear
<1>3. v \in Seq(Char)
  BY <1>1, VisibleIs DEF IInv, Typings
<1>4. PICK l \in Nat : l = Len(v)
  BY <1>3
<1>5. Visible(received') = v
  BY <1>1, <1>2
<1>6. Typings'
  <2>1. <<>> \in Line
    BY DEF Line
  <2> QED BY <1>2, <1>4, <2>1 DEF IInv, Typings
<1>7. CutsDontShow'
  <2>1. SubSeq(v, l + 1, l) = <<>>
    BY <1>4, SubSeqEmpty
  <2>2. text' = LastOf(Typed(SubSeq(v, l + 1, l)), MaxText)
    BY <1>2, <2>1, TypedNothing, LastOfNothing
  <2> QED BY <1>2, <1>4, <1>5, <2>2 DEF CutsDontShow
<1>8. ~givenUp' => Holds(pending', received') /\ cleared' <= Len(Visible(received'))
  <2>1. ~givenUp' => Holds(pending', received')
    BY <1>2 DEF IInv
  <2>2. cleared' <= Len(Visible(received'))
    BY <1>2, <1>4, <1>5
  <2> QED BY <2>1, <2>2
<1> QED BY <1>6, <1>7, <1>8 DEF IInv

\* A step keeps the invariant.
LEMMA StepHolds == IInv /\ [Next]_vars => IInv'
<1> SUFFICES ASSUME IInv, [Next]_vars PROVE IInv'
  OBVIOUS
<1>1. ASSUME NEW n \in 1..MaxStream - Len(received), NEW chunk \in [1..n -> Char], AppendBytes(chunk)
      PROVE  IInv'
  <2>1. received \in Seq(Char) /\ MaxStream \in Nat
    BY SizesAssumption DEF IInv, Typings
  <2>2. n \in Nat
    BY <2>1
  <2>3. chunk \in Seq(Char)
    BY <2>2, SeqDef
  <2> QED BY <1>1, <2>3, AppendHolds
<1>2. CASE Clear
  BY <1>2, ClearHolds
<1>3. CASE UNCHANGED vars
  BY <1>3 DEF vars, IInv, Typings, CutsDontShow
<1> QED BY <1>1, <1>2, <1>3 DEF Next

\* However the output is cut into chunks and whatever the limits are, the pane
\* shows the end of what the uncut output shows since it was last cleared, as
\* long as no seam fell on a backspace or within CR LF and no control sequence
\* was too long to be kept (appendBytes, sanitiseTerminalChunk, clear).
THEOREM CutsNeverShow == Spec => []CutsDontShow
<1>1. IInv => CutsDontShow
  BY DEF IInv
<1> QED BY <1>1, InitHolds, StepHolds, PTL DEF Spec
=============================================================================
