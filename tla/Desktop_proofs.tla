--------------------------- MODULE Desktop_proofs ---------------------------
(***************************************************************************)
(* Proofs, for any number of windows, threads and messages, that the stack *)
(* of windows, the frames and the focus agree, and that a change of what   *)
(* is shown keeps a mark until a picture has it.                           *)
(***************************************************************************)
EXTENDS Desktop, FiniteSetTheorems, SequenceTheorems, TLAPS

-----------------------------------------------------------------------------
(* Vec::retain.                                                            *)

\* No window is on the stack z twice.
Once(z) == \A i, j \in 1 .. Len(z) : z[i] = z[j] => i = j

\* The windows of the stack z.
On(z) == {z[i] : i \in 1 .. Len(z)}

\* The numbers of an interval are their own ranks.
LEMMA RankInInterval ==
  ASSUME NEW n \in Nat, NEW i \in 1 .. n
  PROVE  Cardinality({k \in 1 .. n : k <= i}) = i
<1>1. {k \in 1 .. n : k <= i} = 1 .. i
  OBVIOUS
<1>2. Cardinality(1 .. i) = IF 1 > i THEN 0 ELSE i - 1 + 1
  BY FS_Interval
<1>3. Cardinality(1 .. i) = i
  BY <1>2
<1>4. QED
  BY <1>1, <1>3

\* Without p, the numbers above it move down by one.
LEMMA RankWithout ==
  ASSUME NEW n \in Nat, NEW p \in 1 .. n, NEW i \in (1 .. n) \ {p}
  PROVE  Cardinality({k \in (1 .. n) \ {p} : k <= i}) = IF i < p THEN i ELSE i - 1
<1>1. IsFiniteSet(1 .. i) /\ Cardinality(1 .. i) = i
  <2>1. IsFiniteSet(1 .. i) /\ Cardinality(1 .. i) = IF 1 > i THEN 0 ELSE i - 1 + 1
    BY FS_Interval
  <2>2. QED
    BY <2>1
<1>2. CASE i < p
  <2>1. {k \in (1 .. n) \ {p} : k <= i} = 1 .. i
    BY <1>2
  <2>2. QED
    BY <1>1, <1>2, <2>1
<1>3. CASE i > p
  <2>1. {k \in (1 .. n) \ {p} : k <= i} = (1 .. i) \ {p}
    BY <1>3
  <2>2. p \in 1 .. i
    BY <1>3
  <2>3. Cardinality((1 .. i) \ {p}) = i - 1
    BY <1>1, <2>2, FS_RemoveElement
  <2>4. QED
    BY <1>3, <2>1, <2>3
<1>4. QED
  BY <1>2, <1>3

\* The j-th number of an interval is j.
LEMMA NthInInterval ==
  ASSUME NEW n \in Nat, NEW j \in 1 .. n
  PROVE  Nth(1 .. n, j) = j
<1>1. \A i \in 1 .. n : Cardinality({k \in 1 .. n : k <= i}) = i
  BY RankInInterval
<1>2. \A i \in 1 .. n : Cardinality({k \in 1 .. n : k <= i}) = j <=> i = j
  BY <1>1
<1>3. QED
  BY <1>2 DEF Nth

\* Without p, the j-th is j before p and the next one after.
LEMMA NthWithout ==
  ASSUME NEW n \in Nat, NEW p \in 1 .. n, NEW j \in 1 .. n - 1
  PROVE  Nth((1 .. n) \ {p}, j) = IF j < p THEN j ELSE j + 1
<1> DEFINE K == (1 .. n) \ {p}
           x == IF j < p THEN j ELSE j + 1
<1>1. x \in K
  OBVIOUS
<1>2. ASSUME NEW i \in K PROVE Cardinality({k \in K : k <= i}) = j <=> i = x
  <2>1. Cardinality({k \in K : k <= i}) = IF i < p THEN i ELSE i - 1
    BY RankWithout
  <2>2. i \in 1 .. n /\ i # p
    OBVIOUS
  <2> HIDE DEF K
  <2>3. QED
    BY <2>1, <2>2
<1> HIDE DEF K, x
<1>3. Nth(K, j) = x
  BY <1>1, <1>2 DEF Nth
<1>4. QED
  BY <1>3 DEF K, x

\* What is left of a stack is on it once, and is all of it but the window.
LEMMA WithoutFacts ==
  ASSUME NEW S, z_order \in Seq(S), Once(z_order), NEW h
  PROVE  /\ Without(h) \in Seq(S) /\ Once(Without(h))
         /\ On(Without(h)) = On(z_order) \ {h}
<1>1. PICK n \in Nat : n = Len(z_order)
  BY LenProperties
<1>2. DOMAIN z_order = 1 .. n /\ \A i \in 1 .. n : z_order[i] \in S
  BY <1>1, LenProperties, ElementOfSeq
<1>3. CASE \A i \in 1 .. n : z_order[i] # h
  <2>1. Kept(h) = 1 .. n
    BY <1>2, <1>3 DEF Kept
  <2>2. Cardinality(1 .. n) = n
    <3>1. Cardinality(1 .. n) = IF 1 > n THEN 0 ELSE n - 1 + 1
      BY FS_Interval
    <3>2. QED
      BY <3>1
  <2>3. Without(h) = [j \in 1 .. n |-> z_order[j]]
    <3>1. \A j \in 1 .. n : Nth(1 .. n, j) = j
      BY NthInInterval
    <3>2. QED
      BY <2>1, <2>2, <3>1 DEF Without
  <2>4. Without(h) = z_order
    <3>1. z_order = [j \in 1 .. n |-> z_order[j]]
      BY <1>1, <1>2, LenProperties
    <3>2. QED
      BY <2>3, <3>1
  <2>5. On(z_order) = On(z_order) \ {h}
    BY <1>1, <1>3 DEF On
  <2>6. QED
    BY <2>4, <2>5
<1>4. ASSUME NEW p \in 1 .. n, z_order[p] = h
      PROVE  /\ Without(h) \in Seq(S) /\ Once(Without(h))
             /\ On(Without(h)) = On(z_order) \ {h}
  <2>1. \A i \in 1 .. n : z_order[i] = h <=> i = p
    BY <1>1, <1>4 DEF Once
  <2>2. Kept(h) = (1 .. n) \ {p}
    BY <1>2, <2>1 DEF Kept
  <2>3. Cardinality((1 .. n) \ {p}) = n - 1
    <3>1. IsFiniteSet(1 .. n) /\ Cardinality(1 .. n) = IF 1 > n THEN 0 ELSE n - 1 + 1
      BY FS_Interval
    <3>2. IsFiniteSet(1 .. n) /\ Cardinality(1 .. n) = n
      BY <3>1
    <3>3. QED
      BY <3>2, FS_RemoveElement
  <2> DEFINE at(j) == IF j < p THEN j ELSE j + 1
  <2>4. Without(h) = [j \in 1 .. n - 1 |-> z_order[at(j)]]
    <3>1. \A j \in 1 .. n - 1 : Nth((1 .. n) \ {p}, j) = at(j)
      BY NthWithout
    <3>2. QED
      BY <2>2, <2>3, <3>1 DEF Without
  <2>5. \A j \in 1 .. n - 1 : at(j) \in 1 .. n /\ at(j) # p
    OBVIOUS
  <2>6. /\ Without(h) \in Seq(S) /\ Len(Without(h)) = n - 1
        /\ \A j \in 1 .. n - 1 : Without(h)[j] = z_order[at(j)]
    <3>1. n - 1 \in Nat
      OBVIOUS
    <3>2. \A j \in 1 .. n - 1 : z_order[at(j)] \in S
      BY <1>2, <2>5
    <3> DEFINE w == [j \in 1 .. n - 1 |-> z_order[at(j)]]
    <3>3. w \in Seq(S) /\ Len(w) = n - 1 /\ \A j \in 1 .. n - 1 : w[j] = z_order[at(j)]
      <4>1. w \in Seq(S)
        BY <3>1, <3>2, IsASeq
      <4>2. DOMAIN w = 1 .. n - 1 /\ \A j \in 1 .. n - 1 : w[j] = z_order[at(j)]
        OBVIOUS
      <4>3. QED
        BY <3>1, <4>1, <4>2, LenProperties
    <3>4. QED
      BY <2>4, <3>3
  <2>7. Once(Without(h))
    <3> SUFFICES ASSUME NEW i \in 1 .. n - 1, NEW j \in 1 .. n - 1, Without(h)[i] = Without(h)[j]
                 PROVE  i = j
      BY <2>6 DEF Once
    <3>1. z_order[at(i)] = z_order[at(j)] /\ at(i) \in 1 .. n /\ at(j) \in 1 .. n
      BY <2>5, <2>6
    <3>2. at(i) = at(j)
      BY <1>1, <3>1 DEF Once
    <3>3. QED
      BY <3>2
  <2>8. On(Without(h)) \subseteq On(z_order) \ {h}
    BY <1>1, <2>1, <2>5, <2>6 DEF On
  <2>9. ASSUME NEW x \in On(z_order) \ {h} PROVE x \in On(Without(h))
    <3>1. PICK i \in 1 .. n : x = z_order[i]
      BY <1>1 DEF On
    <3>2. i # p
      BY <2>1, <3>1
    <3>3. PICK j \in 1 .. n - 1 : at(j) = i
      <4>1. CASE i < p
        <5>1. i \in 1 .. n - 1 /\ at(i) = i
          BY <4>1
        <5>2. QED
          BY <5>1
      <4>2. CASE i > p
        <5>1. i - 1 \in 1 .. n - 1 /\ at(i - 1) = i
          BY <4>2
        <5>2. QED
          BY <5>1
      <4>3. QED
        BY <3>2, <4>1, <4>2
    <3>4. QED
      BY <2>6, <3>1, <3>3 DEF On
  <2>10. QED
    BY <2>6, <2>7, <2>8, <2>9
<1>5. QED
  BY <1>3, <1>4

\* A window put at place i of a stack it was not on.
LEMMA Inserted ==
  ASSUME NEW S, NEW w \in Seq(S), NEW h \in S, h \notin On(w), Once(w),
         NEW t \in Seq(S), Len(t) = Len(w) + 1, NEW i \in 1 .. Len(w) + 1, t[i] = h,
         \A j \in 1 .. i - 1 : t[j] = w[j],
         \A j \in i .. Len(w) : t[j + 1] = w[j]
  PROVE  Once(t) /\ On(t) = On(w) \cup {h}
<1>1. PICK n \in Nat : n = Len(w)
  BY LenProperties
<1> DEFINE from(j) == IF j < i THEN j ELSE j - 1
<1>2. \A j \in 1 .. n + 1 : j # i => from(j) \in 1 .. n /\ t[j] = w[from(j)]
  <2> SUFFICES ASSUME NEW j \in 1 .. n + 1, j # i PROVE from(j) \in 1 .. n /\ t[j] = w[from(j)]
    OBVIOUS
  <2>1. i \in 1 .. n + 1
    BY <1>1
  <2>2. CASE j < i
    BY <1>1, <2>1, <2>2
  <2>3. CASE j > i
    <3>1. j - 1 \in i .. n /\ (j - 1) + 1 = j /\ from(j) = j - 1 /\ j - 1 \in 1 .. n
      BY <2>1, <2>3
    <3>2. t[(j - 1) + 1] = w[j - 1]
      BY <1>1, <3>1
    <3>3. QED
      BY <3>1, <3>2
  <2>4. QED
    BY <2>1, <2>2, <2>3
<1>3. \A j \in 1 .. n : w[j] # h
  BY <1>1 DEF On
<1>4. \A j, k \in 1 .. n : w[j] = w[k] => j = k
  BY <1>1 DEF Once
<1>5. Once(t)
  <2> SUFFICES ASSUME NEW j \in 1 .. n + 1, NEW k \in 1 .. n + 1, t[j] = t[k] PROVE j = k
    BY <1>1 DEF Once
  <2>1. CASE j = i \/ k = i
    BY <1>2, <1>3, <2>1
  <2>2. CASE j # i /\ k # i
    <3>1. from(j) = from(k)
      <4>1. PICK x \in 1 .. n, y \in 1 .. n : x = from(j) /\ y = from(k) /\ t[j] = w[x] /\ t[k] = w[y]
        BY <1>2, <2>2
      <4>2. x = y
        BY <1>4, <4>1
      <4>3. QED
        BY <4>1, <4>2
    <3>2. i \in 1 .. n + 1
      BY <1>1
    <3>3. QED
      BY <2>2, <3>1, <3>2
  <2>3. QED
    BY <2>1, <2>2
<1>6. On(t) \subseteq On(w) \cup {h}
  <2>1. ASSUME NEW j \in 1 .. n + 1 PROVE t[j] \in On(w) \cup {h}
    BY <1>1, <1>2 DEF On
  <2>2. QED
    BY <1>1, <2>1 DEF On
<1>7. On(w) \cup {h} \subseteq On(t)
  <2>1. h \in On(t)
    BY DEF On
  <2>2. ASSUME NEW j \in 1 .. n PROVE w[j] \in On(t)
    <3>1. i \in 1 .. n + 1
      BY <1>1
    <3>2. CASE j < i
      <4>1. j \in 1 .. i - 1 /\ j \in 1 .. n + 1
        BY <3>1, <3>2
      <4>2. QED
        BY <1>1, <4>1 DEF On
    <3>3. CASE ~(j < i)
      <4>1. j \in i .. n /\ j + 1 \in 1 .. n + 1
        BY <3>1, <3>3
      <4>2. QED
        BY <1>1, <4>1 DEF On
    <3>4. QED
      BY <3>2, <3>3
  <2>3. QED
    BY <1>1, <2>1, <2>2 DEF On
<1>8. QED
  BY <1>5, <1>6, <1>7

\* The three places the calls put a window at.
LEMMA PutAtTop ==
  ASSUME NEW S, NEW w \in Seq(S), NEW h \in S, h \notin On(w), Once(w)
  PROVE  /\ Append(w, h) \in Seq(S) /\ Once(Append(w, h)) /\ On(Append(w, h)) = On(w) \cup {h}
         /\ Append(w, h) # <<>>
<1>1. PICK n \in Nat : n = Len(w)
  BY LenProperties
<1> DEFINE t == Append(w, h)
<1>2. /\ t \in Seq(S) /\ Len(t) = n + 1
      /\ \A j \in 1 .. n : t[j] = w[j]
      /\ t[n + 1] = h
  BY <1>1, AppendProperties
<1> HIDE DEF t
<1>3. PICK i \in 1 .. n + 1 : i = n + 1
  OBVIOUS
<1>4. (\A j \in 1 .. i - 1 : t[j] = w[j]) /\ i .. n = {} /\ t[i] = h
  BY <1>2, <1>3
<1>5. Once(t) /\ On(t) = On(w) \cup {h}
  BY <1>1, <1>2, <1>4, Inserted
<1>6. QED
  BY <1>2, <1>5, EmptySeq DEF t

LEMMA PutBehind ==
  ASSUME NEW S, NEW w \in Seq(S), NEW h \in S, h \notin On(w), Once(w), NEW i \in 1 .. Len(w) + 1
  PROVE  /\ InsertAt(w, i, h) \in Seq(S) /\ Once(InsertAt(w, i, h))
         /\ On(InsertAt(w, i, h)) = On(w) \cup {h} /\ InsertAt(w, i, h) # <<>>
<1>1. PICK n \in Nat : n = Len(w)
  BY LenProperties
<1>2. i \in 1 .. n + 1
  BY <1>1
<1>3. \A j \in 1 .. n : w[j] \in S
  BY <1>1, ElementOfSeq
<1> DEFINE a == SubSeq(w, 1, i - 1)
           b == SubSeq(w, i, n)
<1>4. a \in Seq(S) /\ Len(a) = i - 1 /\ \A j \in 1 .. i - 1 : a[j] = w[j]
  <2>1. i - 1 \in Int /\ \A j \in 1 .. i - 1 : w[j] \in S
    BY <1>2, <1>3
  <2>2. /\ a \in Seq(S) /\ Len(a) = IF 1 <= i - 1 THEN (i - 1) - 1 + 1 ELSE 0
        /\ \A j \in 1 .. (i - 1) - 1 + 1 : a[j] = w[1 + j - 1]
    BY <2>1, SubSeqProperties
  <2> HIDE DEF a
  <2>3. Len(a) = i - 1
    BY <1>2, <2>2
  <2>4. ASSUME NEW j \in 1 .. i - 1 PROVE a[j] = w[j]
    <3>1. j \in 1 .. (i - 1) - 1 + 1 /\ 1 + j - 1 = j
      BY <1>2
    <3>2. QED
      BY <2>2, <3>1
  <2>5. QED
    BY <2>2, <2>3, <2>4
<1>5. b \in Seq(S) /\ Len(b) = n - i + 1 /\ \A j \in 1 .. n - i + 1 : b[j] = w[i + j - 1]
  <2>1. i \in Int /\ n \in Int /\ \A j \in i .. n : w[j] \in S
    BY <1>2, <1>3
  <2>2. /\ b \in Seq(S) /\ Len(b) = IF i <= n THEN n - i + 1 ELSE 0
        /\ \A j \in 1 .. n - i + 1 : b[j] = w[i + j - 1]
    BY <2>1, SubSeqProperties
  <2> HIDE DEF b
  <2>3. QED
    BY <1>2, <2>2
<1> HIDE DEF a, b
<1>6. <<h>> \in Seq(S) /\ Len(<<h>>) = 1 /\ <<h>>[1] = h
  OBVIOUS
<1> DEFINE c == a \o <<h>>
           t == c \o b
<1>7. /\ c \in Seq(S) /\ Len(c) = i
      /\ \A j \in 1 .. i - 1 : c[j] = a[j]
      /\ c[i] = h
  <2>1. /\ c \in Seq(S) /\ Len(c) = Len(a) + Len(<<h>>)
        /\ \A j \in 1 .. Len(a) + Len(<<h>>) : c[j] = IF j <= Len(a) THEN a[j] ELSE <<h>>[j - Len(a)]
    BY <1>4, <1>6, ConcatProperties
  <2> HIDE DEF c
  <2>2. Len(a) + Len(<<h>>) = i
    BY <1>2, <1>4, <1>6
  <2>3. ASSUME NEW j \in 1 .. i - 1 PROVE c[j] = a[j]
    <3>1. j \in 1 .. i /\ j <= Len(a)
      BY <1>2, <1>4
    <3>2. QED
      BY <2>1, <2>2, <3>1
  <2>4. c[i] = h
    <3>1. i \in 1 .. i /\ ~(i <= Len(a)) /\ i - Len(a) = 1
      BY <1>2, <1>4
    <3>2. QED
      BY <1>6, <2>1, <2>2, <3>1
  <2>5. QED
    BY <2>1, <2>2, <2>3, <2>4
<1> HIDE DEF c
<1>8. /\ t \in Seq(S) /\ Len(t) = n + 1 /\ t[i] = h
      /\ \A j \in 1 .. i - 1 : t[j] = w[j]
      /\ \A j \in i .. n : t[j + 1] = w[j]
  <2>1. /\ t \in Seq(S) /\ Len(t) = Len(c) + Len(b)
        /\ \A j \in 1 .. Len(c) + Len(b) : t[j] = IF j <= Len(c) THEN c[j] ELSE b[j - Len(c)]
    BY <1>5, <1>7, ConcatProperties
  <2> HIDE DEF t
  <2>2. Len(c) + Len(b) = n + 1
    BY <1>2, <1>5, <1>7
  <2>3. t[i] = h
    BY <1>2, <1>7, <2>1, <2>2
  <2>4. ASSUME NEW j \in 1 .. i - 1 PROVE t[j] = w[j]
    <3>1. j \in 1 .. n + 1 /\ j <= i
      BY <1>2
    <3>2. t[j] = c[j]
      BY <1>7, <2>1, <2>2, <3>1
    <3>3. QED
      BY <1>4, <1>7, <3>2
  <2>5. ASSUME NEW j \in i .. n PROVE t[j + 1] = w[j]
    <3>1. /\ j + 1 \in 1 .. n + 1 /\ ~(j + 1 <= i) /\ (j + 1) - i \in 1 .. n - i + 1
          /\ i + ((j + 1) - i) - 1 = j
      BY <1>2
    <3>2. t[j + 1] = b[(j + 1) - i]
      BY <1>7, <2>1, <2>2, <3>1
    <3>3. b[(j + 1) - i] = w[i + ((j + 1) - i) - 1]
      BY <1>5, <3>1
    <3>4. QED
      BY <3>1, <3>2, <3>3
  <2>6. QED
    BY <2>1, <2>2, <2>3, <2>4, <2>5
<1>9. InsertAt(w, i, h) = t
  BY <1>1 DEF InsertAt, a, b, c
<1> HIDE DEF t
<1>10. Once(t) /\ On(t) = On(w) \cup {h}
  BY <1>1, <1>2, <1>8, Inserted
<1>11. t # <<>>
  BY <1>8, EmptySeq
<1>12. QED
  BY <1>8, <1>9, <1>10, <1>11

LEMMA PutAtBottom ==
  ASSUME NEW S, NEW w \in Seq(S), NEW h \in S, h \notin On(w), Once(w)
  PROVE  /\ <<h>> \o w \in Seq(S) /\ Once(<<h>> \o w) /\ On(<<h>> \o w) = On(w) \cup {h}
         /\ <<h>> \o w # <<>>
<1>1. PICK n \in Nat : n = Len(w)
  BY LenProperties
<1>2. <<h>> \in Seq(S) /\ Len(<<h>>) = 1 /\ <<h>>[1] = h
  OBVIOUS
<1> DEFINE t == <<h>> \o w
<1>3. /\ t \in Seq(S) /\ Len(t) = 1 + n
      /\ \A j \in 1 .. 1 + n : t[j] = IF j <= 1 THEN <<h>>[j] ELSE w[j - 1]
  BY <1>1, <1>2, ConcatProperties
<1> HIDE DEF t
<1>4. Len(t) = n + 1 /\ t[1] = h
  BY <1>2, <1>3
<1>5. ASSUME NEW j \in 1 .. n PROVE t[j + 1] = w[j]
  <2>1. j + 1 \in 1 .. 1 + n /\ ~(j + 1 <= 1) /\ (j + 1) - 1 = j
    OBVIOUS
  <2>2. QED
    BY <1>3, <2>1
<1>6. 1 \in 1 .. n + 1 /\ 1 .. 1 - 1 = {}
  OBVIOUS
<1>7. Once(t) /\ On(t) = On(w) \cup {h}
  BY <1>1, <1>3, <1>4, <1>5, <1>6, Inserted
<1>8. QED
  BY <1>3, <1>4, <1>7, EmptySeq DEF t

-----------------------------------------------------------------------------
(* The stack, the frames and the focus.                                    *)

WindowRecord == [class : Classes, visible : BOOLEAN]

\* The inductive invariant: StackMatches, that handles are those of windows,
\* and that frames and dialogs are told apart by their class.
StackInv ==
  /\ windows \in Seq(WindowRecord)
  /\ z_order \in Seq(1 .. Len(windows))
  /\ Frames \subseteq 1 .. Len(windows)
  /\ \A f \in Frames : windows[f].class = "frame"
  /\ Once(z_order)
  /\ Frames \subseteq On(z_order)
  /\ \A h \in On(z_order) \ Frames : windows[h].class = "dialog"
  /\ focused_hwnd \in {0} \cup On(z_order)

\* A window brought to the top, to the bottom or behind another.
LEMMA Pushed ==
  ASSUME NEW S, z_order \in Seq(S), Once(z_order), NEW h \in S, z_push_top(h) \/ SWP_ZORDER(h)
  PROVE  /\ z_order' \in Seq(S) /\ Once(z_order') /\ On(z_order') = On(z_order) \cup {h}
         /\ z_order' # <<>>
<1> DEFINE w == Without(h)
<1>1. w \in Seq(S) /\ Once(w) /\ On(w) = On(z_order) \ {h}
  BY WithoutFacts
<1>2. h \notin On(w) /\ On(w) \cup {h} = On(z_order) \cup {h}
  BY <1>1
<1>3. CASE z_order' = Append(w, h)
  BY <1>1, <1>2, <1>3, PutAtTop
<1>4. CASE z_order' = <<h>> \o w
  BY <1>1, <1>2, <1>4, PutAtBottom
<1>5. ASSUME NEW i \in DOMAIN w, z_order' = InsertAt(w, i, h)
      PROVE  /\ z_order' \in Seq(S) /\ Once(z_order') /\ On(z_order') = On(z_order) \cup {h}
             /\ z_order' # <<>>
  <2>1. i \in 1 .. Len(w) + 1
    BY <1>1, LenProperties
  <2>2. QED
    BY <1>1, <1>2, <1>5, <2>1, PutBehind
<1>6. \/ z_order' = Append(w, h) \/ z_order' = <<h>> \o w
      \/ \E i \in DOMAIN w : z_order' = InsertAt(w, i, h)
  <2>1. ASSUME NEW b, z_insert_behind(h, b)
        PROVE  z_order' = Append(w, h) \/ \E i \in DOMAIN w : z_order' = InsertAt(w, i, h)
    BY <2>1 DEF z_insert_behind, Restacked
  <2>2. QED
    BY <2>1 DEF SWP_ZORDER, z_push_top, z_push_bottom, Restacked
<1>7. QED
  BY <1>3, <1>4, <1>5, <1>6

\* A window taken off the stack loses the focus.
LEMMA Removed ==
  ASSUME NEW S, z_order \in Seq(S), Once(z_order), NEW h, z_remove(h),
         focused_hwnd \in {0} \cup On(z_order)
  PROVE  /\ z_order' \in Seq(S) /\ Once(z_order') /\ On(z_order') = On(z_order) \ {h}
         /\ focused_hwnd' \in {0} \cup On(z_order')
<1> DEFINE w == Without(h)
<1>1. w \in Seq(S) /\ Once(w) /\ On(w) = On(z_order) \ {h}
  BY WithoutFacts
<1>2. z_order' = w /\ focused_hwnd' = IF focused_hwnd = h THEN TopOf(w) ELSE focused_hwnd
  BY DEF z_remove, Restacked
<1> HIDE DEF w
<1>3. TopOf(w) \in {0} \cup On(w)
  <2>1. CASE w = <<>>
    BY <2>1 DEF TopOf
  <2>2. CASE w # <<>>
    <3>1. Len(w) \in 1 .. Len(w)
      BY <1>1, <2>2, EmptySeq, LenProperties
    <3>2. QED
      BY <2>2, <3>1 DEF TopOf, Last, On
  <2>3. QED
    BY <2>1, <2>2
<1>4. QED
  BY <1>1, <1>2, <1>3

\* Windows keep their number and their class.
ClassesKept ==
  /\ windows' \in Seq(WindowRecord) /\ Len(windows') = Len(windows)
  /\ \A h \in 1 .. Len(windows) : windows'[h].class = windows[h].class

LEMMA ShownKeepsClass ==
  ASSUME windows \in Seq(WindowRecord), NEW h \in Hwnds, NEW show \in BOOLEAN,
         windows' = ShownOrHidden(h, show)
  PROVE  ClassesKept
<1>1. CASE windows' = windows
  BY <1>1 DEF ClassesKept
<1>2. CASE windows' = [windows EXCEPT ![h].visible = show]
  <2>1. DOMAIN windows = 1 .. Len(windows) /\ h \in 1 .. Len(windows)
    BY LenProperties DEF Hwnds
  <2>2. PICK r \in WindowRecord : r = windows[h]
    BY <2>1, ElementOfSeq
  <2> DEFINE e == [r EXCEPT !.visible = show]
  <2>3. e \in WindowRecord /\ e.class = r.class
    BY DEF WindowRecord
  <2>4. windows' = [windows EXCEPT ![h] = e]
    BY <1>2, <2>2
  <2> HIDE DEF e
  <2>5. windows' \in Seq(WindowRecord) /\ Len(windows') = Len(windows)
    BY <2>1, <2>3, <2>4, ExceptSeq
  <2>6. \A k \in 1 .. Len(windows) : windows'[k] = IF k = h THEN e ELSE windows[k]
    BY <2>1, <2>4
  <2>7. QED
    BY <2>2, <2>3, <2>5, <2>6 DEF ClassesKept
<1>3. QED
  BY <1>1, <1>2 DEF ShownOrHidden

\* The stack is left alone.
LEMMA StackAlone ==
  ASSUME StackInv, ClassesKept, UNCHANGED <<frame_to_client, z_order, focused_hwnd>>
  PROVE  StackInv'
<1>1. /\ On(z_order') = On(z_order) /\ Once(z_order') /\ Frames' = Frames
      /\ \A h \in On(z_order) : h \in 1 .. Len(windows)
  <2>1. \A i \in 1 .. Len(z_order) : z_order[i] \in 1 .. Len(windows)
    BY ElementOfSeq DEF StackInv
  <2>2. QED
    BY <2>1 DEF StackInv, On, Frames, Once
<1>2. QED
  BY <1>1 DEF StackInv, ClassesKept

\* A frame is moved on the stack, and may get the focus.
LEMMA FrameMoved ==
  ASSUME StackInv, ClassesKept, NEW h \in Frames, z_push_top(h) \/ SWP_ZORDER(h),
         UNCHANGED frame_to_client, focused_hwnd' \in {focused_hwnd, h}
  PROVE  StackInv'
<1>1. h \in 1 .. Len(windows) /\ h \in On(z_order) /\ Frames' = Frames
  BY DEF StackInv, Frames
<1>2. /\ z_order' \in Seq(1 .. Len(windows)) /\ Once(z_order')
      /\ On(z_order') = On(z_order) \cup {h}
  BY <1>1, Pushed DEF StackInv
<1>3. On(z_order') = On(z_order)
  BY <1>1, <1>2
<1>4. \A g \in On(z_order) : g \in 1 .. Len(windows)
  BY ElementOfSeq DEF StackInv, On
<1>5. QED
  BY <1>1, <1>2, <1>3, <1>4 DEF StackInv, ClassesKept

\* A frame or a dialog leaves the stack, and a frame the table of frames.
LEMMA WindowLeft ==
  ASSUME StackInv, NEW h, z_remove(h), UNCHANGED windows, Frames' = Frames \ {h}
  PROVE  StackInv'
<1>1. /\ z_order' \in Seq(1 .. Len(windows)) /\ Once(z_order') /\ On(z_order') = On(z_order) \ {h}
      /\ focused_hwnd' \in {0} \cup On(z_order')
  BY Removed DEF StackInv
<1>2. QED
  BY <1>1 DEF StackInv

\* A new window at the top of the stack, with those made together with it.
LEMMA WindowMade ==
  ASSUME StackInv, NEW ws \in Seq(WindowRecord), NEW h, h = Len(windows) + 1,
         Len(ws) \in Nat \ {0}, create_window(ws), z_push_top(h),
         \/ Frames' = Frames \cup {h} /\ ws[1].class = "frame" /\ focused_hwnd' = h
         \/ Frames' = Frames /\ ws[1].class = "dialog" /\ focused_hwnd' = focused_hwnd
  PROVE  StackInv'
<1>1. PICK n \in Nat : n = Len(windows)
  BY LenProperties DEF StackInv
<1>2. PICK m \in Nat \ {0} : m = Len(ws)
  OBVIOUS
<1>3. /\ windows' \in Seq(WindowRecord) /\ Len(windows') = n + m
      /\ \A i \in 1 .. n : windows'[i] = windows[i]
      /\ windows'[h] = ws[1]
  <2>1. /\ windows \o ws \in Seq(WindowRecord) /\ Len(windows \o ws) = n + m
        /\ \A i \in 1 .. n + m : (windows \o ws)[i] = IF i <= n THEN windows[i] ELSE ws[i - n]
    BY <1>1, <1>2, ConcatProperties DEF StackInv
  <2>2. windows' = windows \o ws
    BY DEF create_window
  <2>3. h \in 1 .. n + m /\ ~(h <= n) /\ h - n = 1 /\ \A i \in 1 .. n : i \in 1 .. n + m /\ i <= n
    BY <1>1, <1>2
  <2>4. QED
    BY <2>1, <2>2, <2>3
<1>4. /\ h \in 1 .. n + m /\ h \notin 1 .. n /\ 1 .. n \subseteq 1 .. n + m
  BY <1>1, <1>2
<1>5. z_order \in Seq(1 .. n + m)
  <2>1. z_order \in Seq(1 .. n)
    BY <1>1 DEF StackInv
  <2>2. QED
    BY <2>1, <1>4, SeqMonotonic
<1>6. /\ z_order' \in Seq(1 .. n + m) /\ Once(z_order') /\ On(z_order') = On(z_order) \cup {h}
  BY <1>4, <1>5, Pushed DEF StackInv
<1>7. \A g \in On(z_order) : g \in 1 .. n
  BY <1>1, ElementOfSeq DEF StackInv, On
<1>8. Frames' \subseteq 1 .. n + m /\ Frames \subseteq 1 .. n
  BY <1>1, <1>4 DEF StackInv
<1>9. \A f \in Frames' : windows'[f].class = "frame"
  BY <1>3, <1>8 DEF StackInv
<1>10. \A g \in On(z_order') \ Frames' : windows'[g].class = "dialog"
  <2> SUFFICES ASSUME NEW g \in On(z_order') \ Frames' PROVE windows'[g].class = "dialog"
    OBVIOUS
  <2>1. CASE g = h
    BY <1>3, <1>6, <2>1
  <2>2. CASE g # h
    BY <1>3, <1>6, <1>7, <2>2 DEF StackInv
  <2>3. QED
    BY <2>1, <2>2
<1>11. Frames' \subseteq On(z_order') /\ focused_hwnd' \in {0} \cup On(z_order')
  BY <1>6 DEF StackInv
<1>12. QED
  BY <1>3, <1>6, <1>8, <1>9, <1>10, <1>11 DEF StackInv

\* A step that changes neither windows, stack nor focus.
LEMMA StackQuiet ==
  ASSUME StackInv, UNCHANGED <<windows, frame_to_client, z_order, focused_hwnd>>
  PROVE  StackInv'
<1>1. ClassesKept
  BY DEF ClassesKept, StackInv
<1>2. QED
  BY <1>1, StackAlone

LEMMA StackCalls ==
  ASSUME StackInv, WindowCall
  PROVE  StackInv'
<1>1. ASSUME UNCHANGED windows PROVE ClassesKept
  BY <1>1 DEF ClassesKept, StackInv
<1>2. ASSUME NEW visible \in BOOLEAN, WinCreateStdWindow(visible) PROVE StackInv'
  <2> DEFINE ws == <<Window("frame", visible), Window("client", FALSE)>>
             h  == Len(windows) + 1
  <2>1. ws \in Seq(WindowRecord) /\ Len(ws) \in Nat \ {0} /\ ws[1].class = "frame"
    BY DEF Window, WindowRecord, Classes
  <2>2. create_window(ws) /\ z_push_top(h) /\ Frames' = Frames \cup {h} /\ focused_hwnd' = h
    BY <1>2 DEF WinCreateStdWindow, Frames
  <2> HIDE DEF ws, h
  <2>3. h = Len(windows) + 1
    BY DEF h
  <2>4. QED
    BY <2>1, <2>2, <2>3, WindowMade
<1>3. ASSUME create_dialog_from_template PROVE StackInv'
  <2> DEFINE ws == <<Window("dialog", TRUE)>>
             h  == Len(windows) + 1
  <2>1. ws \in Seq(WindowRecord) /\ Len(ws) \in Nat \ {0} /\ ws[1].class = "dialog"
    BY DEF Window, WindowRecord, Classes
  <2>2. create_window(ws) /\ z_push_top(h) /\ Frames' = Frames /\ focused_hwnd' = focused_hwnd
    BY <1>3 DEF create_dialog_from_template, Frames
  <2> HIDE DEF ws, h
  <2>3. h = Len(windows) + 1
    BY DEF h
  <2>4. QED
    BY <2>1, <2>2, <2>3, WindowMade
<1>4. ASSUME NEW h \in Hwnds, DismissedDialogReturns(h) PROVE StackInv'
  <2>1. z_remove(h) /\ UNCHANGED windows /\ windows[h].class = "dialog" /\ Frames' = Frames
    BY <1>4 DEF DismissedDialogReturns, Frames
  <2>2. h \notin Frames
    BY <2>1 DEF StackInv
  <2>3. Frames' = Frames \ {h}
    BY <2>1, <2>2
  <2>4. QED
    BY <2>1, <2>3, WindowLeft
<1>5. ASSUME NEW h \in Hwnds, WinDestroyWindow(h) PROVE StackInv'
  <2>1. z_remove(h) /\ UNCHANGED windows /\ Frames' = Frames \ {h}
    BY <1>5 DEF WinDestroyWindow, Frames
  <2>2. QED
    BY <2>1, WindowLeft
<1>6. ASSUME NEW h \in Hwnds, WinSetActiveWindow(h) PROVE StackInv'
  <2> DEFINE f == client_to_frame(h)
  <2>1. f \in Frames /\ focused_hwnd' = f /\ z_push_top(f) /\ UNCHANGED <<windows, frame_to_client>>
    BY <1>6 DEF WinSetActiveWindow
  <2> HIDE DEF f
  <2>2. QED
    BY <1>1, <2>1, FrameMoved
<1>7. ASSUME NEW h \in Hwnds, NEW show \in BOOLEAN, WinShowWindow(h, show) PROVE StackInv'
  <2>1. windows' = ShownOrHidden(h, show) /\ UNCHANGED <<frame_to_client, z_order, focused_hwnd>>
    BY <1>7 DEF WinShowWindow
  <2>2. QED
    BY <2>1, ShownKeepsClass, StackAlone DEF StackInv
<1>8. ASSUME NEW h \in Hwnds, NEW fl, WinSetWindowPos(h, fl) PROVE StackInv'
  <2>1. ClassesKept
    <3>1. (fl = "SWP_SHOW") \in BOOLEAN
      OBVIOUS
    <3>2. windows' = windows \/ windows' = ShownOrHidden(h, fl = "SWP_SHOW")
      BY <1>8 DEF WinSetWindowPos
    <3>3. QED
      BY <1>1, <3>1, <3>2, ShownKeepsClass DEF StackInv
  <2>2. UNCHANGED frame_to_client
    BY <1>8 DEF WinSetWindowPos
  <2>3. \/ h \in Frames /\ SWP_ZORDER(h) /\ UNCHANGED focused_hwnd
        \/ h \in Frames /\ z_push_top(h) /\ focused_hwnd' = h
        \/ UNCHANGED <<z_order, focused_hwnd>>
    BY <1>8 DEF WinSetWindowPos
  <2>4. QED
    BY <2>1, <2>2, <2>3, FrameMoved, StackAlone
<1>9. ASSUME NEW h, WinSetWindowText(h) \/ WinInvalidateRect(h) \/ WinSetCapture(h) PROVE StackInv'
  BY <1>9, StackQuiet DEF WinSetWindowText, WinInvalidateRect, WinSetCapture
<1>10. ASSUME PaintControl \/ DrawingCall PROVE StackInv'
  BY <1>10, StackQuiet DEF PaintControl, DrawingCall, GpiBox, GpiLine, GpiCharStringAt, GpiCharString,
     GpiErase, GpiFullArc, WinFillRect, WinEndPaint, WinUpdateWindow, Draw, Present, wmVars
<1>11. QED
  BY <1>2, <1>3, <1>4, <1>5, <1>6, <1>7, <1>8, <1>9, <1>10 DEF WindowCall

LEMMA StackStep ==
  ASSUME StackInv, [DesktopNext]_deskVars
  PROVE  StackInv'
<1>1. CASE UNCHANGED deskVars
  BY <1>1, StackQuiet DEF deskVars, wmVars
<1>2. CASE GuestStep
  <2>1. CASE DosExit \/ \E t \in Threads : WinMessageBox(t) \/ BoxDropped(t)
    BY <2>1, StackQuiet DEF DosExit, WinMessageBox, BoxDropped, wmVars
  <2>2. QED
    BY <1>2, <2>1, StackCalls DEF GuestStep
<1>3. CASE MainThread
  <2>1. CASE handle_message
    BY <2>1, StackQuiet DEF handle_message, BufferMessage, PresentBuffer, ShowMessageBox, wmVars
  <2>2. CASE FinishPicture \/ poll_events \/ Tick \/ EndRound
    BY <2>2, StackQuiet DEF FinishPicture, poll_events, Tick, EndRound, wmVars
  <2>3. QED
    BY <1>3, <2>1, <2>2 DEF MainThread
<1>4. CASE UserEvent
  <2>1. CASE QuitEvent \/ DragMotion \/ MouseButtonUp \/ ExposedEvent
    BY <2>1, StackQuiet DEF QuitEvent, DragMotion, MouseButtonUp, ExposedEvent, wmVars
  <2>2. ASSUME NEW h \in Hwnds, NEW grabs \in BOOLEAN, MouseButtonDown(h, grabs) PROVE StackInv'
    <3> DEFINE f == client_to_frame(h)
    <3>1. /\ UNCHANGED <<windows, frame_to_client>>
          /\ \/ f \in Frames /\ focused_hwnd' = f /\ z_push_top(f)
             \/ UNCHANGED <<focused_hwnd, z_order>>
      BY <2>2 DEF MouseButtonDown
    <3>2. ClassesKept
      BY <3>1 DEF ClassesKept, StackInv
    <3> HIDE DEF f
    <3>3. QED
      BY <3>1, <3>2, FrameMoved, StackQuiet
  <2>3. QED
    BY <1>4, <2>1, <2>2 DEF UserEvent
<1>5. QED
  BY <1>1, <1>2, <1>3, <1>4 DEF DesktopNext

\* The stack holds each of its windows once and every frame that is not
\* destroyed, and nothing else but dialogs, and the active window is on it,
\* through any calls of the guest and events of the user (z_order, focused_hwnd
\* and frame_to_client of pm_types.rs).
THEOREM StackSafe == DesktopSpec => []StackMatches
<1>1. DesktopInit => StackInv
  <2> SUFFICES ASSUME DesktopInit PROVE StackInv
    OBVIOUS
  <2>1. windows = <<>> /\ z_order = <<>> /\ frame_to_client = <<>> /\ focused_hwnd = 0
    BY DEF DesktopInit, WindowManagerInit
  <2>2. Frames = {} /\ Len(z_order) = 0 /\ On(z_order) = {}
    BY <2>1 DEF Frames, On
  <2>3. windows \in Seq(WindowRecord) /\ z_order \in Seq(1 .. Len(windows)) /\ Once(z_order)
    BY <2>1 DEF Once
  <2>4. QED
    BY <2>1, <2>2, <2>3 DEF StackInv
<1>2. StackInv => StackMatches
  <2> SUFFICES ASSUME StackInv PROVE StackMatches
    OBVIOUS
  <2>1. DOMAIN z_order = 1 .. Len(z_order)
    BY LenProperties DEF StackInv
  <2>2. Stacked = On(z_order)
    BY <2>1 DEF Stacked, Range, On
  <2>3. QED
    BY <2>1, <2>2 DEF StackInv, StackMatches, Once
<1>3. StackInv /\ [DesktopNext]_deskVars => StackInv'
  BY StackStep
<1>4. QED
  BY <1>1, <1>2, <1>3, PTL DEF DesktopSpec

-----------------------------------------------------------------------------
(* The marks.                                                              *)

\* The inductive invariant: what changes while a picture is being drawn is late,
\* so no mark that is cleared at the end was the only sign of a change.
MarkInv ==
  /\ MarkedUntilShown
  /\ Drawing => changed # "yes"

\* A step that changes nothing of what a composite reads.
LEMMA PictureKept ==
  ASSUME UNCHANGED <<windows, z_order, focused_hwnd>>
  PROVE  Picture' = Picture
BY DEF Picture, Visible, Covered

\* A call or event that looks whether the picture changes, and marks if it does
\* and something is left to show.
LEMMA Watched ==
  ASSUME MarkInv, Watch, pc' = pc,
         (dirty' = TRUE) \/ Picture' = {} \/ UNCHANGED <<windows, z_order, focused_hwnd, dirty>>
  PROVE  MarkInv'
<1>1. Drawing' <=> Drawing
  BY DEF Drawing
<1>2. Drawing' => changed' # "yes"
  BY <1>1 DEF MarkInv, Watch
<1>3. MarkedUntilShown'
  <2>1. CASE dirty' = TRUE
    BY <2>1 DEF MarkedUntilShown
  <2>2. CASE Picture' = {}
    BY <2>2 DEF MarkedUntilShown
  <2>3. CASE UNCHANGED <<windows, z_order, focused_hwnd, dirty>>
    <3>1. Picture' = Picture
      BY <2>3, PictureKept
    <3>2. changed' = changed
      BY <3>1 DEF Watch
    <3>3. QED
      BY <2>3, <3>1, <3>2 DEF MarkInv, MarkedUntilShown
  <2>4. QED
    BY <2>1, <2>2, <2>3
<1>4. QED
  BY <1>2, <1>3 DEF MarkInv

\* A new order marks the windows, if there are any.
LEMMA RestackMarks ==
  ASSUME NEW z, Restacked(z)
  PROVE  (dirty' = TRUE) \/ Picture' = {}
<1>1. CASE z # <<>>
  BY <1>1 DEF Restacked, mark_all_dirty
<1>2. CASE z = <<>>
  <2>1. z_order' = <<>> /\ DOMAIN z_order' = {}
    BY <1>2 DEF Restacked
  <2>2. QED
    BY <2>1 DEF Picture, Visible
<1>3. QED
  BY <1>1, <1>2

\* Every call on the stack gives it a new order.
LEMMA StackCallMarks ==
  ASSUME NEW h, z_push_top(h) \/ SWP_ZORDER(h) \/ z_remove(h)
  PROVE  (dirty' = TRUE) \/ Picture' = {}
<1>1. ASSUME NEW b, z_insert_behind(h, b) PROVE (dirty' = TRUE) \/ Picture' = {}
  BY <1>1, RestackMarks DEF z_insert_behind
<1>2. QED
  BY <1>1, RestackMarks DEF SWP_ZORDER, z_push_top, z_push_bottom, z_remove

LEMMA MarkCalls ==
  ASSUME MarkInv, WindowCall
  PROVE  MarkInv'
<1>1. ASSUME NEW msgs, Sends(msgs) PROVE Watch /\ pc' = pc
  BY <1>1 DEF Sends
<1>2. ASSUME NEW visible, WinCreateStdWindow(visible) PROVE MarkInv'
  <2>1. z_push_top(Len(windows) + 1) /\ Watch /\ pc' = pc
    BY <1>1, <1>2 DEF WinCreateStdWindow
  <2>2. QED
    BY <2>1, StackCallMarks, Watched
<1>3. ASSUME create_dialog_from_template PROVE MarkInv'
  <2>1. z_push_top(Len(windows) + 1) /\ Watch /\ pc' = pc
    BY <1>1, <1>3 DEF create_dialog_from_template
  <2>2. QED
    BY <2>1, StackCallMarks, Watched
<1>4. ASSUME NEW h, DismissedDialogReturns(h) \/ WinDestroyWindow(h) PROVE MarkInv'
  <2>1. z_remove(h) /\ Watch /\ pc' = pc
    BY <1>1, <1>4 DEF DismissedDialogReturns, WinDestroyWindow
  <2>2. QED
    BY <2>1, StackCallMarks, Watched
<1>5. ASSUME NEW h, WinSetActiveWindow(h) PROVE MarkInv'
  <2>1. z_push_top(client_to_frame(h)) /\ Watch /\ pc' = pc
    BY <1>1, <1>5 DEF WinSetActiveWindow
  <2>2. QED
    BY <2>1, StackCallMarks, Watched
<1>6. ASSUME NEW h, \/ \E show \in BOOLEAN : WinShowWindow(h, show)
                    \/ WinSetWindowText(h) \/ WinInvalidateRect(h)
      PROVE  MarkInv'
  <2>1. (dirty' = TRUE) /\ Watch /\ pc' = pc
    BY <1>1, <1>6 DEF WinShowWindow, WinSetWindowText, WinInvalidateRect, mark_dirty
  <2>2. QED
    BY <2>1, Watched
<1>7. ASSUME NEW h, NEW fl, WinSetWindowPos(h, fl) PROVE MarkInv'
  <2>1. Watch /\ pc' = pc
    BY <1>1, <1>7 DEF WinSetWindowPos
  <2>2. SWP_ZORDER(h) \/ z_push_top(h) \/ (dirty' = TRUE)
    BY <1>7 DEF WinSetWindowPos, mark_dirty
  <2>3. QED
    BY <2>1, <2>2, StackCallMarks, Watched
<1>8. ASSUME NEW h, WinSetCapture(h) PROVE MarkInv'
  <2>1. UNCHANGED <<windows, z_order, focused_hwnd, dirty>> /\ Watch /\ pc' = pc
    BY <1>1, <1>8 DEF WinSetCapture
  <2>2. QED
    BY <2>1, Watched
<1>9. ASSUME PaintControl \/ DrawingCall PROVE MarkInv'
  <2>1. UNCHANGED <<windows, z_order, focused_hwnd, dirty>> /\ Watch /\ pc' = pc
    BY <1>1, <1>9 DEF PaintControl, DrawingCall, GpiBox, GpiLine, GpiCharStringAt, GpiCharString,
       GpiErase, GpiFullArc, WinFillRect, WinEndPaint, WinUpdateWindow, Draw, Present, wmVars
  <2>2. QED
    BY <2>1, Watched
<1>10. QED
  BY <1>2, <1>3, <1>4, <1>5, <1>6, <1>7, <1>8, <1>9 DEF WindowCall

\* The main thread and other steps that leave windows, stack, focus and marks
\* alone: no picture is begun without starting over.
LEMMA MarksAlone ==
  ASSUME MarkInv, UNCHANGED <<windows, z_order, focused_hwnd, dirty>>,
         \/ changed' = "no"
         \/ changed' = changed /\ (pc' = pc \/ pc' \in {"drain", "poll", "polled", "closed"})
  PROVE  MarkInv'
<1>1. Picture' = Picture
  BY PictureKept
<1>2. CASE changed' = "no"
  BY <1>2 DEF MarkInv, MarkedUntilShown
<1>3. CASE changed' = changed /\ (pc' = pc \/ pc' \in {"drain", "poll", "polled", "closed"})
  <2>1. Drawing' => Drawing
    BY <1>3 DEF Drawing
  <2>2. QED
    BY <1>1, <1>3, <2>1 DEF MarkInv, MarkedUntilShown
<1>4. QED
  BY <1>2, <1>3

LEMMA MarkStep ==
  ASSUME MarkInv, [DesktopNext]_deskVars
  PROVE  MarkInv'
<1>1. CASE UNCHANGED deskVars
  BY <1>1, MarksAlone DEF deskVars, wmVars, guiVars
<1>2. CASE GuestStep
  <2>1. CASE DosExit \/ \E t \in Threads : WinMessageBox(t) \/ BoxDropped(t)
    BY <2>1, MarksAlone DEF DosExit, WinMessageBox, BoxDropped, wmVars, guiVars
  <2>2. QED
    BY <1>2, <2>1, MarkCalls DEF GuestStep
<1>3. CASE MainThread
  <2>1. CASE FinishPicture
    <3>1. Drawing /\ pc' \in {"drain", "poll", "polled"} /\ changed' = changed
      BY <2>1 DEF FinishPicture, Drawing
    <3>2. ~Drawing' /\ changed' # "yes"
      BY <3>1 DEF MarkInv, Drawing
    <3>3. QED
      BY <3>2 DEF MarkInv, MarkedUntilShown
  <2>2. ASSUME NEW m, BufferMessage(m) \/ ShowMessageBox(m) PROVE MarkInv'
    BY <2>2, MarksAlone DEF BufferMessage, ShowMessageBox, wmVars
  <2>3. ASSUME NEW m, PresentBuffer(m) PROVE MarkInv'
    <3>1. changed' = "no"
      BY <2>3 DEF PresentBuffer, Composite
    <3>2. QED
      BY <3>1 DEF MarkInv, MarkedUntilShown
  <2>4. CASE poll_events \/ Tick \/ EndRound
    <3>1. UNCHANGED <<windows, z_order, focused_hwnd, dirty>>
      BY <2>4 DEF poll_events, Tick, EndRound, wmVars
    <3>2. changed' = "no" \/ (changed' = changed /\ pc' \in {"drain", "poll", "polled", "closed"})
      BY <2>4 DEF poll_events, Tick, EndRound, Composite, Leave
    <3>3. QED
      BY <3>1, <3>2, MarksAlone
  <2>5. QED
    BY <1>3, <2>1, <2>2, <2>3, <2>4 DEF MainThread, handle_message
<1>4. CASE UserEvent
  <2>1. CASE QuitEvent \/ MouseButtonUp \/ ExposedEvent
    <3>1. UNCHANGED <<windows, z_order, focused_hwnd, dirty>>
      BY <2>1 DEF QuitEvent, MouseButtonUp, ExposedEvent, wmVars
    <3>2. changed' = "no" \/ (changed' = changed /\ pc' \in {"drain", "poll", "polled", "closed"})
      BY <2>1 DEF QuitEvent, MouseButtonUp, ExposedEvent, Composite, Leave
    <3>3. QED
      BY <3>1, <3>2, MarksAlone
  <2>2. CASE DragMotion
    <3>1. (dirty' = TRUE) /\ changed' = changed /\ pc' = pc
      BY <2>2 DEF DragMotion, mark_dirty
    <3>2. Drawing' <=> Drawing
      BY <3>1 DEF Drawing
    <3>3. QED
      BY <3>1, <3>2 DEF MarkInv, MarkedUntilShown
  <2>3. ASSUME NEW h \in Hwnds, NEW grabs \in BOOLEAN, MouseButtonDown(h, grabs) PROVE MarkInv'
    <3>1. /\ Watch /\ pc' = pc
          /\ z_push_top(client_to_frame(h)) \/ UNCHANGED <<windows, z_order, focused_hwnd, dirty>>
      BY <2>3 DEF MouseButtonDown
    <3>2. QED
      BY <3>1, StackCallMarks, Watched
  <2>4. QED
    BY <1>4, <2>1, <2>2, <2>3 DEF UserEvent
<1>5. QED
  BY <1>1, <1>2, <1>3, <1>4 DEF DesktopNext

\* A change that leaves something to show keeps a mark until a picture has it,
\* changes made while the main thread draws apart (dirty of pm_types.rs and
\* composite_and_present of sdl2_renderer.rs).
THEOREM MarksSafe == DesktopSpec => []MarkedUntilShown
<1>1. DesktopInit => MarkInv
  BY DEF DesktopInit, MarkInv, MarkedUntilShown, Drawing
<1>2. MarkInv => MarkedUntilShown
  BY DEF MarkInv
<1>3. MarkInv /\ [DesktopNext]_deskVars => MarkInv'
  BY MarkStep
<1>4. QED
  BY <1>1, <1>2, <1>3, PTL DEF DesktopSpec

=============================================================================
