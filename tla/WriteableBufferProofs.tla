------------------------ MODULE WriteableBufferProofs ------------------------
(***************************************************************************)
(* Theorems about WriteableBuffer, for every length of the track.          *)
(***************************************************************************)
EXTENDS WriteableBuffer, WellFoundedInduction, NaturalsInduction, SequenceTheorems, TLAPS

-----------------------------------------------------------------------------
(* Arithmetic and sequence facts.                                           *)

\* A non-empty set of naturals has a least element.
LEMMA LeastNat ==
    ASSUME NEW T, T \subseteq Nat, T # {}
    PROVE  \E x \in T : \A y \in T : x <= y
<1>1. IsWellFoundedOn(OpToRel(<, Nat), Nat)
  BY NatLessThanWellFounded
<1>2. PICK x \in T : \A y \in T : ~(<<y, x>> \in OpToRel(<, Nat))
  BY <1>1, WFMin, Zenon
<1>3. \A y \in T : ~(y < x)
  BY <1>2 DEF OpToRel
<1> QED
  BY <1>3

\* InsertAt, element by element: occupy puts the right part of a run in place.
LEMMA InsertAtElements ==
    ASSUME NEW S, NEW s \in Seq(S), NEW k \in 1 .. Len(s) + 1, NEW e \in S
    PROVE  /\ InsertAt(s, k, e) \in Seq(S)
           /\ Len(InsertAt(s, k, e)) = Len(s) + 1
           /\ \A j \in 1 .. k - 1 : InsertAt(s, k, e)[j] = s[j]
           /\ InsertAt(s, k, e)[k] = e
           /\ \A j \in k + 1 .. Len(s) + 1 : InsertAt(s, k, e)[j] = s[j - 1]
<1> DEFINE a == SubSeq(s, 1, k - 1)
           b == SubSeq(s, k, Len(s))
<1>1. a \in Seq(S) /\ Len(a) = k - 1 /\ \A j \in 1 .. k - 1 : a[j] = s[j]
  BY SubSeqProperties
<1>2. b \in Seq(S) /\ Len(b) = Len(s) - k + 1 /\ \A j \in 1 .. Len(s) - k + 1 : b[j] = s[j + k - 1]
  BY SubSeqProperties
<1>3. <<e>> \in Seq(S) /\ Len(<<e>>) = 1 /\ <<e>>[1] = e
  OBVIOUS
<1> DEFINE c == a \o <<e>>
<1>4. c \in Seq(S) /\ Len(c) = k /\ (\A j \in 1 .. k - 1 : c[j] = s[j]) /\ c[k] = e
  BY <1>1, <1>3, ConcatProperties
<1>5. InsertAt(s, k, e) = c \o b
  BY DEF InsertAt
<1> HIDE DEF a, b, c
<1>6. c \o b \in Seq(S) /\ Len(c \o b) = Len(s) + 1
       /\ \A j \in 1 .. Len(s) + 1 : (c \o b)[j] = IF j <= k THEN c[j] ELSE b[j - k]
  BY <1>2, <1>4, ConcatProperties
<1> QED
  BY <1>2, <1>4, <1>5, <1>6

\* RemoveAt, element by element: occupy takes a run that is filled away.
LEMMA RemoveAtElements ==
    ASSUME NEW S, NEW s \in Seq(S), NEW k \in 1 .. Len(s)
    PROVE  /\ RemoveAt(s, k) \in Seq(S)
           /\ Len(RemoveAt(s, k)) = Len(s) - 1
           /\ \A j \in 1 .. k - 1 : RemoveAt(s, k)[j] = s[j]
           /\ \A j \in k .. Len(s) - 1 : RemoveAt(s, k)[j] = s[j + 1]
<1> DEFINE a == SubSeq(s, 1, k - 1)
           b == SubSeq(s, k + 1, Len(s))
<1>1. a \in Seq(S) /\ Len(a) = k - 1 /\ \A j \in 1 .. k - 1 : a[j] = s[j]
  BY SubSeqProperties
<1>2. b \in Seq(S) /\ Len(b) = Len(s) - k /\ \A j \in 1 .. Len(s) - k : b[j] = s[j + k]
  BY SubSeqProperties
<1>3. RemoveAt(s, k) = a \o b
  BY DEF RemoveAt
<1> HIDE DEF a, b
<1>4. /\ a \o b \in Seq(S)
      /\ Len(a \o b) = Len(a) + Len(b)
      /\ \A j \in 1 .. Len(a) + Len(b) :
            (a \o b)[j] = IF j <= Len(a) THEN a[j] ELSE b[j - Len(a)]
  BY <1>1, <1>2, ConcatProperties
<1>5. Len(s) \in Nat /\ Len(a \o b) = Len(s) - 1
  BY <1>1, <1>2, <1>4
<1>6. \A j \in 1 .. k - 1 : (a \o b)[j] = s[j]
  BY <1>1, <1>2, <1>4, <1>5
<1>7. \A j \in k .. Len(s) - 1 : (a \o b)[j] = s[j + 1]
  <2> TAKE j \in k .. Len(s) - 1
  <2>1. (a \o b)[j] = b[j - (k - 1)]
    BY <1>1, <1>2, <1>4, <1>5
  <2>2. j - (k - 1) \in 1 .. Len(s) - k /\ j - (k - 1) + k = j + 1
    BY <1>5
  <2> QED
    BY <1>2, <2>1, <2>2
<1> QED
  BY <1>3, <1>4, <1>5, <1>6, <1>7

-----------------------------------------------------------------------------
(* occupy's cut of the runs.                                                *)

\* Cutting a chunk out of the run that holds it leaves ordered, separate runs
\* that cover everything they covered before, except that chunk.
LEMMA CutAreaCorrect ==
    ASSUME NEW s \in Seq(Area), Separated(s), NEW i \in Chunk, Covered(s, i)
    PROVE  /\ CutArea(s, i) \in Seq(Area)
           /\ Separated(CutArea(s, i))
           /\ \A c \in Chunk : Covered(CutArea(s, i), c) <=> (c # i /\ Covered(s, c))
<1> USE FullAssumption DEF Chunk
<1> DEFINE k == CHOOSE j \in DOMAIN s : InArea(s[j], i)
           a == s[k]
           left  == [start |-> a.start, end |-> i]
           right == [start |-> i + 1, end |-> a.end]
<1>1. Len(s) \in Nat /\ DOMAIN s = 1 .. Len(s) /\ \A j \in 1 .. Len(s) : s[j] \in Area
  BY LenProperties, ElementOfSeq
<1>2. k \in 1 .. Len(s) /\ InArea(s[k], i)
  BY <1>1 DEF Covered
<1>3. \A j \in 1 .. Len(s) : s[j].start \in Int /\ s[j].end \in Int
  BY <1>1 DEF Area
<1>4. \A j \in 1 .. Len(s) : s[j].start < s[j].end
  BY <1>1 DEF Separated
<1>5. \A j, l \in 1 .. Len(s) : j < l => s[j].end < s[l].start
  BY <1>1 DEF Separated
<1>6. a.start <= i /\ i < a.end
  BY <1>2 DEF InArea
<1>7. CutArea(s, i) =
        IF a.start = i
        THEN IF a.end = i + 1 THEN RemoveAt(s, k) ELSE [s EXCEPT ![k] = right]
        ELSE IF a.end = i + 1
             THEN [s EXCEPT ![k] = left]
             ELSE InsertAt([s EXCEPT ![k] = left], k + 1, right)
  BY DEF CutArea
<1>8. a \in Area
  BY <1>1, <1>2
<1> HIDE DEF k
<1>14. ASSUME NEW j \in 1 .. Len(s), NEW c \in Chunk, j # k, InArea(s[j], c)
       PROVE  c # i
  <2>1. s[j].start <= c /\ c < s[j].end
    BY <1>14 DEF InArea
  <2>2. s[j].start \in Int /\ s[j].end \in Int /\ s[k].start \in Int /\ s[k].end \in Int
    BY <1>2, <1>3
  <2>3. j < k \/ k < j
    BY <1>1, <1>2, <1>14
  <2>4. s[j].end < s[k].start \/ s[k].end < s[j].start
    BY <1>2, <1>5, <2>3
  <2> QED
    BY <1>6, <2>1, <2>2, <2>4
<1>9. CASE a.start = i /\ a.end = i + 1
  <2> DEFINE t == RemoveAt(s, k)
  <2>1. /\ t \in Seq(Area)
        /\ Len(t) = Len(s) - 1
        /\ \A j \in 1 .. k - 1 : t[j] = s[j]
        /\ \A j \in k .. Len(s) - 1 : t[j] = s[j + 1]
    BY <1>2, RemoveAtElements
  <2>2. CutArea(s, i) = t
    BY <1>7, <1>9
  <2> HIDE DEF t
  <2>3. DOMAIN t = 1 .. Len(s) - 1
    BY <2>1, LenProperties
  <2>4. Separated(t)
    <3> DEFINE o(j) == IF j < k THEN j ELSE j + 1
    <3>1. ASSUME NEW j \in 1 .. Len(s) - 1
          PROVE  o(j) \in 1 .. Len(s) /\ t[j] = s[o(j)]
      BY <1>1, <1>2, <2>1
    <3>2. ASSUME NEW j \in 1 .. Len(s) - 1, NEW l \in 1 .. Len(s) - 1, j < l
          PROVE  o(j) < o(l)
      BY <1>1, <1>2, <3>2
    <3> HIDE DEF o
    <3>3. \A j \in 1 .. Len(s) - 1 : t[j].start < t[j].end
      BY <1>4, <3>1
    <3>4. \A j, l \in 1 .. Len(s) - 1 : j < l => t[j].end < t[l].start
      BY <1>5, <3>1, <3>2
    <3> QED
      BY <2>3, <3>3, <3>4 DEF Separated
  <2>5. ASSUME NEW c \in Chunk, Covered(t, c)
        PROVE  c # i /\ Covered(s, c)
    <3>1. PICK j \in 1 .. Len(s) - 1 : InArea(t[j], c)
      BY <2>3, <2>5 DEF Covered
    <3>2. PICK l \in 1 .. Len(s) : l # k /\ InArea(s[l], c)
      <4>1. CASE j < k
        BY <1>1, <1>2, <2>1, <3>1, <4>1
      <4>2. CASE j >= k
        <5>1. j + 1 \in 1 .. Len(s) /\ j + 1 # k /\ t[j] = s[j + 1]
          BY <1>1, <1>2, <2>1, <4>2
        <5> QED
          BY <3>1, <5>1
      <4> QED
        BY <1>1, <1>2, <4>1, <4>2
    <3> QED
      BY <1>1, <1>14, <3>2 DEF Covered
  <2>6. ASSUME NEW c \in Chunk, c # i, Covered(s, c)
        PROVE  Covered(t, c)
    <3>1. PICK j \in 1 .. Len(s) : InArea(s[j], c)
      BY <1>1, <2>6 DEF Covered
    <3>2. j # k
      BY <1>2, <1>3, <1>9, <2>6, <3>1 DEF InArea
    <3>3. CASE j < k
      <4>1. j \in 1 .. Len(s) - 1 /\ j \in 1 .. k - 1
        BY <1>1, <1>2, <3>3
      <4>2. t[j] = s[j]
        BY <2>1, <4>1
      <4> QED
        BY <2>3, <3>1, <4>1, <4>2 DEF Covered
    <3>4. CASE j > k
      <4>1. j - 1 \in k .. Len(s) - 1 /\ t[j - 1] = s[j]
        BY <1>1, <1>2, <2>1, <3>4
      <4> QED
        BY <1>1, <1>2, <2>3, <3>1, <4>1 DEF Covered
    <3> QED
      BY <1>2, <3>2, <3>3, <3>4
  <2> QED
    BY <2>1, <2>2, <2>4, <2>5, <2>6
<1>10. ASSUME NEW b \in Area, b.start < b.end, a.start <= b.start, b.end <= a.end,
              \A c \in Chunk : InArea(b, c) <=> (c # i /\ InArea(a, c)),
              CutArea(s, i) = [s EXCEPT ![k] = b]
       PROVE  /\ CutArea(s, i) \in Seq(Area)
              /\ Separated(CutArea(s, i))
              /\ \A c \in Chunk : Covered(CutArea(s, i), c) <=> (c # i /\ Covered(s, c))
  <2> DEFINE t == [s EXCEPT ![k] = b]
  <2>1. t \in Seq(Area) /\ Len(t) = Len(s) /\ DOMAIN t = 1 .. Len(s)
    BY <1>1, <1>2, ExceptSeq, LenProperties
  <2>2. t[k] = b /\ \A j \in 1 .. Len(s) : j # k => t[j] = s[j]
    BY <1>1, <1>2
  <2> HIDE DEF t
  <2>3. b.start \in Int /\ b.end \in Int
    BY DEF Area
  <2>4. Separated(t)
    <3>1. \A j \in 1 .. Len(s) : /\ s[j].start <= t[j].start
                                 /\ t[j].end <= s[j].end
                                 /\ t[j].start < t[j].end
                                 /\ t[j].start \in Int /\ t[j].end \in Int
      BY <1>3, <1>4, <1>10, <2>2, <2>3
    <3>2. \A j, l \in 1 .. Len(s) : j < l => t[j].end < t[l].start
      <4> TAKE j, l \in 1 .. Len(s)
      <4> HAVE j < l
      <4>1. s[j].end < s[l].start
        BY <1>5
      <4>2. t[j].end <= s[j].end /\ s[l].start <= t[l].start
        BY <3>1
      <4> QED
        BY <1>3, <3>1, <4>1, <4>2
    <3> QED
      BY <2>1, <3>1, <3>2 DEF Separated
  <2>5. ASSUME NEW c \in Chunk, Covered(t, c)
        PROVE  c # i /\ Covered(s, c)
    <3>1. PICK j \in 1 .. Len(s) : InArea(t[j], c)
      BY <2>1, <2>5 DEF Covered
    <3>2. CASE j = k
      BY <1>1, <1>2, <1>10, <2>2, <3>1, <3>2 DEF Covered
    <3>3. CASE j # k
      <4>1. InArea(s[j], c)
        BY <2>2, <3>1, <3>3
      <4>2. c # i
        BY <1>14, <3>3, <4>1
      <4> QED
        BY <1>1, <4>1, <4>2 DEF Covered
    <3> QED
      BY <3>2, <3>3
  <2>6. ASSUME NEW c \in Chunk, c # i, Covered(s, c)
        PROVE  Covered(t, c)
    <3>1. PICK j \in 1 .. Len(s) : InArea(s[j], c)
      BY <1>1, <2>6 DEF Covered
    <3> QED
      BY <1>10, <2>1, <2>2, <2>6, <3>1 DEF Covered
  <2> QED
    BY <1>10, <2>1, <2>4, <2>5, <2>6 DEF t
<1>11. CASE a.start = i /\ a.end # i + 1
  <2>1. right \in Area /\ right.start < right.end
    BY <1>1, <1>2, <1>6, <1>8, <1>11 DEF Area
  <2>2. \A c \in Chunk : InArea(right, c) <=> (c # i /\ InArea(a, c))
    BY <1>2, <1>3, <1>6, <1>11 DEF InArea
  <2>3. CutArea(s, i) = [s EXCEPT ![k] = right]
    BY <1>7, <1>11
  <2>4. a.start <= right.start /\ right.end <= a.end
    BY <1>2, <1>3, <1>6, <1>11
  <2> HIDE DEF right
  <2> QED
    BY <1>10, <2>1, <2>2, <2>3, <2>4
<1>12. CASE a.start # i /\ a.end = i + 1
  <2>1. left \in Area /\ left.start < left.end
    BY <1>1, <1>2, <1>6, <1>8, <1>12 DEF Area
  <2>2. \A c \in Chunk : InArea(left, c) <=> (c # i /\ InArea(a, c))
    BY <1>2, <1>3, <1>6, <1>12 DEF InArea
  <2>3. CutArea(s, i) = [s EXCEPT ![k] = left]
    BY <1>7, <1>12
  <2>4. a.start <= left.start /\ left.end <= a.end
    BY <1>2, <1>3, <1>6, <1>12
  <2> HIDE DEF left
  <2> QED
    BY <1>10, <2>1, <2>2, <2>3, <2>4
<1>13. CASE a.start # i /\ a.end # i + 1
  <2> DEFINE u == [s EXCEPT ![k] = left]
             t == InsertAt(u, k + 1, right)
  <2>1. /\ left \in Area /\ left.start < left.end
        /\ right \in Area /\ right.start < right.end
    BY <1>1, <1>2, <1>6, <1>8, <1>13 DEF Area
  <2>2. u \in Seq(Area) /\ Len(u) = Len(s)
    BY <1>1, <1>2, <2>1, ExceptSeq, LenProperties
  <2>3. u[k] = left /\ \A j \in 1 .. Len(s) : j # k => u[j] = s[j]
    BY <1>1, <1>2
  <2>4. k + 1 \in 1 .. Len(u) + 1
    BY <1>1, <1>2, <2>2
  <2> HIDE DEF u
  <2>5. /\ t \in Seq(Area)
        /\ Len(t) = Len(s) + 1
        /\ \A j \in 1 .. k : t[j] = u[j]
        /\ t[k + 1] = right
        /\ \A j \in k + 2 .. Len(s) + 1 : t[j] = u[j - 1]
    <3> HIDE DEF right
    <3> DEFINE n == k + 1
    <3>1. n \in 1 .. Len(u) + 1
      BY <2>4
    <3> HIDE DEF n
    <3>2. /\ InsertAt(u, n, right) \in Seq(Area)
          /\ Len(InsertAt(u, n, right)) = Len(u) + 1
          /\ \A j \in 1 .. n - 1 : InsertAt(u, n, right)[j] = u[j]
          /\ InsertAt(u, n, right)[n] = right
          /\ \A j \in n + 1 .. Len(u) + 1 : InsertAt(u, n, right)[j] = u[j - 1]
      BY <2>1, <2>2, <3>1, InsertAtElements
    <3>3. t = InsertAt(u, n, right)
      BY DEF n
    <3> HIDE DEF t
    <3>4. \A j \in 1 .. (k + 1) - 1 : t[j] = u[j]
      BY <3>2, <3>3 DEF n
    <3>5. \A j \in (k + 1) + 1 .. Len(u) + 1 : t[j] = u[j - 1]
      BY <3>2, <3>3 DEF n
    <3>6. t \in Seq(Area) /\ Len(t) = Len(u) + 1 /\ t[k + 1] = right
      BY <3>2, <3>3 DEF n
    <3>7. (k + 1) - 1 = k /\ (k + 1) + 1 = k + 2
      BY <1>1, <1>2
    <3> QED
      BY <2>2, <3>4, <3>5, <3>6, <3>7
  <2>6. CutArea(s, i) = t
    BY <1>7, <1>13 DEF u
  <2> HIDE DEF t
  <2>7. DOMAIN t = 1 .. Len(s) + 1
    BY <2>5, LenProperties
  <2>8. /\ \A j \in 1 .. k - 1 : t[j] = s[j]
        /\ t[k] = left
        /\ t[k + 1] = right
        /\ \A j \in k + 2 .. Len(s) + 1 : t[j] = s[j - 1]
    <3>1. ASSUME NEW j \in 1 .. k - 1
          PROVE  t[j] = s[j]
      <4>1. j \in 1 .. k /\ j \in 1 .. Len(s) /\ j # k
        BY <1>1, <1>2
      <4> QED
        BY <2>3, <2>5, <4>1
    <3>2. t[k] = left
      <4>1. k \in 1 .. k
        BY <1>1, <1>2
      <4> QED
        BY <2>3, <2>5, <4>1
    <3>3. ASSUME NEW j \in k + 2 .. Len(s) + 1
          PROVE  t[j] = s[j - 1]
      <4>1. j - 1 \in 1 .. Len(s) /\ j - 1 # k
        BY <1>1, <1>2
      <4> QED
        BY <2>3, <2>5, <4>1
    <3> QED
      BY <2>5, <3>1, <3>2, <3>3
  <2>9. Separated(t)
    <3> DEFINE o(j) == IF j <= k THEN j ELSE j - 1
    <3>1. ASSUME NEW j \in 1 .. Len(s) + 1
          PROVE  /\ o(j) \in 1 .. Len(s)
                 /\ s[o(j)].start <= t[j].start
                 /\ t[j].end <= s[o(j)].end
                 /\ t[j].start < t[j].end
                 /\ t[j].start \in Int /\ t[j].end \in Int
      <4>1. o(j) \in 1 .. Len(s)
        BY <1>1, <1>2
      <4>2. CASE j < k \/ j > k + 1
        <5>1. t[j] = s[o(j)]
          BY <1>1, <1>2, <2>8, <4>2
        <5> HIDE DEF o
        <5> QED
          BY <1>3, <1>4, <4>1, <5>1
      <4>3. CASE j = k
        BY <1>1, <1>2, <1>3, <1>6, <2>1, <2>8, <4>3
      <4>4. CASE j = k + 1
        BY <1>1, <1>2, <1>3, <1>6, <2>1, <2>8, <4>4
      <4> QED
        BY <1>1, <1>2, <4>2, <4>3, <4>4
    <3>2. ASSUME NEW j \in 1 .. Len(s) + 1, NEW l \in 1 .. Len(s) + 1, j < l
          PROVE  t[j].end < t[l].start
      <4>1. CASE j = k /\ l = k + 1
        BY <1>2, <1>3, <2>8, <4>1
      <4>2. CASE ~(j = k /\ l = k + 1)
        <5>1. o(j) < o(l)
          BY <1>1, <1>2, <3>2, <4>2
        <5> HIDE DEF o
        <5>2. s[o(j)].end < s[o(l)].start
          BY <1>5, <3>1, <5>1
        <5>3. t[j].end <= s[o(j)].end /\ t[j].end \in Int /\ s[o(j)].end \in Int
          BY <1>3, <3>1
        <5>4. s[o(l)].start <= t[l].start /\ t[l].start \in Int /\ s[o(l)].start \in Int
          BY <1>3, <3>1
        <5> QED
          BY <5>2, <5>3, <5>4
      <4> QED
        BY <4>1, <4>2
    <3> QED
      BY <2>7, <3>1, <3>2 DEF Separated
  <2>10. ASSUME NEW c \in Chunk, Covered(t, c)
         PROVE  c # i /\ Covered(s, c)
    <3>1. PICK j \in 1 .. Len(s) + 1 : InArea(t[j], c)
      BY <2>7, <2>10 DEF Covered
    <3>2. CASE j < k
      <4>1. j \in 1 .. Len(s) /\ j # k /\ InArea(s[j], c)
        BY <1>1, <1>2, <2>8, <3>1, <3>2
      <4> QED
        BY <1>1, <1>14, <4>1 DEF Covered
    <3>3. CASE j = k \/ j = k + 1
      <4>1. InArea(left, c) \/ InArea(right, c)
        BY <2>8, <3>1, <3>3
      <4>2. c # i /\ InArea(a, c)
        BY <1>2, <1>3, <1>6, <4>1 DEF InArea
      <4> QED
        BY <1>1, <1>2, <4>2 DEF Covered
    <3>4. CASE j > k + 1
      <4>1. j - 1 \in 1 .. Len(s) /\ j - 1 > k /\ t[j] = s[j - 1]
        BY <1>1, <1>2, <2>8, <3>4
      <4> QED
        BY <1>1, <1>2, <1>14, <3>1, <4>1 DEF Covered
    <3> QED
      BY <1>2, <3>2, <3>3, <3>4
  <2>11. ASSUME NEW c \in Chunk, c # i, Covered(s, c)
         PROVE  Covered(t, c)
    <3>1. PICK j \in 1 .. Len(s) : InArea(s[j], c)
      BY <1>1, <2>11 DEF Covered
    <3>2. CASE j < k
      BY <1>1, <1>2, <2>7, <2>8, <3>1, <3>2 DEF Covered
    <3>3. CASE j = k
      <4>1. InArea(left, c) \/ InArea(right, c)
        BY <1>2, <1>3, <1>6, <2>11, <3>1, <3>3 DEF InArea
      <4>2. k \in 1 .. Len(s) + 1 /\ k + 1 \in 1 .. Len(s) + 1
        BY <1>1, <1>2
      <4> QED
        BY <2>7, <2>8, <4>1, <4>2 DEF Covered
    <3>4. CASE j > k
      <4>1. j + 1 \in k + 2 .. Len(s) + 1 /\ t[j + 1] = s[j]
        BY <1>1, <1>2, <2>8, <3>4
      <4> QED
        BY <1>1, <1>2, <2>7, <3>1, <4>1 DEF Covered
    <3> QED
      BY <1>2, <3>2, <3>3, <3>4
  <2> QED
    BY <2>5, <2>6, <2>9, <2>10, <2>11
<1> QED
  BY <1>9, <1>11, <1>12, <1>13

-----------------------------------------------------------------------------
(* advance_head's walk.                                                     *)

\* The walk stops at the first missing chunk, or past the last chunk.
LEMMA FirstHoleCorrect ==
    ASSUME NEW m \in [Chunk -> BOOLEAN], NEW i \in Chunk
    PROVE  /\ FirstHole(m, i) \in i .. Full + 1
           /\ FirstHole(m, i) = Full + 1 \/ ~m[FirstHole(m, i)]
           /\ \A k \in i .. FirstHole(m, i) - 1 : m[k]
<1> USE FullAssumption DEF Chunk
<1> DEFINE T == {j \in i .. Full + 1 : j = Full + 1 \/ ~m[j]}
<1>1. T \subseteq Nat /\ Full + 1 \in T
  OBVIOUS
<1>2. PICK x \in T : \A y \in T : x <= y
  <2> HIDE DEF T
  <2> QED
    BY <1>1, LeastNat
<1>3. ASSUME NEW k \in i .. x - 1
      PROVE  m[k]
  <2>1. k \in i .. Full + 1 /\ k < x /\ k # Full + 1
    BY <1>2
  <2>2. k \notin T
    BY <1>2, <2>1
  <2> QED
    BY <2>1, <2>2
<1>4. \E j \in i .. Full + 1 :
         /\ j = Full + 1 \/ ~m[j]
         /\ \A k \in i .. j - 1 : m[k]
  BY <1>2, <1>3
<1> QED
  BY <1>4 DEF FirstHole

\* advance_head never moves back, and rests at the end or on a missing chunk.
LEMMA AdvanceHeadCorrect ==
    ASSUME NEW m \in [Chunk -> BOOLEAN], NEW h \in 0 .. EndHead
    PROVE  /\ AdvanceHead(m, h) \in 0 .. EndHead
           /\ AdvanceHead(m, h) >= h
           /\ HeadAtEnd(AdvanceHead(m, h)) \/ ~m[AdvanceHead(m, h)]
<1> USE FullAssumption, HasTailAssumption DEF Chunk, EndHead
<1> DEFINE c == HeadChunk(h)
           j == FirstHole(m, c)
<1>1. c \in Chunk /\ c <= h /\ (h <= Full => c = h)
  BY DEF HeadChunk
<1>2. j \in c .. Full + 1 /\ (j = Full + 1 \/ ~m[j])
  <2> HIDE DEF c
  <2> QED
    BY <1>1, FirstHoleCorrect
<1>3. AdvanceHead(m, h) = IF j > Full THEN EndHead ELSE IF j = c THEN h ELSE j
  BY DEF AdvanceHead
<1> HIDE DEF c, j
<1>4. CASE j > Full
  BY <1>3, <1>4 DEF HeadAtEnd
<1>5. CASE j <= Full /\ j = c
  BY <1>1, <1>2, <1>3, <1>5 DEF HeadAtEnd
<1>6. CASE j <= Full /\ j # c
  <2>1. AdvanceHead(m, h) = j /\ j \in Chunk /\ ~m[j]
    BY <1>1, <1>2, <1>3, <1>6
  <2>2. h <= Full
    BY <1>1, <1>2, <1>6 DEF HeadChunk, c
  <2> QED
    BY <1>1, <1>2, <1>6, <2>1, <2>2 DEF HeadAtEnd
<1> QED
  BY <1>1, <1>2, <1>4, <1>5, <1>6

-----------------------------------------------------------------------------
(* The invariant and the theorems.                                          *)

\* AreasMirrorMap and AreasSeparated hold each other up: the cut is right only
\* for separate runs that cover exactly the missing chunks.
IInv == TypeOK /\ AreasSeparated /\ AreasMirrorMap /\ HeadAtHole

\* An empty buffer satisfies the invariant.
LEMMA InitIInv == Init => IInv
<1> USE FullAssumption, HasTailAssumption
<1> SUFFICES ASSUME Init PROVE IInv
  OBVIOUS
<1> DEFINE all == [start |-> 0, end |-> Full + 1]
<1>1. areas = <<all>> /\ all \in Area /\ map = [i \in Chunk |-> FALSE] /\ head = 0
  BY DEF Init, Area, Chunk
<1>2. areas \in Seq(Area) /\ DOMAIN areas = 1 .. 1 /\ areas[1] = all
  BY <1>1
<1>3. TypeOK
  BY <1>1, <1>2 DEF TypeOK, EndHead
<1>4. AreasSeparated
  BY <1>2 DEF AreasSeparated, Separated
<1>5. AreasMirrorMap
  <2>1. \A i \in Chunk : InArea(areas[1], i)
    BY <1>2 DEF InArea, Chunk
  <2> QED
    BY <1>1, <1>2, <2>1 DEF AreasMirrorMap, Covered
<1>6. HeadAtHole
  BY <1>1 DEF HeadAtHole, Chunk
<1> QED
  BY <1>3, <1>4, <1>5, <1>6 DEF IInv

\* write keeps the invariant and never takes the head back.
LEMMA WriteStep ==
    ASSUME IInv, NEW i \in Chunk, NEW size \in {"full", "short"}, Write(i, size)
    PROVE  IInv' /\ head' >= head
<1> USE FullAssumption, HasTailAssumption
<1>1. map' = [map EXCEPT ![i] = TRUE] /\ areas' = CutArea(areas, i)
       /\ head' = AdvanceHead(map', head)
  BY DEF Write
<1>2. map \in [Chunk -> BOOLEAN] /\ head \in 0 .. EndHead /\ areas \in Seq(Area)
  BY DEF IInv, TypeOK
<1>3. map' \in [Chunk -> BOOLEAN] /\ \A c \in Chunk : map'[c] = (c = i \/ map[c])
  BY <1>1, <1>2
<1>4. Separated(areas) /\ Covered(areas, i)
  BY DEF IInv, AreasSeparated, AreasMirrorMap, Write
<1>5. /\ areas' \in Seq(Area)
      /\ Separated(areas')
      /\ \A c \in Chunk : Covered(areas', c) <=> (c # i /\ Covered(areas, c))
  BY <1>1, <1>2, <1>4, CutAreaCorrect
<1>6. /\ head' \in 0 .. EndHead
      /\ head' >= head
      /\ HeadAtEnd(head') \/ ~map'[head']
  BY <1>1, <1>2, <1>3, AdvanceHeadCorrect
<1>7. TypeOK'
  BY <1>3, <1>5, <1>6 DEF TypeOK
<1>8. AreasSeparated'
  BY <1>5 DEF AreasSeparated
<1>9. AreasMirrorMap'
  BY <1>3, <1>5 DEF IInv, AreasMirrorMap
<1>10. HeadAtHole'
  BY <1>6 DEF HeadAtHole
<1> QED
  BY <1>6, <1>7, <1>8, <1>9, <1>10 DEF IInv

\* seek_head keeps the invariant and never takes the head back.
LEMMA SeekHeadStep ==
    ASSUME IInv, NEW i \in Chunk, NEW inside \in BOOLEAN, SeekHead(i, inside)
    PROVE  IInv' /\ head' >= head
<1> USE FullAssumption, HasTailAssumption
<1>1. head' = AdvanceHead(map, i) /\ map' = map /\ areas' = areas
  BY DEF SeekHead
<1>2. map \in [Chunk -> BOOLEAN] /\ head \in 0 .. EndHead
  BY DEF IInv, TypeOK
<1>3. i \in 0 .. EndHead /\ i >= head
  BY <1>2 DEF Chunk, EndHead, SeekHead, SeekMoves, PastHead
<1>4. head' \in 0 .. EndHead /\ head' >= i /\ (HeadAtEnd(head') \/ ~map[head'])
  BY <1>1, <1>2, <1>3, AdvanceHeadCorrect
<1>5. TypeOK'
  BY <1>1, <1>4 DEF IInv, TypeOK
<1>6. AreasSeparated' /\ AreasMirrorMap'
  BY <1>1 DEF IInv, AreasSeparated, AreasMirrorMap
<1>7. HeadAtHole'
  BY <1>1, <1>4 DEF HeadAtHole
<1>8. head' >= head
  BY <1>2, <1>3, <1>4 DEF EndHead
<1> QED
  BY <1>5, <1>6, <1>7, <1>8 DEF IInv

\* Every step keeps the invariant; the head never goes back.
LEMMA NextStep == IInv /\ [Next]_vars => IInv' /\ [head' >= head]_vars
<1> SUFFICES ASSUME IInv, [Next]_vars
             PROVE  IInv' /\ [head' >= head]_vars
  OBVIOUS
<1>1. CASE \E i \in Chunk, size \in {"full", "short"} : Write(i, size)
  BY <1>1, WriteStep
<1>2. CASE \E i \in Chunk, inside \in BOOLEAN : SeekHead(i, inside)
  BY <1>2, SeekHeadStep
<1>3. CASE UNCHANGED vars
  BY <1>3 DEF vars, IInv, TypeOK, AreasSeparated, AreasMirrorMap, HeadAtHole
<1> QED
  BY <1>1, <1>2, <1>3 DEF Next

\* The strengthened invariant, for a track of any length.
THEOREM Invariance == Spec => []IInv
<1>1. IInv /\ [Next]_vars => IInv'
  BY NextStep
<1> QED
  BY InitIInv, <1>1, PTL DEF Spec

\* The variables of the buffer keep their types.
THEOREM TypeCorrect == Spec => []TypeOK
BY Invariance, PTL DEF IInv

\* `occupy` keeps the runs non-empty, ordered and apart.
THEOREM AreasStaySeparated == Spec => []AreasSeparated
BY Invariance, PTL DEF IInv

\* `invalid_areas` is exactly the set of missing chunks, after any sequence of
\* writes and seeks.
THEOREM AreasMirrorTheMap == Spec => []AreasMirrorMap
BY Invariance, PTL DEF IInv

\* `advance_head` leaves the head on a missing chunk or at the end.
THEOREM HeadRestsAtHole == Spec => []HeadAtHole
BY Invariance, PTL DEF IInv

\* No write and no seek takes the head back.
THEOREM HeadMonotone == Spec => HeadNeverRetreats
<1>1. IInv /\ [Next]_vars => [head' >= head]_vars
  BY NextStep
<1> QED
  BY Invariance, <1>1, PTL DEF Spec, HeadNeverRetreats

-----------------------------------------------------------------------------
(* The retransmission policy.                                               *)

\* No run follows run k: nothing is subtracted for later runs.
LEMMA ValidPastLastRun ==
    ASSUME NEW s, NEW k, k + 1 .. Len(s) = {}, s[k].end = Full + 1
    PROVE  ValidPast(s, k) = 0
<1> DEFINE Size(j) == s[j].end - s[j].start
           Pick(t) == CHOOSE x \in t : TRUE
           T == k + 1 .. Len(s)
           Sums(f) == f = [t \in SUBSET T |->
                              IF t = {} THEN 0 ELSE Size(Pick(t)) + f[t \ {Pick(t)}]]
<1>1. Sums([t \in SUBSET T |-> 0])
  OBVIOUS
<1>2. Sums(CHOOSE f : Sums(f))
  BY <1>1
<1>3. (CHOOSE f : Sums(f))[T] = 0
  BY <1>2
<1>4. Full + 1 - s[k].end - (CHOOSE f : Sums(f))[T] = 0
  BY <1>3, FullAssumption
<1> QED
  BY <1>4 DEF ValidPast, MapThenSumSet, MapThenFoldSet

\* The fields of a run.
LEMMA RunFields ==
    ASSUME NEW s \in Seq(Area), NEW k \in DOMAIN s
    PROVE  /\ k \in Nat /\ Len(s) \in Nat /\ DOMAIN s = 1 .. Len(s)
           /\ s[k].start \in 0 .. Full /\ s[k].end \in 1 .. Full + 1
<1>1. Len(s) \in Nat /\ DOMAIN s = 1 .. Len(s) /\ \A j \in 1 .. Len(s) : s[j] \in Area
  BY LenProperties, ElementOfSeq
<1> QED
  BY <1>1 DEF Area, Chunk

\* A run whose score passes the threshold has chunks past it that arrived: its
\* confidence is not 0.
LEMMA OverThresholdHasValidPast ==
    ASSUME NEW s \in Seq(Area), NEW k \in DOMAIN s, NEW h \in 0 .. EndHead,
           OverThreshold(Score(s, k, h))
    PROVE  ValidPast(s, k) # 0
<1> USE FullAssumption, HasTailAssumption
<1> SUFFICES ASSUME ValidPast(s, k) = 0 PROVE FALSE
  OBVIOUS
<1>1. s[k].start \in Nat /\ s[k].end \in Nat /\ HeadChunk(h) \in Nat
  BY RunFields DEF HeadChunk, EndHead
<1>2. Urgency(s[k], h)[1] \in Int /\ Urgency(s[k], h)[2] \in Nat \ {0}
  BY <1>1 DEF Urgency, InArea, UrgencyDecayChunks, BeforeHeadSizeDenom
<1>3. ConfidenceLost(s, k)[1] = 0 /\ ConfidenceLost(s, k)[2] = 4
  BY DEF ConfidenceLost, ConfidenceHalfSatChunks
<1>4. Score(s, k, h)[1] = 0 /\ Score(s, k, h)[2] = Urgency(s[k], h)[2] * 4
  BY <1>2, <1>3 DEF Score
<1> QED
  BY <1>2, <1>4 DEF OverThreshold

\* A chunk past the end of a run, if there is one, is in no other run.
LEMMA EndOfRunIsFree ==
    ASSUME NEW s \in Seq(Area), Separated(s), NEW k \in DOMAIN s
    PROVE  ~ Covered(s, s[k].end)
<1> SUFFICES ASSUME NEW j \in DOMAIN s, InArea(s[j], s[k].end) PROVE FALSE
  BY DEF Covered
<1>1. DOMAIN s \subseteq Nat
  BY RunFields
<1>2. \A l \in DOMAIN s : s[l].start \in Int /\ s[l].end \in Int /\ s[l].start < s[l].end
  BY FullAssumption, RunFields DEF Separated
<1> QED
  BY <1>1, <1>2 DEF Separated, InArea

\* The policy asks only for chunks of a run behind which something arrived.
LEMMA PolicyAsksForOvertaken ==
    ASSUME NEW s \in Seq(Area), Separated(s), NEW h \in 0 .. EndHead,
           NEW i \in RequestableChunks(s, h)
    PROVE  i \in Chunk /\ Covered(s, i) /\ \E j \in Chunk : j > i /\ ~ Covered(s, j)
<1> USE FullAssumption DEF Chunk
<1>1. PICK k \in DOMAIN s : i \in Chunk /\ InArea(s[k], i) /\ OverThreshold(Score(s, k, h))
  BY DEF RequestableChunks
<1>2. s[k].end \in 1 .. Full + 1 /\ i < s[k].end
  BY <1>1, RunFields DEF InArea
<1>3. CASE s[k].end <= Full
  BY <1>1, <1>2, <1>3, EndOfRunIsFree DEF Covered
<1>4. CASE s[k].end = Full + 1
  <2>1. k \in Nat /\ Len(s) \in Nat /\ DOMAIN s = 1 .. Len(s)
    BY RunFields
  <2>2. \A j \in k + 1 .. Len(s) : FALSE
    <3> TAKE j \in k + 1 .. Len(s)
    <3>1. j \in DOMAIN s /\ k < j
      BY <2>1
    <3>2. s[j].start \in 0 .. Full /\ s[k].end < s[j].start
      BY <3>1, RunFields DEF Separated
    <3> QED
      BY <1>4, <3>2
  <2>3. ValidPast(s, k) = 0
    BY <1>4, <2>2, ValidPastLastRun
  <2> QED
    BY <1>1, <2>3, OverThresholdHasValidPast
<1> QED
  BY <1>2, <1>3, <1>4

\* `requestable_areas` asks only for missing chunks that a later arrival has
\* overtaken, whatever the map and the head.
THEOREM OnlyOvertakenAreRequested == Spec => []OnlyOvertakenRequested
<1>1. IInv => OnlyOvertakenRequested
  <2> SUFFICES ASSUME IInv, NEW i \in RequestableChunks(areas, head)
               PROVE  ~map[i] /\ \E j \in Chunk : j > i /\ map[j]
    BY DEF OnlyOvertakenRequested
  <2>1. i \in Chunk /\ Covered(areas, i) /\ \E j \in Chunk : j > i /\ ~ Covered(areas, j)
    BY PolicyAsksForOvertaken DEF IInv, TypeOK, AreasSeparated
  <2> QED
    BY <2>1 DEF IInv, TypeOK, AreasMirrorMap
<1> QED
  BY Invariance, <1>1, PTL

=============================================================================
