---------------------------- MODULE SequenceFacts ----------------------------
(***************************************************************************)
(* Facts about sequences as lists that several proofs rest on: connections *)
(* of the server, users shown by the main window.                          *)
(***************************************************************************)
EXTENDS Integers, SequencesExt, SequenceTheorems, FiniteSetTheorems, TLAPS

-----------------------------------------------------------------------------
(* Lists without duplicates *)

\* What is left when the element at place i is taken out.
LEMMA RemoveAtProperties ==
  ASSUME NEW S, NEW s \in Seq(S), NEW i \in 1 .. Len(s)
  PROVE  /\ RemoveAt(s, i) \in Seq(S)
         /\ Len(RemoveAt(s, i)) = Len(s) - 1
         /\ \A j \in 1 .. Len(s) - 1 :
              RemoveAt(s, i)[j] = IF j < i THEN s[j] ELSE s[j + 1]
<1> DEFINE a == SubSeq(s, 1, i - 1)
           b == SubSeq(s, i + 1, Len(s))
<1>1. /\ a \in Seq(S) /\ Len(a) = i - 1
      /\ \A j \in 1 .. i - 1 : a[j] = s[j]
  OBVIOUS
<1>2. /\ b \in Seq(S) /\ Len(b) = Len(s) - i
      /\ \A j \in 1 .. Len(s) - i : b[j] = s[i + j]
  OBVIOUS
<1>3. RemoveAt(s, i) = a \o b
  BY DEF RemoveAt
<1> HIDE DEF a, b
<1>4. /\ a \o b \in Seq(S) /\ Len(a \o b) = Len(s) - 1
      /\ \A j \in 1 .. Len(a) + Len(b) :
           (a \o b)[j] = IF j <= Len(a) THEN a[j] ELSE b[j - Len(a)]
  <2>1. Len(a \o b) = Len(a) + Len(b)
    BY <1>1, <1>2, ConcatProperties
  <2>2. Len(a) + Len(b) = Len(s) - 1
    BY <1>1, <1>2
  <2> QED BY <1>1, <1>2, <2>1, <2>2, ConcatProperties
<1>5. ASSUME NEW j \in 1 .. Len(s) - 1
      PROVE  (a \o b)[j] = IF j < i THEN s[j] ELSE s[j + 1]
  <2>0. j \in Int /\ i \in Int
    OBVIOUS
  <2>1. CASE j < i
    BY <1>1, <1>2, <1>4, <2>1
  <2>2. CASE j >= i
    <3>1. j \in 1 .. Len(a) + Len(b) /\ ~(j <= Len(a)) /\ Len(a) = i - 1
      BY <1>1, <1>2, <2>2
    <3>2. (a \o b)[j] = b[j - (i - 1)]
      BY <1>4, <3>1
    <3>3. j - (i - 1) \in 1 .. Len(s) - i /\ i + (j - (i - 1)) = j + 1
      BY <2>2
    <3>4. b[j - (i - 1)] = s[i + (j - (i - 1))]
      BY <1>2, <3>3
    <3> QED BY <2>2, <3>2, <3>3, <3>4
  <2>3. j < i \/ j >= i
    BY <2>0
  <2> QED BY <2>1, <2>2, <2>3, Zenon
<1> QED BY <1>3, <1>4, <1>5

\* A list with one element taken out, or a new one added, has none twice.
LEMMA InjectiveLists ==
  ASSUME NEW S, NEW s \in Seq(S), IsInjective(s)
  PROVE  /\ \A i \in 1 .. Len(s) : IsInjective(RemoveAt(s, i))
         /\ \A x \in S : x \notin ToSet(s) => IsInjective(Append(s, x))
<1>1. ASSUME NEW i \in 1 .. Len(s) PROVE IsInjective(RemoveAt(s, i))
  <2> DEFINE r == RemoveAt(s, i)
             n == Len(s)
             from(j) == IF j < i THEN j ELSE j + 1
  <2>1. /\ r \in Seq(S) /\ Len(r) = n - 1
        /\ \A j \in 1 .. n - 1 : r[j] = s[from(j)]
    BY RemoveAtProperties
  <2>2. DOMAIN r = 1 .. n - 1 /\ DOMAIN s = 1 .. n /\ n \in Nat /\ i \in 1 .. n
    BY <2>1
  <2> HIDE DEF r, n
  <2>3. ASSUME NEW j \in 1 .. n - 1, NEW k \in 1 .. n - 1, r[j] = r[k]
        PROVE  j = k
    <3>1. s[from(j)] = s[from(k)]
      BY <2>1, <2>3
    <3>2. from(j) \in 1 .. n /\ from(k) \in 1 .. n
      BY <2>2
    <3>3. from(j) = from(k)
      <4> HIDE DEF from
      <4> QED BY <2>2, <3>1, <3>2, Zenon DEF IsInjective
    <3> QED BY <2>2, <3>3
  <2>4. IsInjective(r)
    BY <2>2, <2>3 DEF IsInjective
  <2> QED BY <2>4 DEF r
<1>2. ASSUME NEW x \in S, x \notin ToSet(s) PROVE IsInjective(Append(s, x))
  BY <1>2 DEF IsInjective, ToSet
<1> QED BY <1>1, <1>2

\* The same elements one by one.
LEMMA SetOfList ==
  ASSUME NEW S, NEW s \in Seq(S), NEW x
  PROVE  x \in ToSet(s) <=> \E i \in 1 .. Len(s) : s[i] = x
BY DEF ToSet

-----------------------------------------------------------------------------
(* Counting in queues *)

\* Where the elements of s are in S, and how many are.
Places(s, S) == {i \in DOMAIN s : s[i] \in S}

Hits(s, S) == Cardinality(Places(s, S))

\* No element of B comes after one of A.
NoneAfter(s, A, B) ==
  \A i, j \in DOMAIN s : i < j /\ s[i] \in A => s[j] \notin B

LEMMA HitsCount ==
  ASSUME NEW T, NEW s \in Seq(T), NEW S
  PROVE  /\ IsFiniteSet(Places(s, S))
         /\ Hits(s, S) \in Nat
         /\ Hits(s, S) <= Len(s)
         /\ Hits(s, S) = 0 <=> \A i \in 1 .. Len(s) : s[i] \notin S
<1> DEFINE places == Places(s, S)
<1>1. Len(s) \in Nat /\ DOMAIN s = 1 .. Len(s)
  OBVIOUS
<1>2. /\ IsFiniteSet(1 .. Len(s)) /\ Cardinality(1 .. Len(s)) = Len(s)
      /\ places \in SUBSET (1 .. Len(s))
  <2>1. \A n \in Nat : IsFiniteSet(1 .. n) /\ Cardinality(1 .. n) = n
    BY FS_Interval
  <2>2. places \in SUBSET (1 .. Len(s))
    BY <1>1 DEF Places
  <2> QED BY <1>1, <2>1, <2>2
<1>3. IsFiniteSet(places) /\ Cardinality(places) <= Len(s)
  <2> DEFINE all == 1 .. Len(s)
  <2>1. IsFiniteSet(all) /\ Cardinality(all) = Len(s) /\ places \in SUBSET all
    BY <1>2
  <2> HIDE DEF places, all
  <2> QED BY <2>1, FS_Subset
<1>4. /\ Cardinality(places) \in Nat
      /\ Cardinality(places) = 0 <=> places = {}
  <2> HIDE DEF places
  <2> QED BY <1>3, FS_CardinalityType, FS_EmptySet
<1>5. places = {} <=> \A i \in 1 .. Len(s) : s[i] \notin S
  BY <1>1 DEF Places
<1>6. Hits(s, S) = Cardinality(places)
  BY DEF Hits
<1> HIDE DEF places
<1> QED BY <1>3, <1>4, <1>5, <1>6 DEF places

LEMMA HitsSubset ==
  ASSUME NEW T, NEW s \in Seq(T), NEW X, NEW Y, X \subseteq Y, Hits(s, Y) = 0
  PROVE  Hits(s, X) = 0
<1>1. \A i \in 1 .. Len(s) : s[i] \notin Y
  BY HitsCount
<1>2. \A i \in 1 .. Len(s) : s[i] \notin X
  BY <1>1
<1> QED BY <1>2, HitsCount

\* Where nothing is of A, or nothing of B, nothing of B comes after it.
LEMMA NoneAfterNone ==
  ASSUME NEW T, NEW s \in Seq(T), NEW A, NEW B, Hits(s, A) = 0 \/ Hits(s, B) = 0
  PROVE  NoneAfter(s, A, B)
<1>1. \/ \A i \in 1 .. Len(s) : s[i] \notin A
      \/ \A i \in 1 .. Len(s) : s[i] \notin B
  BY HitsCount
<1> QED BY <1>1 DEF NoneAfter

\* What is in two queues that are joined is in the one or in the other.
LEMMA HitsConcat ==
  ASSUME NEW T, NEW s \in Seq(T), NEW t \in Seq(T), NEW S
  PROVE  Hits(s \o t, S) = Hits(s, S) + Hits(t, S)
<1> DEFINE m == Len(s)
           n == Len(t)
           c == s \o t
           I == Places(s, S)
           J == Places(t, S)
           K == Places(c, S)
           H == K \ I
           f == [j \in J |-> m + j]
<1>1. /\ m \in Nat /\ n \in Nat /\ c \in Seq(T) /\ Len(c) = m + n
      /\ \A i \in 1 .. m + n : c[i] = IF i <= m THEN s[i] ELSE t[i - m]
  BY ConcatProperties, LenProperties
<1>2. IsFiniteSet(I) /\ IsFiniteSet(J) /\ IsFiniteSet(K)
  <2>1. IsFiniteSet(I)
    BY HitsCount
  <2>2. IsFiniteSet(J)
    BY HitsCount
  <2> HIDE DEF c
  <2>3. IsFiniteSet(K)
    BY <1>1, HitsCount
  <2> QED BY <2>1, <2>2, <2>3
<1>3. /\ DOMAIN s = 1 .. m /\ DOMAIN t = 1 .. n /\ DOMAIN c = 1 .. m + n
  <2> HIDE DEF c
  <2> QED BY <1>1
<1> HIDE DEF m, n, c
<1>4. \A i \in 1 .. m : i \in 1 .. m + n /\ c[i] = s[i]
  BY <1>1 DEF m
<1>5. I \subseteq K
  BY <1>3, <1>4 DEF Places
<1>6. ASSUME NEW i
      PROVE  i \in H <=> i \in 1 .. m + n /\ i > m /\ c[i] \in S
  <2>1. i \in H <=> /\ i \in 1 .. m + n /\ c[i] \in S
                   /\ ~(i \in 1 .. m /\ s[i] \in S)
    BY <1>3 DEF Places
  <2>2. i \in 1 .. m + n => (i > m <=> i \notin 1 .. m)
    BY <1>1
  <2> QED BY <1>4, <2>1, <2>2
<1>7. ASSUME NEW j \in J PROVE m + j \in H
  <2>1. j \in 1 .. n /\ t[j] \in S
    BY <1>3 DEF Places
  <2>2. m + j \in 1 .. m + n /\ m + j > m /\ (m + j) - m = j
    BY <1>1, <2>1
  <2>3. c[m + j] = t[(m + j) - m]
    BY <1>1, <2>2 DEF m
  <2> HIDE DEF H
  <2> QED BY <1>6, <2>1, <2>2, <2>3
<1>8. ASSUME NEW i \in H PROVE i - m \in J /\ m + (i - m) = i
  <2>1. i \in 1 .. m + n /\ i > m /\ c[i] \in S
    BY <1>6
  <2>2. i - m \in 1 .. n /\ m + (i - m) = i /\ ~(i <= m)
    BY <1>1, <2>1
  <2>3. c[i] = t[i - m]
    BY <1>1, <2>1, <2>2 DEF m
  <2> HIDE DEF H
  <2> QED BY <1>3, <2>1, <2>2, <2>3 DEF Places
<1>9. f \in Bijection(J, H)
  <2>1. \A j \in J : j \in Nat
    BY <1>3 DEF Places
  <2> HIDE DEF H, J
  <2>2. f \in [J -> H]
    BY <1>7
  <2>3. \A i, j \in J : f[i] = f[j] => i = j
    BY <1>1, <2>1
  <2>4. \A i \in H : i - m \in J /\ f[i - m] = i
    BY <1>8
  <2> HIDE DEF f
  <2>5. f \in Injection(J, H)
    BY <2>2, <2>3 DEF Injection, IsInjective
  <2>6. f \in Surjection(J, H)
    BY <2>2, <2>4 DEF Surjection
  <2> QED BY <2>5, <2>6 DEF Bijection
<1> HIDE DEF f, H, I, J, K
<1>10. Cardinality(H) = Cardinality(J)
  BY <1>2, <1>9, FS_Bijection DEF ExistsBijection
<1>11. Cardinality(H) = Cardinality(K) - Cardinality(I)
  <2>1. K \cap I = I
    BY <1>5
  <2> QED BY <1>2, <2>1, FS_Difference DEF H
<1>12. /\ Cardinality(I) \in Nat /\ Cardinality(J) \in Nat
       /\ Cardinality(K) \in Nat
  BY <1>2, FS_CardinalityType
<1>13. Cardinality(K) = Cardinality(I) + Cardinality(J)
  BY <1>10, <1>11, <1>12
<1> QED BY <1>13 DEF Hits, I, J, K, c

LEMMA HitsOne ==
  ASSUME NEW x, NEW S
  PROVE  Hits(<<x>>, S) = IF x \in S THEN 1 ELSE 0
<1> DEFINE places == Places(<<x>>, S)
<1>1. places = IF x \in S THEN {1} ELSE {}
  BY DEF Places
<1> HIDE DEF places
<1>2. Cardinality(places) = IF x \in S THEN 1 ELSE 0
  BY <1>1, FS_Singleton, FS_EmptySet
<1> QED BY <1>2 DEF Hits, places

LEMMA HitsEmpty ==
  ASSUME NEW S
  PROVE  Hits(<<>>, S) = 0
<1>1. Places(<<>>, S) = {}
  BY DEF Places
<1> QED BY <1>1, FS_EmptySet DEF Hits

\* A queue is its first element and the rest of it.
LEMMA FirstAndRest ==
  ASSUME NEW T, NEW s \in Seq(T), s # <<>>
  PROVE  /\ Head(s) \in T /\ Tail(s) \in Seq(T)
         /\ <<Head(s)>> \in Seq(T) /\ s = <<Head(s)>> \o Tail(s)
<1>1. /\ Head(s) \in T /\ Tail(s) \in Seq(T) /\ Head(s) = s[1]
      /\ Len(Tail(s)) = Len(s) - 1 /\ Len(s) \in Nat /\ Len(s) >= 1
      /\ \A i \in 1 .. Len(s) - 1 : Tail(s)[i] = s[i + 1]
  OBVIOUS
<1> DEFINE h == <<Head(s)>>
           t == Tail(s)
<1>2. h \in Seq(T) /\ Len(h) = 1 /\ h[1] = s[1]
  BY <1>1
<1>0. t \in Seq(T) /\ Len(t) \in Nat
  BY <1>1
<1> HIDE DEF h, t
<1>3. /\ h \o t \in Seq(T) /\ Len(h \o t) = 1 + Len(t)
      /\ \A i \in 1 .. 1 + Len(t) :
           (h \o t)[i] = IF i <= 1 THEN h[i] ELSE t[i - 1]
  <2>1. /\ h \o t \in Seq(T) /\ Len(h \o t) = Len(h) + Len(t)
        /\ \A i \in 1 .. Len(h) + Len(t) :
             (h \o t)[i] = IF i <= Len(h) THEN h[i] ELSE t[i - Len(h)]
    BY <1>0, <1>2, ConcatProperties
  <2> QED BY <1>0, <1>2, <2>1
<1>4. ASSUME NEW i \in 1 .. Len(s) PROVE (h \o t)[i] = s[i]
  <2>1. i \in 1 .. 1 + Len(t)
    BY <1>1 DEF t
  <2>2. CASE i = 1
    BY <1>2, <1>3, <2>1, <2>2
  <2>3. CASE i # 1
    <3>1. i - 1 \in 1 .. Len(s) - 1 /\ (i - 1) + 1 = i /\ ~(i <= 1)
      BY <1>1, <2>3
    <3>2. t[i - 1] = s[i]
      BY <1>1, <3>1 DEF t
    <3> QED BY <1>3, <2>1, <3>1, <3>2
  <2> QED BY <2>2, <2>3
<1>5. Len(h \o t) = Len(s)
  BY <1>1, <1>3 DEF t
<1>6. h \o t = s
  BY <1>3, <1>4, <1>5, SeqEqual
<1> QED BY <1>1, <1>2, <1>6 DEF h, t

\* An element is added behind the others, or the first one is taken out.
LEMMA HitsQueue ==
  ASSUME NEW T, NEW s \in Seq(T), NEW S
  PROVE  /\ \A x \in T : Hits(Append(s, x), S)
                         = Hits(s, S) + (IF x \in S THEN 1 ELSE 0)
         /\ s # <<>> => Hits(s, S)
                         = Hits(Tail(s), S) + (IF Head(s) \in S THEN 1 ELSE 0)
<1>1. ASSUME NEW x \in T
      PROVE  Hits(Append(s, x), S) = Hits(s, S) + (IF x \in S THEN 1 ELSE 0)
  <2>1. Append(s, x) = s \o <<x>> /\ <<x>> \in Seq(T)
    BY AppendIsConcat
  <2>2. Hits(s \o <<x>>, S) = Hits(s, S) + Hits(<<x>>, S)
    BY <2>1, HitsConcat
  <2> QED BY <2>1, <2>2, HitsOne
<1>2. ASSUME s # <<>>
      PROVE  Hits(s, S)
               = Hits(Tail(s), S) + (IF Head(s) \in S THEN 1 ELSE 0)
  <2> DEFINE h == <<Head(s)>>
             t == Tail(s)
  <2>1. h \in Seq(T) /\ t \in Seq(T) /\ s = h \o t
    BY <1>2, FirstAndRest
  <2>2. Hits(h, S) = IF Head(s) \in S THEN 1 ELSE 0
    BY HitsOne
  <2>3. Hits(h, S) \in Nat /\ Hits(t, S) \in Nat
    <3> HIDE DEF h, t
    <3> QED BY <2>1, HitsCount
  <2> HIDE DEF h, t
  <2>4. Hits(s, S) = Hits(h, S) + Hits(t, S)
    BY <2>1, HitsConcat
  <2> QED BY <2>2, <2>3, <2>4 DEF t
<1> QED BY <1>1, <1>2

\* Queues that are joined: nothing of A in the first, or of B in the second.
LEMMA NoneAfterConcat ==
  ASSUME NEW T, NEW s \in Seq(T), NEW t \in Seq(T), NEW A, NEW B,
         NoneAfter(s, A, B), NoneAfter(t, A, B),
         Hits(s, A) = 0 \/ Hits(t, B) = 0
  PROVE  NoneAfter(s \o t, A, B)
<1> DEFINE m == Len(s)
           n == Len(t)
           c == s \o t
<1>1. /\ m \in Nat /\ n \in Nat /\ c \in Seq(T) /\ Len(c) = m + n
      /\ \A i \in 1 .. m + n : c[i] = IF i <= m THEN s[i] ELSE t[i - m]
  BY ConcatProperties, LenProperties
<1>2. \/ \A i \in 1 .. m : s[i] \notin A
      \/ \A i \in 1 .. n : t[i] \notin B
  BY HitsCount
<1>3. DOMAIN s = 1 .. m /\ DOMAIN t = 1 .. n
  OBVIOUS
<1> HIDE DEF m, n, c
<1>4. DOMAIN c = 1 .. m + n
  BY <1>1
<1> SUFFICES ASSUME NEW i \in 1 .. m + n, NEW j \in 1 .. m + n,
                    i < j, c[i] \in A
             PROVE  c[j] \notin B
  BY <1>4 DEF NoneAfter, c
<1>5. CASE j <= m
  <2>1. i \in 1 .. m /\ j \in 1 .. m
    BY <1>1, <1>5
  <2>2. c[i] = s[i] /\ c[j] = s[j]
    BY <1>1, <2>1
  <2> QED BY <1>3, <2>1, <2>2 DEF NoneAfter
<1>6. CASE i > m
  <2>1. i - m \in 1 .. n /\ j - m \in 1 .. n /\ i - m < j - m
    BY <1>1, <1>6
  <2>2. c[i] = t[i - m] /\ c[j] = t[j - m]
    BY <1>1, <1>6
  <2> QED BY <1>3, <2>1, <2>2 DEF NoneAfter
<1>7. CASE i <= m /\ j > m
  <2>1. i \in 1 .. m /\ j - m \in 1 .. n
    BY <1>1, <1>7
  <2>2. c[i] = s[i] /\ c[j] = t[j - m]
    BY <1>1, <1>7
  <2> QED BY <1>2, <2>1, <2>2
<1>8. i \in Int /\ j \in Int /\ m \in Int
  BY <1>1
<1> QED BY <1>5, <1>6, <1>7, <1>8

\* An element is added behind the others, or the first one is taken out.
LEMMA NoneAfterQueue ==
  ASSUME NEW T, NEW s \in Seq(T), NEW A, NEW B, NoneAfter(s, A, B)
  PROVE  /\ \A x \in T : x \notin B \/ Hits(s, A) = 0
                         => NoneAfter(Append(s, x), A, B)
         /\ s # <<>> => /\ NoneAfter(Tail(s), A, B)
                        /\ Head(s) \in A => Hits(Tail(s), B) = 0
<1>1. ASSUME NEW x \in T, x \notin B \/ Hits(s, A) = 0
      PROVE  NoneAfter(Append(s, x), A, B)
  <2>1. Append(s, x) = s \o <<x>> /\ <<x>> \in Seq(T)
    BY AppendIsConcat
  <2>2. NoneAfter(<<x>>, A, B)
    BY DEF NoneAfter
  <2>3. x \notin B => Hits(<<x>>, B) = 0
    BY HitsOne
  <2> QED BY <1>1, <2>1, <2>2, <2>3, NoneAfterConcat
<1>2. ASSUME s # <<>>
      PROVE  /\ NoneAfter(Tail(s), A, B)
             /\ Head(s) \in A => Hits(Tail(s), B) = 0
  <2> DEFINE t == Tail(s)
             n == Len(s)
  <2>1. /\ t \in Seq(T) /\ n \in Nat /\ n >= 1 /\ Len(t) = n - 1
        /\ Head(s) = s[1] /\ DOMAIN s = 1 .. n
        /\ \A i \in 1 .. n - 1 : t[i] = s[i + 1]
    BY <1>2
  <2> HIDE DEF t, n
  <2>2. DOMAIN t = 1 .. n - 1
    BY <2>1
  <2>3. \A i \in 1 .. n - 1 : i + 1 \in 1 .. n /\ t[i] = s[i + 1] /\ 1 < i + 1
    BY <2>1
  <2>4. NoneAfter(t, A, B)
    <3> SUFFICES ASSUME NEW i \in 1 .. n - 1, NEW j \in 1 .. n - 1,
                        i < j, t[i] \in A
                 PROVE  t[j] \notin B
      BY <2>2 DEF NoneAfter
    <3>1. i + 1 \in 1 .. n /\ j + 1 \in 1 .. n /\ i + 1 < j + 1
      BY <2>1
    <3>2. t[i] = s[i + 1] /\ t[j] = s[j + 1]
      BY <2>1
    <3> QED BY <2>1, <3>1, <3>2 DEF NoneAfter
  <2>5. ASSUME Head(s) \in A PROVE Hits(t, B) = 0
    <3>1. 1 \in 1 .. n
      BY <2>1
    <3>2. \A i \in 1 .. n - 1 : t[i] \notin B
      BY <2>1, <2>3, <2>5, <3>1 DEF NoneAfter
    <3> QED BY <2>1, <3>2, HitsCount
  <2> QED BY <2>4, <2>5 DEF t
<1> QED BY <1>1, <1>2
=============================================================================
