---------------------------- MODULE DialogsProofs ----------------------------
(***************************************************************************)
(* Proofs about Dialogs, for every set of names and any bounds.            *)
(*                                                                         *)
(* The invariants are about answers on their way.  What a dialog waits for *)
(* is a request, then an event, then a box, one after the other: as long   *)
(* as nobody asks again, there is at most one of the three, and one of its *)
(* kind (AtMostOne).  That this survives every step rests on facts about   *)
(* how many elements of a queue lie in a set, which come first.  KindInv,  *)
(* Patient, Orderly and LoginInv are what the four theorems after the      *)
(* types need besides; KeptInv is about the requests alone.                *)
(***************************************************************************)
EXTENDS Dialogs, SequenceFacts, FiniteSetTheorems

-----------------------------------------------------------------------------
(* Queues with no element in a set, or one *)

Without(s, X) == \A i \in DOMAIN s : s[i] \notin X

Single(s, X) == \A i, j \in DOMAIN s : s[i] \in X /\ s[j] \in X => i = j

\* t is what is left of s when its i-th element is gone, in any order.
LeftOver(t, s, i) ==
  \E f \in [DOMAIN t -> DOMAIN s \ {i}] :
    /\ \A k, l \in DOMAIN t : f[k] = f[l] => k = l
    /\ \A k \in DOMAIN t : t[k] = s[f[k]]

LEMMA LeftOverFacts ==
  ASSUME NEW s, NEW t, NEW i \in DOMAIN s, NEW X, LeftOver(t, s, i)
  PROVE  /\ Without(s, X) => Without(t, X)
         /\ Single(s, X) => Single(t, X)
         /\ Single(s, X) /\ s[i] \in X => Without(t, X)
<1> PICK f \in [DOMAIN t -> DOMAIN s \ {i}] :
      /\ \A k, l \in DOMAIN t : f[k] = f[l] => k = l
      /\ \A k \in DOMAIN t : t[k] = s[f[k]]
  BY DEF LeftOver
<1>1. \A k \in DOMAIN t : f[k] \in DOMAIN s /\ f[k] # i
  OBVIOUS
<1> QED BY <1>1 DEF Without, Single

LEMMA TailLeft ==
  ASSUME NEW S, NEW s \in Seq(S), s # <<>>
  PROVE  /\ Tail(s) \in Seq(S) /\ Head(s) \in S /\ Head(s) = s[1]
         /\ 1 \in DOMAIN s /\ LeftOver(Tail(s), s, 1)
<1>1. /\ Tail(s) \in Seq(S) /\ Head(s) = s[1] /\ Len(s) \in Nat \ {0}
      /\ DOMAIN s = 1 .. Len(s) /\ DOMAIN Tail(s) = 1 .. Len(s) - 1
      /\ \A k \in 1 .. Len(s) - 1 : Tail(s)[k] = s[k + 1]
  OBVIOUS
<1> DEFINE f == [k \in DOMAIN Tail(s) |-> k + 1]
<1>2. f \in [DOMAIN Tail(s) -> DOMAIN s \ {1}]
  BY <1>1
<1>3. /\ \A k, l \in DOMAIN Tail(s) : f[k] = f[l] => k = l
      /\ \A k \in DOMAIN Tail(s) : Tail(s)[k] = s[f[k]]
  BY <1>1
<1> HIDE DEF f
<1>4. LeftOver(Tail(s), s, 1)
  BY <1>2, <1>3 DEF LeftOver
<1>5. 1 \in DOMAIN s
  BY <1>1
<1> QED BY <1>1, <1>4, <1>5

LEMMA RemoveLeft ==
  ASSUME NEW S, NEW s \in Seq(S), NEW i \in DOMAIN s
  PROVE  RemoveAt(s, i) \in Seq(S) /\ LeftOver(RemoveAt(s, i), s, i)
<1> DEFINE r == RemoveAt(s, i)
           n == Len(s)
           f == [k \in 1 .. n - 1 |-> IF k < i THEN k ELSE k + 1]
<1>1. i \in 1 .. n /\ DOMAIN s = 1 .. n /\ n \in Nat
  OBVIOUS
<1>2. /\ r \in Seq(S) /\ Len(r) = n - 1
      /\ \A j \in 1 .. n - 1 : r[j] = IF j < i THEN s[j] ELSE s[j + 1]
  BY <1>1, RemoveAtProperties
<1>3. DOMAIN r = 1 .. n - 1
  BY <1>2
<1> HIDE DEF r, n
<1>4. f \in [DOMAIN r -> DOMAIN s \ {i}]
  BY <1>1, <1>3
<1>5. /\ \A k, l \in DOMAIN r : f[k] = f[l] => k = l
      /\ \A k \in DOMAIN r : r[k] = s[f[k]]
  BY <1>1, <1>2, <1>3
<1> HIDE DEF f
<1>6. LeftOver(r, s, i)
  BY <1>4, <1>5 DEF LeftOver
<1> QED BY <1>2, <1>6 DEF r

LEMMA FrontLeft ==
  ASSUME NEW S, NEW s \in Seq(S), s # <<>>
  PROVE  /\ Front(s) \in Seq(S) /\ Last(s) \in S /\ Last(s) = s[Len(s)]
         /\ Len(s) \in DOMAIN s /\ LeftOver(Front(s), s, Len(s))
<1> DEFINE n == Len(s)
           t == Front(s)
           f == [k \in 1 .. n - 1 |-> k]
<1>1. n \in Nat \ {0} /\ DOMAIN s = 1 .. n
  OBVIOUS
<1>2. /\ t \in Seq(S) /\ DOMAIN t = 1 .. n - 1
      /\ \A k \in 1 .. n - 1 : t[k] = s[k]
  BY <1>1 DEF Front
<1>3. Last(s) = s[n] /\ n \in DOMAIN s /\ s[n] \in S
  BY <1>1 DEF Last
<1> HIDE DEF n, t
<1>4. f \in [DOMAIN t -> DOMAIN s \ {n}]
  BY <1>1, <1>2
<1>5. /\ \A k, l \in DOMAIN t : f[k] = f[l] => k = l
      /\ \A k \in DOMAIN t : t[k] = s[f[k]]
  BY <1>1, <1>2
<1> HIDE DEF f
<1>6. LeftOver(t, s, n)
  BY <1>4, <1>5 DEF LeftOver
<1> QED BY <1>2, <1>3, <1>6 DEF n, t

LEMMA AfterLeft ==
  ASSUME NEW S, events \in Seq(S), NEW i \in DOMAIN events
  PROVE  After(i) \in Seq(S) /\ LeftOver(After(i), events, i)
<1> DEFINE n == Len(events)
           a == SubSeq(events, i + 1, n)
           b == SubSeq(events, 1, i - 1)
           f == [k \in 1 .. n - 1 |-> IF k <= n - i THEN k + i ELSE k - (n - i)]
<1>1. i \in 1 .. n /\ DOMAIN events = 1 .. n /\ n \in Nat
  OBVIOUS
<1>2. /\ a \in Seq(S) /\ Len(a) = n - i
      /\ \A k \in 1 .. n - i : a[k] = events[k + i]
  BY <1>1
<1>3. /\ b \in Seq(S) /\ Len(b) = i - 1
      /\ \A k \in 1 .. i - 1 : b[k] = events[k]
  BY <1>1
<1>4. After(i) = a \o b
  BY DEF After
<1> HIDE DEF a, b, n
<1>5. /\ a \o b \in Seq(S) /\ Len(a \o b) = Len(a) + Len(b)
      /\ \A k \in 1 .. Len(a) + Len(b) :
           (a \o b)[k] = IF k <= Len(a) THEN a[k] ELSE b[k - Len(a)]
  BY <1>2, <1>3, ConcatProperties
<1>6. DOMAIN (a \o b) = 1 .. n - 1
  BY <1>1, <1>2, <1>3, <1>5
<1>7. f \in [DOMAIN (a \o b) -> DOMAIN events \ {i}]
  BY <1>1, <1>6
<1>8. \A k, l \in DOMAIN (a \o b) : f[k] = f[l] => k = l
  BY <1>1, <1>6
<1>9. ASSUME NEW k \in DOMAIN (a \o b)
      PROVE  (a \o b)[k] = events[f[k]]
  <2>1. CASE k <= n - i
    BY <1>1, <1>2, <1>3, <1>5, <1>6, <2>1
  <2>2. CASE ~(k <= n - i)
    <3>1. (a \o b)[k] = b[k - (n - i)]
      <4>1. k \in 1 .. Len(a) + Len(b) /\ Len(a) = n - i /\ ~(k <= Len(a))
        BY <1>1, <1>2, <1>3, <1>6, <2>2
      <4>2. (a \o b)[k] = b[k - Len(a)]
        BY <1>5, <4>1
      <4> QED BY <4>1, <4>2
    <3>2. k - (n - i) \in 1 .. i - 1
      BY <1>1, <1>6, <2>2
    <3> QED BY <1>3, <1>6, <2>2, <3>1, <3>2
  <2> QED BY <2>1, <2>2
<1> HIDE DEF f
<1>10. LeftOver(a \o b, events, i)
  BY <1>7, <1>8, <1>9 DEF LeftOver
<1> QED BY <1>4, <1>5, <1>10

LEMMA AppendFacts ==
  ASSUME NEW S, NEW s \in Seq(S), NEW e \in S, NEW X
  PROVE  /\ Append(s, e) \in Seq(S)
         /\ Without(Append(s, e), X) <=> Without(s, X) /\ e \notin X
         /\ Single(s, X) /\ e \notin X => Single(Append(s, e), X)
         /\ Without(s, X) => Single(Append(s, e), X)
<1>1. /\ Append(s, e) \in Seq(S) /\ Len(s) \in Nat
      /\ DOMAIN s = 1 .. Len(s) /\ DOMAIN Append(s, e) = 1 .. Len(s) + 1
      /\ \A k \in 1 .. Len(s) : Append(s, e)[k] = s[k]
      /\ Append(s, e)[Len(s) + 1] = e
  OBVIOUS
<1>2. \A k \in 1 .. Len(s) + 1 : k \in 1 .. Len(s) \/ k = Len(s) + 1
  BY <1>1
<1>3. 1 .. Len(s) \subseteq 1 .. Len(s) + 1 /\ Len(s) + 1 \in 1 .. Len(s) + 1
  BY <1>1
<1> QED BY <1>1, <1>2, <1>3 DEF Without, Single

LEMMA ConcatFacts ==
  ASSUME NEW S, NEW s \in Seq(S), NEW t \in Seq(S), NEW X
  PROVE  /\ s \o t \in Seq(S)
         /\ Without(s \o t, X) <=> Without(s, X) /\ Without(t, X)
         /\ Single(s, X) /\ Without(t, X) => Single(s \o t, X)
         /\ Without(s, X) /\ Single(t, X) => Single(s \o t, X)
<1> DEFINE m == Len(s)
           n == Len(t)
           u == s \o t
<1>1. /\ m \in Nat /\ n \in Nat /\ DOMAIN s = 1 .. m /\ DOMAIN t = 1 .. n
      /\ u \in Seq(S)
  OBVIOUS
<1>2. /\ DOMAIN u = 1 .. m + n
      /\ \A k \in 1 .. m + n : u[k] = IF k <= m THEN s[k] ELSE t[k - m]
  BY <1>1, ConcatProperties
<1> HIDE DEF m, n, u
<1>3. \A k \in 1 .. m : k \in 1 .. m + n /\ u[k] = s[k]
  BY <1>1, <1>2
<1>4. ASSUME NEW k \in 1 .. n PROVE m + k \in 1 .. m + n /\ u[m + k] = t[k]
  <2>1. m + k \in 1 .. m + n /\ ~(m + k <= m) /\ (m + k) - m = k
    BY <1>1
  <2> QED BY <1>2, <2>1
<1>5. \A k \in 1 .. m + n : k \in 1 .. m \/ \E l \in 1 .. n : k = m + l
  <2> SUFFICES ASSUME NEW k \in 1 .. m + n, k \notin 1 .. m
               PROVE  \E l \in 1 .. n : k = m + l
    OBVIOUS
  <2>1. k - m \in 1 .. n /\ k = m + (k - m)
    BY <1>1
  <2> QED BY <2>1
<1>6. Without(u, X) <=> Without(s, X) /\ Without(t, X)
  <2>1. ASSUME Without(u, X) PROVE Without(s, X) /\ Without(t, X)
    <3>1. \A k \in 1 .. m : s[k] \notin X
      BY <1>2, <1>3, <2>1, Zenon DEF Without
    <3>2. \A k \in 1 .. n : t[k] \notin X
      BY <1>2, <1>4, <2>1, Zenon DEF Without
    <3> QED BY <1>1, <3>1, <3>2 DEF Without
  <2>2. ASSUME Without(s, X), Without(t, X) PROVE Without(u, X)
    <3>1. ASSUME NEW k \in 1 .. m + n PROVE u[k] \notin X
      <4>1. CASE k \in 1 .. m
        BY <1>1, <1>3, <2>2, <4>1, Zenon DEF Without
      <4>2. CASE \E l \in 1 .. n : k = m + l
        BY <1>1, <1>4, <2>2, <4>2, Zenon DEF Without
      <4> QED BY <1>5, <4>1, <4>2
    <3> QED BY <1>2, <3>1 DEF Without
  <2> QED BY <2>1, <2>2
<1>7. ASSUME Single(s, X), Without(t, X) PROVE Single(u, X)
  <2>1. ASSUME NEW k \in 1 .. m + n, u[k] \in X
        PROVE  k \in 1 .. m /\ s[k] \in X
    <3>1. CASE k \in 1 .. m
      BY <1>3, <2>1, <3>1
    <3>2. CASE \E l \in 1 .. n : k = m + l
      BY <1>1, <1>4, <1>7, <2>1, <3>2, Zenon DEF Without
    <3> QED BY <1>5, <3>1, <3>2
  <2> QED BY <1>1, <1>2, <1>7, <2>1 DEF Single
<1>8. ASSUME Without(s, X), Single(t, X) PROVE Single(u, X)
  <2>1. ASSUME NEW k \in 1 .. m + n, u[k] \in X
        PROVE  \E l \in 1 .. n : k = m + l /\ t[l] \in X
    <3>1. CASE k \in 1 .. m
      BY <1>1, <1>3, <1>8, <2>1, <3>1, Zenon DEF Without
    <3>2. CASE \E l \in 1 .. n : k = m + l
      BY <1>4, <2>1, <3>2
    <3> QED BY <1>5, <3>1, <3>2
  <2>2. ASSUME NEW j \in 1 .. m + n, NEW k \in 1 .. m + n,
               u[j] \in X, u[k] \in X
        PROVE  j = k
    <3>1. PICK p \in 1 .. n : j = m + p /\ t[p] \in X
      BY <2>1, <2>2
    <3>2. PICK q \in 1 .. n : k = m + q /\ t[q] \in X
      BY <2>1, <2>2
    <3>3. p = q
      BY <1>1, <1>8, <3>1, <3>2, Zenon DEF Single
    <3> QED BY <3>1, <3>2, <3>3
  <2> QED BY <1>2, <2>2 DEF Single
<1> QED BY <1>1, <1>6, <1>7, <1>8 DEF u

-----------------------------------------------------------------------------
(* Types *)

\* What a signal posts: an event for each dialog of the class.
Posted(c, slot, ok) ==
  \E n \in Seq(Events) :
    /\ events' = events \o n
    /\ \A i \in DOMAIN n : /\ n[i].to \in All(c)
                           /\ n[i].slot = slot /\ n[i].ok = ok
    /\ \A i, j \in DOMAIN n : n[i].to = n[j].to => i = j

LEMMA Emitted ==
  ASSUME TypeOK, NEW c, NEW ok \in BOOLEAN,
         NEW slot \in {"receiveData_Register", "receiveDate_Register1"},
         Emit(c, slot, ok)
  PROVE  Posted(c, slot, ok)
<1> PICK l \in Sorted(c) :
      events' = events \o [i \in DOMAIN l |-> Event(l[i], slot, ok)]
  BY DEF Emit
<1> DEFINE n == [i \in DOMAIN l |-> Event(l[i], slot, ok)]
           m == Cardinality(All(c))
<1>1. m \in Nat
  <2>1. IsFiniteSet(Dialog)
    BY DialogsAssumption, FS_Interval DEF Dialog
  <2>2. All(c) \subseteq Dialog
    BY DEF All
  <2> QED BY <2>1, <2>2, FS_Subset, FS_CardinalityType
<1>2. /\ l \in [1 .. m -> All(c)]
      /\ \A i, j \in 1 .. m : i < j => l[i] < l[j]
  BY DEF Sorted
<1> HIDE DEF m
<1>3. All(c) \subseteq Dialog /\ Dialog \subseteq Nat
  BY DialogsAssumption DEF All, Dialog
<1>4. \A i \in 1 .. m : n[i] \in Events
  BY <1>2, <1>3 DEF Event, Events
<1>5. n \in Seq(Events)
  BY <1>1, <1>2, <1>4, IsASeq
<1>6. \A i \in 1 .. m :
        n[i].to = l[i] /\ n[i].slot = slot /\ n[i].ok = ok
  BY <1>2 DEF Event
<1>7. \A i, j \in 1 .. m : l[i] = l[j] => i = j
  <2> SUFFICES ASSUME NEW i \in 1 .. m, NEW j \in 1 .. m, i < j
               PROVE  l[i] # l[j]
    BY <1>1
  <2>1. l[i] < l[j] /\ l[i] \in Nat /\ l[j] \in Nat
    BY <1>2, <1>3
  <2> QED BY <2>1
<1>8. DOMAIN n = 1 .. m
  BY <1>2
<1>9. events' = events \o n
  OBVIOUS
<1> HIDE DEF n
<1>10. \A i \in DOMAIN n :
         n[i].to \in All(c) /\ n[i].slot = slot /\ n[i].ok = ok
  BY <1>2, <1>6, <1>8
<1>11. \A i, j \in DOMAIN n : n[i].to = n[j].to => i = j
  BY <1>6, <1>7, <1>8
<1> QED BY <1>5, <1>9, <1>10, <1>11, Zenon DEF Posted

\* Loops are counted; inside a box there is one.
LEMMA LoopsCount ==
  ASSUME TypeOK
  PROVE  /\ Loops \in Nat
         /\ modals # <<>> /\ IsBox(Top) => Loops - 1 \in Nat
<1> DEFINE B == {i \in DOMAIN modals : IsBox(modals[i])}
<1>1. modals \in Seq(Modals) /\ DOMAIN modals = 1 .. Len(modals)
  BY DEF TypeOK
<1>2. IsFiniteSet(B)
  BY <1>1, FS_Interval, FS_Subset
<1>3. Cardinality(B) \in Nat
  BY <1>2, FS_CardinalityType
<1>4. ASSUME modals # <<>>, IsBox(Top) PROVE Cardinality(B) # 0
  <2>1. Len(modals) \in B
    BY <1>1, <1>4, FrontLeft DEF Top
  <2> QED BY <1>2, <2>1, FS_EmptySet
<1> QED BY <1>3, <1>4 DEF Loops

\* deleteLater posts an event for its dialog, unless one is there.
LEMMA Deleting ==
  ASSUME TypeOK, NEW d \in Dialog, NEW k \in Nat, DeleteLater(d, k)
  PROVE  /\ Deletion(d, k) \in Events
         /\ \/ /\ events' = events
               /\ \E i \in DOMAIN events : events[i].to = d
            \/ events' = Append(events, Deletion(d, k))
BY DEF DeleteLater, Deletion, Events

\* The topmost window, and what is below it.
LEMMA TopTypes ==
  ASSUME TypeOK, modals # <<>>
  PROVE  /\ Top \in Modals /\ Front(modals) \in Seq(Modals)
         /\ ~IsBox(Top) => Top.of \in Dialog /\ Top = Window(Top.of)
         /\ Top.text \in {"registered", "submitted"} => Top.of \in Dialog
<1>1. Top \in Modals /\ Front(modals) \in Seq(Modals)
  BY FrontLeft DEF TypeOK, Top
<1> QED BY <1>1 DEF Modals, IsBox, Window, Modal

LEMMA TypeInit == Init => TypeOK
<1> SUFFICES ASSUME Init PROVE TypeOK
  OBVIOUS
<1>1. /\ modals \in Seq(Modals) /\ requests \in Seq(Requests)
      /\ events \in Seq(Events)
  <2> HIDE DEF Modals, Requests, Events
  <2> QED BY DEF Init
<1>2. /\ class \in [Dialog -> {"none", "regist", "regist2", "gone"}]
      /\ user \in [Dialog -> Name]
      /\ profile \in [Name -> {"none", "bare", "default", "filled"}]
  BY DEF Init, Name
<1> QED BY <1>1, <1>2 DEF Init, TypeOK

LEMMA AnswerTypes == TypeOK /\ Answer => TypeOK'
<1> SUFFICES ASSUME TypeOK, Answer PROVE TypeOK'
  OBVIOUS
<1> DEFINE r == Head(requests)
<1>1. /\ requests # <<>> /\ requests' = Tail(requests)
      /\ process' = process /\ class' = class /\ user' = user
      /\ atLogin' = atLogin /\ windows' = windows /\ modals' = modals
      /\ rivals' = rivals /\ hasty' = hasty /\ strayed' = strayed
      /\ relogged' = relogged
  BY DEF Answer, dialogs
<1>2. r \in Requests /\ requests' \in Seq(Requests)
  BY <1>1, TailLeft DEF TypeOK
<1> HIDE DEF r
<1>3. \/ r.type = "Register_Request" /\ r.who \in User /\ Register(r.who)
      \/ /\ r.type = "Register_Extra_Request" /\ r.who \in Name
         /\ r.value \in {"default", "filled"} /\ RegisterExtra(r.who, r.value)
      \/ r.type = "Login_Request" /\ r.who \in Name /\ CheckLogin(r.who)
  BY <1>2 DEF Answer, r, Requests, Name
<1>4. \A u \in Name, value \in {"default", "filled"} :
        Updated(u, value) \in [Name -> {"none", "bare", "default", "filled"}]
  BY DEF Updated, TypeOK
<1>5. \A c, slot : \A ok \in BOOLEAN :
        /\ slot \in {"receiveData_Register", "receiveDate_Register1"}
        /\ Emit(c, slot, ok)
        => events' \in Seq(Events)
  <2> SUFFICES ASSUME NEW c, NEW ok \in BOOLEAN,
                      NEW slot \in {"receiveData_Register",
                                    "receiveDate_Register1"},
                      Emit(c, slot, ok)
               PROVE  events' \in Seq(Events)
    OBVIOUS
  <2>1. PICK n \in Seq(Events) : events' = events \o n
    BY Emitted DEF Posted
  <2> QED BY <2>1, ConcatProperties DEF TypeOK
<1>6. CASE r.type = "Register_Request" /\ r.who \in User /\ Register(r.who)
  <2>1. events' \in Seq(Events) /\ filledIn' = filledIn
    BY <1>5, <1>6 DEF Register
  <2>2. /\ profile' \in [Name -> {"none", "bare", "default", "filled"}]
        /\ accepted' \subseteq User /\ unoffered' \subseteq accepted'
    BY <1>6 DEF Register, TypeOK
  <2> QED BY <1>1, <1>2, <2>1, <2>2 DEF TypeOK
<1>7. CASE /\ r.type = "Register_Extra_Request" /\ r.who \in Name
           /\ r.value \in {"default", "filled"} /\ RegisterExtra(r.who, r.value)
  <2>1. events' \in Seq(Events)
    BY <1>5, <1>7 DEF RegisterExtra
  <2>2. /\ profile' \in [Name -> {"none", "bare", "default", "filled"}]
        /\ filledIn' \subseteq Name
        /\ accepted' = accepted /\ unoffered' = unoffered
    BY <1>4, <1>7 DEF RegisterExtra, TypeOK
  <2> QED BY <1>1, <1>2, <2>1, <2>2 DEF TypeOK
<1>8. CASE r.type = "Login_Request" /\ r.who \in Name /\ CheckLogin(r.who)
  <2>1. Event(Login, "receiveData_Login", profile[r.who] # "none") \in Events
    BY DEF Event, Events
  <2>2. events' \in Seq(Events)
    BY <1>8, <2>1, AppendFacts DEF CheckLogin, TypeOK
  <2>3. /\ profile' = profile /\ accepted' = accepted
        /\ unoffered' = unoffered /\ filledIn' = filledIn
    BY <1>8 DEF CheckLogin
  <2> QED BY <1>1, <1>2, <2>2, <2>3 DEF TypeOK
<1> QED BY <1>3, <1>6, <1>7, <1>8

LEMMA OthersTypes == TypeOK /\ Others => TypeOK'
<1> SUFFICES ASSUME TypeOK, Others PROVE TypeOK'
  OBVIOUS
<1>1. /\ profile' \in [Name -> {"none", "bare", "default", "filled"}]
      /\ rivals' \subseteq User
  BY DialogsAssumption
     DEF Others, OthersRegister, OthersFillIn, Updated, DefaultProfile, TypeOK,
         Name
<1> QED BY <1>1 DEF Others, dialogs, history, TypeOK

LEMMA DeliverTypes == TypeOK /\ Deliver => TypeOK'
<1> SUFFICES ASSUME TypeOK, Deliver PROVE TypeOK'
  OBVIOUS
<1> PICK i \in DOMAIN events :
      LET e == events[i]
      IN /\ events' = After(i)
         /\ IF e.to # Login /\ class[e.to] = "gone"
            THEN UNCHANGED <<process, class, atLogin, windows, modals>>
            ELSE \/ e.slot = "receiveData_Register" /\ ReceiveRegister(e.to, e.ok)
                 \/ e.slot = "receiveDate_Register1" /\ ReceiveExtra(e.to, e.ok)
                 \/ e.slot = "receiveData_Login" /\ ReceiveLogin(e.ok)
                 \/ e.slot = "deleteLater" /\ Destroy(e.to)
  BY DEF Deliver
<1> DEFINE e == events[i]
<1>1. e \in Events
  BY DEF TypeOK
<1>2. events' \in Seq(Events)
  BY AfterLeft DEF TypeOK
<1>3. /\ user' = user /\ requests' = requests /\ profile' = profile
      /\ accepted' = accepted /\ unoffered' = unoffered
      /\ filledIn' = filledIn /\ rivals' = rivals /\ hasty' = hasty
      /\ strayed' = strayed /\ relogged' = relogged
  BY DEF Deliver, server, history
<1>4. /\ process' \in {"up", "left", "undefined"}
      /\ class' \in [Dialog -> {"none", "regist", "regist2", "gone"}]
      /\ atLogin' \in BOOLEAN /\ windows' \in Nat /\ modals' \in Seq(Modals)
  <2> HIDE DEF e
  <2>1. CASE UNCHANGED <<process, class, atLogin, windows, modals>>
    BY <2>1 DEF TypeOK
  <2>2. CASE e.slot = "receiveData_Register" /\ ReceiveRegister(e.to, e.ok)
    <3>1. Modal(e.to, IF e.ok THEN "registered" ELSE "taken") \in Modals
      BY <1>1, <2>2 DEF Events, Modals, Modal
    <3> QED BY <2>2, <3>1, AppendFacts DEF ReceiveRegister, Show, TypeOK
  <2>3. CASE e.slot = "receiveDate_Register1" /\ ReceiveExtra(e.to, e.ok)
    <3>1. Modal(e.to, IF e.ok THEN "submitted" ELSE "refused") \in Modals
      BY <1>1, <2>3 DEF Events, Modals, Modal
    <3> QED BY <2>3, <3>1, AppendFacts DEF ReceiveExtra, Show, TypeOK
  <2>4. CASE e.slot = "receiveData_Login" /\ ReceiveLogin(e.ok)
    <3>1. Modal(Login, "wrong") \in Modals
      BY DEF Modals, Modal
    <3>2. Append(modals, Modal(Login, "wrong")) \in Seq(Modals)
      BY <3>1 DEF TypeOK
    <3>3. process' = process /\ class' = class
      BY <2>4 DEF ReceiveLogin
    <3>4. /\ windows' \in Nat /\ atLogin' \in BOOLEAN
          /\ modals' \in Seq(Modals)
      <4>1. CASE e.ok
        <5>1. windows' = windows + 1 /\ atLogin' = FALSE /\ modals' = modals
          BY <2>4, <4>1, Zenon DEF ReceiveLogin
        <5>2. windows \in Nat /\ modals \in Seq(Modals)
          BY DEF TypeOK
        <5>3. windows' \in Nat /\ modals' \in Seq(Modals)
          BY <5>1, <5>2
        <5>4. atLogin' \in BOOLEAN
          BY <5>1
        <5> QED BY <5>3, <5>4
      <4>2. CASE ~e.ok
        BY <2>4, <3>2, <4>2 DEF ReceiveLogin, Show, TypeOK
      <4> QED BY <4>1, <4>2
    <3>5. /\ process \in {"up", "left", "undefined"}
          /\ class \in [Dialog -> {"none", "regist", "regist2", "gone"}]
      BY DEF TypeOK
    <3> QED BY <3>3, <3>4, <3>5
  <2>5. CASE e.slot = "deleteLater" /\ Destroy(e.to)
    <3>1. modals' \in Seq(Modals)
      <4>1. \A j \in DOMAIN modals : RemoveAt(modals, j) \in Seq(Modals)
        BY RemoveLeft DEF TypeOK
      <4> QED BY <2>5, <4>1 DEF Destroy, TypeOK
    <3> QED BY <2>5, <3>1 DEF Destroy, TypeOK
  <2> QED BY <2>1, <2>2, <2>3, <2>4, <2>5 DEF e
<1> HIDE DEF e
<1> QED BY <1>2, <1>3, <1>4 DEF TypeOK

LEMMA CloseBoxTypes == TypeOK /\ CloseBox => TypeOK'
<1> SUFFICES ASSUME TypeOK, CloseBox PROVE TypeOK'
  OBVIOUS
<1>1. modals # <<>> /\ IsBox(Top)
  BY DEF CloseBox
<1>2. /\ process' = process /\ atLogin' = atLogin /\ windows' = windows
      /\ requests' = requests /\ profile' = profile /\ accepted' = accepted
      /\ filledIn' = filledIn /\ rivals' = rivals /\ hasty' = hasty
      /\ strayed' = strayed /\ relogged' = relogged
  BY DEF CloseBox, server
<1>3. Loops - 1 \in Nat /\ Front(modals) \in Seq(Modals)
  BY <1>1, LoopsCount, TopTypes
<1>4. \A d \in Dialog : DeleteLater(d, Loops - 1) => events' \in Seq(Events)
  <2> SUFFICES ASSUME NEW d \in Dialog, DeleteLater(d, Loops - 1)
               PROVE  events' \in Seq(Events)
    OBVIOUS
  <2> HIDE DEF DeleteLater
  <2>1. events \in Seq(Events)
    BY DEF TypeOK
  <2>2. \/ events' = events
        \/ /\ Deletion(d, Loops - 1) \in Events
           /\ events' = Append(events, Deletion(d, Loops - 1))
    BY <1>3, Deleting
  <2> QED BY <2>1, <2>2, AppendProperties
<1>5. \/ Top.text = "registered" /\ MakeRegist2(Top.of)
      \/ /\ Top.text = "submitted" /\ DeleteLater(Top.of, Loops - 1)
         /\ modals' = Front(modals)
         /\ class' = class /\ user' = user /\ unoffered' = unoffered
      \/ /\ modals' = Front(modals) /\ events' = events
         /\ class' = class /\ user' = user /\ unoffered' = unoffered
  BY DEF CloseBox, dialogs
<1>6. CASE Top.text = "registered" /\ MakeRegist2(Top.of)
  <2>1. Top.of \in Dialog
    BY <1>1, <1>6, TopTypes
  <2> PICK e \in Dialog :
        /\ class' = [class EXCEPT ![e] = "regist2"]
        /\ user' = [user EXCEPT ![e] = user[Top.of]]
        /\ modals' = Append(Front(modals), Window(e))
        /\ DeleteLater(Top.of, Loops - 1)
        /\ unoffered' = unoffered \ {user[Top.of]}
    BY <1>6 DEF MakeRegist2
  <2>2. Window(e) \in Modals
    BY DEF Window, Modal, Modals
  <2>3. modals' \in Seq(Modals)
    BY <1>3, <2>2, AppendFacts
  <2>4. events' \in Seq(Events)
    BY <1>4, <2>1
  <2>5. /\ class' \in [Dialog -> {"none", "regist", "regist2", "gone"}]
        /\ user' \in [Dialog -> Name] /\ unoffered' \subseteq accepted
    BY <2>1 DEF TypeOK
  <2> QED BY <1>2, <2>3, <2>4, <2>5 DEF TypeOK
<1>7. CASE /\ Top.text = "submitted" /\ DeleteLater(Top.of, Loops - 1)
           /\ modals' = Front(modals)
           /\ class' = class /\ user' = user /\ unoffered' = unoffered
  <2>1. events' \in Seq(Events)
    BY <1>1, <1>4, <1>7, TopTypes
  <2> QED BY <1>2, <1>3, <1>7, <2>1 DEF TypeOK
<1>8. CASE /\ modals' = Front(modals) /\ events' = events
           /\ class' = class /\ user' = user /\ unoffered' = unoffered
  BY <1>2, <1>3, <1>8 DEF TypeOK
<1> QED BY <1>5, <1>6, <1>7, <1>8

LEMMA InputTypes == TypeOK /\ Input => TypeOK'
<1> SUFFICES ASSUME TypeOK, Input PROVE TypeOK'
  OBVIOUS
<1>1. modals \in Seq(Modals) /\ requests \in Seq(Requests)
  BY DEF TypeOK
<1>2. ASSUME NEW u \in Name, ClickLogin(u) PROVE TypeOK'
  <2>1. Request("Login_Request", u, "") \in Requests
    BY DEF Request, Requests
  <2>2. requests' \in Seq(Requests) /\ relogged' \in BOOLEAN
    BY <1>1, <1>2, <2>1, AppendProperties DEF ClickLogin
  <2> QED BY <1>2, <2>2 DEF ClickLogin, TypeOK, dialogs, server
<1>3. ASSUME ClickRegist PROVE TypeOK'
  <2> PICK d \in Dialog : /\ class' = [class EXCEPT ![d] = "regist"]
                          /\ Show(Window(d))
    BY <1>3 DEF ClickRegist
  <2>1. Window(d) \in Modals
    BY DEF Window, Modal, Modals
  <2>2. modals' \in Seq(Modals) /\ strayed' \in BOOLEAN
    BY <1>1, <1>3, <2>1, AppendProperties DEF ClickRegist, Show
  <2>3. class' \in [Dialog -> {"none", "regist", "regist2", "gone"}]
    BY DEF TypeOK
  <2> QED BY <1>3, <2>2, <2>3 DEF ClickRegist, TypeOK, server
<1>4. ASSUME Leave PROVE TypeOK'
  BY <1>4 DEF Leave, TypeOK, dialogs, server, history
<1>5. ASSUME NEW d \in Dialog \cup {Login}, Warn(d) PROVE TypeOK'
  <2>1. Modal(d, "warning") \in Modals
    BY DEF Modal, Modals
  <2>2. modals' \in Seq(Modals) /\ hasty' \in BOOLEAN
    BY <1>1, <1>5, <2>1, AppendProperties DEF Warn, Show
  <2> QED BY <1>5, <2>2 DEF Warn, TypeOK, dialogs, server
<1>6. ASSUME modals # <<>>, CloseDialog PROVE TypeOK'
  BY <1>6, TopTypes DEF CloseDialog, TypeOK, dialogs, server, history
<1>7. ASSUME NEW d \in Dialog, NEW u \in User, ClickNext(d, u) PROVE TypeOK'
  <2> DEFINE two == <<Request("Register_Request", u, ""),
                      Request("Register_Extra_Request", u, DefaultProfile)>>
  <2>1. two \in Seq(Requests)
    BY DEF Request, Requests, Name, DefaultProfile
  <2>2. requests' = requests \o two
    BY <1>7 DEF ClickNext
  <2> HIDE DEF two
  <2>3. requests' \in Seq(Requests)
    BY <1>1, <2>1, <2>2, ConcatProperties
  <2>4. /\ user' \in [Dialog -> Name] /\ filledIn' \subseteq Name
        /\ hasty' \in BOOLEAN /\ strayed' \in BOOLEAN
    BY <1>7 DEF ClickNext, TypeOK, Name
  <2> QED BY <1>7, <2>3, <2>4 DEF ClickNext, TypeOK
<1>8. ASSUME NEW d \in Dialog, ClickConfirm(d) PROVE TypeOK'
  <2>1. Request("Register_Extra_Request", user[d], "filled") \in Requests
    BY DEF Request, Requests, TypeOK
  <2>2. requests' \in Seq(Requests)
    BY <1>1, <1>8, <2>1, AppendProperties DEF ClickConfirm
  <2>3. filledIn' \subseteq Name /\ hasty' \in BOOLEAN
    BY <1>8 DEF ClickConfirm, TypeOK
  <2> QED BY <1>8, <2>2, <2>3 DEF ClickConfirm, TypeOK, dialogs
<1>9. modals # <<>> /\ ~IsBox(Top) => Top.of \in Dialog
  BY TopTypes
<1> QED BY <1>2, <1>3, <1>4, <1>5, <1>6, <1>7, <1>8, <1>9 DEF Input, Name

LEMMA TypeStep == TypeOK /\ [Next]_vars => TypeOK'
<1>1. TypeOK /\ UNCHANGED vars => TypeOK'
  BY DEF TypeOK, vars, dialogs, server, history
<1> QED BY <1>1, AnswerTypes, OthersTypes, DeliverTypes, CloseBoxTypes,
           InputTypes DEF Next

\* The dialogs' state is well-typed: boxes are those of dialogs that can show
\* them, answers go to the dialogs that take them, deleteLater is called from
\* inside an event loop.
THEOREM TypeCorrect == Spec => []TypeOK
BY TypeInit, TypeStep, PTL DEF Spec

-----------------------------------------------------------------------------
(* Which profile is kept *)

\* Requests that may change the profile of u.
About(u) == {r \in Requests : r.who = u /\ r.type # "Login_Request"}

FilledIn(u) == Request("Register_Extra_Request", u, "filled")

\* The last of the requests s that may change the profile of u fills it in.
Coming(s, u) ==
  \E i \in DOMAIN s :
    /\ s[i] = FilledIn(u)
    /\ \A j \in DOMAIN s : j > i => s[j] \notin About(u)

Kept(u) ==
  \/ Without(requests, About(u)) /\ profile[u] \in {"filled", "none"}
  \/ Coming(requests, u)

AcceptedInv == \A u \in accepted : profile[u] # "none"

KeptInv == AcceptedInv /\ \A u \in filledIn \ rivals : Kept(u)

LEMMA ComingTail ==
  ASSUME NEW s \in Seq(Requests), s # <<>>, NEW u, Coming(s, u)
  PROVE  \/ Coming(Tail(s), u)
         \/ Head(s) = FilledIn(u) /\ Without(Tail(s), About(u))
<1> DEFINE t == Tail(s)
<1>1. PICK i \in DOMAIN s : /\ s[i] = FilledIn(u)
                            /\ \A j \in DOMAIN s : j > i => s[j] \notin About(u)
  BY DEF Coming
<1>2. /\ DOMAIN s = 1 .. Len(s) /\ Len(s) \in Nat /\ Head(s) = s[1]
      /\ DOMAIN t = 1 .. Len(s) - 1
      /\ \A j \in 1 .. Len(s) - 1 : t[j] = s[j + 1]
  OBVIOUS
<1> HIDE DEF t
<1>3. CASE i = 1
  BY <1>1, <1>2, <1>3 DEF Without, t
<1>4. CASE i # 1
  <2>1. i - 1 \in DOMAIN t /\ t[i - 1] = FilledIn(u)
    BY <1>1, <1>2, <1>4
  <2>2. \A j \in DOMAIN t : j > i - 1 => t[j] \notin About(u)
    BY <1>1, <1>2
  <2> QED BY <2>1, <2>2 DEF Coming, t
<1> QED BY <1>3, <1>4

LEMMA ComingAppend ==
  ASSUME NEW s \in Seq(Requests), NEW r \in Requests, NEW u
  PROVE  /\ Coming(s, u) /\ r \notin About(u) => Coming(Append(s, r), u)
         /\ r = FilledIn(u) => Coming(Append(s, r), u)
<1> DEFINE t == Append(s, r)
<1>1. /\ Len(s) \in Nat /\ DOMAIN s = 1 .. Len(s)
      /\ DOMAIN t = 1 .. Len(s) + 1
      /\ \A j \in 1 .. Len(s) : t[j] = s[j]
      /\ t[Len(s) + 1] = r
  OBVIOUS
<1> HIDE DEF t
<1>2. ASSUME Coming(s, u), r \notin About(u) PROVE Coming(t, u)
  <2>1. PICK i \in DOMAIN s :
          /\ s[i] = FilledIn(u)
          /\ \A j \in DOMAIN s : j > i => s[j] \notin About(u)
    BY <1>2 DEF Coming
  <2>2. i \in DOMAIN t /\ t[i] = FilledIn(u)
    BY <1>1, <2>1
  <2>3. ASSUME NEW j \in DOMAIN t, j > i PROVE t[j] \notin About(u)
    <3>1. CASE j = Len(s) + 1
      BY <1>1, <1>2, <3>1
    <3>2. CASE j # Len(s) + 1
      BY <1>1, <2>1, <2>3, <3>2
    <3> QED BY <3>1, <3>2
  <2> QED BY <2>2, <2>3 DEF Coming
<1>3. ASSUME r = FilledIn(u) PROVE Coming(t, u)
  <2>1. Len(s) + 1 \in DOMAIN t /\ t[Len(s) + 1] = FilledIn(u)
    BY <1>1, <1>3
  <2>2. \A j \in DOMAIN t : ~(j > Len(s) + 1)
    BY <1>1
  <2> QED BY <2>1, <2>2 DEF Coming
<1> QED BY <1>2, <1>3 DEF t

\* A request about somebody else, or a login, leaves it at that.
LEMMA KeptAppend ==
  ASSUME NEW s \in Seq(Requests), NEW r \in Requests, NEW u, r \notin About(u)
  PROVE  /\ Coming(s, u) => Coming(Append(s, r), u)
         /\ Without(s, About(u)) => Without(Append(s, r), About(u))
BY ComingAppend, AppendFacts

LEMMA AnswerKeeps == TypeOK /\ KeptInv /\ Answer => KeptInv'
<1> SUFFICES ASSUME TypeOK, KeptInv, Answer PROVE KeptInv'
  OBVIOUS
<1> DEFINE r == Head(requests)
<1>1. requests # <<>> /\ requests' = Tail(requests) /\ rivals' = rivals
  BY DEF Answer
<1>2. requests \in Seq(Requests) /\ r \in Requests /\ r = requests[1]
      /\ 1 \in DOMAIN requests /\ LeftOver(Tail(requests), requests, 1)
  BY <1>1, TailLeft DEF TypeOK
<1>3. ASSUME NEW u, Without(requests, About(u))
      PROVE  r \notin About(u) /\ Without(requests', About(u))
  BY <1>1, <1>2, <1>3, LeftOverFacts DEF Without
<1>4. ASSUME NEW u, Coming(requests, u)
      PROVE  \/ Coming(requests', u)
             \/ r = FilledIn(u) /\ Without(requests', About(u))
  BY <1>1, <1>2, <1>4, ComingTail
<1>5. r \notin About(r.who) => r.type = "Login_Request"
  BY <1>2 DEF About
<1> HIDE DEF r
<1>6. CASE r.type = "Register_Request" /\ Register(r.who)
  <2>1. \A u \in Name : u # r.who => profile'[u] = profile[u]
    BY <1>6 DEF Register, TypeOK
  <2>2. r.who \in Name
    BY <1>2 DEF Requests, Name
  <2>3. AcceptedInv'
    <3>1. CASE profile[r.who] = "none"
      <4>1. /\ profile' = [profile EXCEPT ![r.who] = "bare"]
            /\ accepted' = accepted \cup {r.who}
        BY <1>6, <3>1 DEF Register
      <4> QED BY <2>2, <4>1 DEF KeptInv, AcceptedInv, TypeOK, Name
    <3>2. CASE profile[r.who] # "none"
      BY <1>6, <3>2 DEF Register, KeptInv, AcceptedInv
    <3> QED BY <3>1, <3>2
  <2>4. ASSUME NEW u \in filledIn \ rivals PROVE Kept(u)'
    <3>1. u \in Name
      BY DEF TypeOK
    <3>2. r # FilledIn(u)
      BY <1>6 DEF FilledIn, Request
    <3>3. CASE Without(requests, About(u)) /\ profile[u] \in {"filled", "none"}
      <4>1. u # r.who
        BY <1>3, <1>5, <1>6, <3>3
      <4> QED BY <1>3, <2>1, <3>1, <3>3, <4>1 DEF Kept
    <3>4. CASE Coming(requests, u)
      BY <1>4, <3>2, <3>4 DEF Kept
    <3> QED BY <3>3, <3>4 DEF KeptInv, Kept
  <2>5. filledIn' = filledIn
    BY <1>6 DEF Register
  <2> QED BY <1>1, <2>3, <2>4, <2>5 DEF KeptInv
<1>7. CASE r.type = "Register_Extra_Request" /\ RegisterExtra(r.who, r.value)
  <2>1. r.who \in Name /\ r.value \in {"default", "filled"}
    BY <1>2, <1>7 DEF Requests
  <2>2. accepted' = accepted
    BY <1>7 DEF RegisterExtra
  <2>3. \/ profile' = Updated(r.who, r.value) /\ filledIn' = filledIn
        \/ profile' = profile /\ filledIn' = filledIn \ {r.who}
    BY <1>7 DEF RegisterExtra
  <2>4. /\ \A u \in Name : u # r.who => profile'[u] = profile[u]
        /\ \A u \in Name : profile[u] # "none" => profile'[u] # "none"
    BY <2>1, <2>3 DEF Updated, TypeOK
  <2>5. AcceptedInv'
    BY <2>2, <2>4 DEF KeptInv, AcceptedInv, TypeOK, Name
  <2>6. ASSUME NEW u \in filledIn' \ rivals PROVE Kept(u)'
    <3>1. u \in filledIn \ rivals /\ u \in Name
      BY <2>3 DEF TypeOK
    <3>2. CASE Without(requests, About(u)) /\ profile[u] \in {"filled", "none"}
      <4>1. u # r.who
        BY <1>3, <1>5, <1>7, <3>2
      <4> QED BY <1>3, <2>4, <3>1, <3>2, <4>1 DEF Kept
    <3>3. CASE r = FilledIn(u) /\ Without(requests', About(u))
      <4>1. r.who = u /\ r.value = "filled"
        BY <3>3 DEF FilledIn, Request
      <4>2. profile' = Updated(u, "filled")
        BY <2>3, <2>6, <4>1
      <4>3. profile'[u] \in {"filled", "none"}
        BY <3>1, <4>2 DEF Updated, TypeOK
      <4> QED BY <3>3, <4>3 DEF Kept
    <3>4. CASE Coming(requests', u)
      BY <3>4 DEF Kept
    <3> QED BY <1>4, <3>1, <3>2, <3>3, <3>4 DEF KeptInv, Kept
  <2> QED BY <1>1, <2>5, <2>6 DEF KeptInv
<1>8. CASE r.type = "Login_Request" /\ CheckLogin(r.who)
  <2>1. profile' = profile /\ accepted' = accepted /\ filledIn' = filledIn
    BY <1>8 DEF CheckLogin
  <2>2. \A u : r # FilledIn(u)
    BY <1>8 DEF FilledIn, Request
  <2>3. \A u : Kept(u) => Kept(u)'
    BY <1>3, <1>4, <2>1, <2>2 DEF Kept
  <2> QED BY <1>1, <2>1, <2>3 DEF KeptInv, AcceptedInv
<1> QED BY <1>6, <1>7, <1>8 DEF Answer, r

LEMMA OthersKeep == TypeOK /\ KeptInv /\ Others => KeptInv'
<1> SUFFICES ASSUME TypeOK, KeptInv, Others PROVE KeptInv'
  OBVIOUS
<1>1. /\ requests' = requests /\ accepted' = accepted /\ filledIn' = filledIn
  BY DEF Others
<1> PICK v \in Contested : OthersRegister(v) \/ OthersFillIn(v)
  BY DEF Others
<1>2. v \in Name /\ v \in rivals' /\ rivals \subseteq rivals'
  BY DialogsAssumption DEF OthersRegister, OthersFillIn, Name
<1>3. /\ \A u \in Name : u # v => profile'[u] = profile[u]
      /\ \A u \in Name : profile[u] # "none" => profile'[u] # "none"
  BY <1>2 DEF OthersRegister, OthersFillIn, Updated, DefaultProfile, TypeOK
<1>4. AcceptedInv'
  BY <1>1, <1>3 DEF KeptInv, AcceptedInv, TypeOK, Name
<1>5. ASSUME NEW u \in filledIn' \ rivals' PROVE Kept(u)'
  <2>1. u \in filledIn \ rivals /\ u # v /\ u \in Name
    BY <1>1, <1>2, <1>5 DEF TypeOK
  <2> QED BY <1>1, <1>3, <2>1 DEF KeptInv, Kept
<1> QED BY <1>4, <1>5 DEF KeptInv

LEMMA InputKeeps == TypeOK /\ KeptInv /\ Input => KeptInv'
<1> SUFFICES ASSUME TypeOK, KeptInv, Input PROVE KeptInv'
  OBVIOUS
<1>0. requests \in Seq(Requests)
  BY DEF TypeOK
<1>1. ASSUME profile' = profile, accepted' = accepted, rivals' = rivals,
             \A u \in filledIn' \ rivals : Kept(u)'
      PROVE  KeptInv'
  BY <1>1 DEF KeptInv, AcceptedInv
<1>2. ASSUME requests' = requests, profile' = profile, accepted' = accepted,
             filledIn' = filledIn, rivals' = rivals
      PROVE  KeptInv'
  BY <1>2 DEF KeptInv, AcceptedInv, Kept
<1>3. ASSUME NEW v \in Name, ClickLogin(v) PROVE KeptInv'
  <2> DEFINE r == Request("Login_Request", v, "")
  <2>1. r \in Requests /\ \A u : r \notin About(u)
    BY DEF Request, Requests, About
  <2>2. /\ requests' = Append(requests, r) /\ profile' = profile
        /\ accepted' = accepted /\ filledIn' = filledIn /\ rivals' = rivals
    BY <1>3 DEF ClickLogin, server
  <2> HIDE DEF r
  <2>3. \A u : Kept(u) => Kept(u)'
    BY <1>0, <2>1, <2>2, KeptAppend DEF Kept
  <2> QED BY <1>1, <2>2, <2>3 DEF KeptInv
<1>4. ClickRegist => KeptInv'
  BY <1>2 DEF ClickRegist, server
<1>5. Leave => KeptInv'
  BY <1>2 DEF Leave, server
<1>6. \A d : Warn(d) => KeptInv'
  BY <1>2 DEF Warn, server
<1>7. CloseDialog => KeptInv'
  BY <1>2 DEF CloseDialog, server
<1>8. ASSUME NEW d, NEW v \in User, ClickNext(d, v) PROVE KeptInv'
  <2> DEFINE a == Request("Register_Request", v, "")
             b == Request("Register_Extra_Request", v, DefaultProfile)
  <2>1. a \in Requests /\ b \in Requests
    BY DEF Request, Requests, DefaultProfile, Name
  <2>2. \A u : u # v => a \notin About(u) /\ b \notin About(u)
    BY DEF Request, About
  <2>3. requests' = requests \o <<a, b>>
    BY <1>8 DEF ClickNext
  <2>4. /\ profile' = profile /\ accepted' = accepted /\ rivals' = rivals
        /\ filledIn' = filledIn \ {v}
    BY <1>8 DEF ClickNext
  <2> HIDE DEF a, b
  <2>5. /\ requests' = Append(Append(requests, a), b)
        /\ Append(requests, a) \in Seq(Requests)
    BY <1>0, <2>1, <2>3
  <2>6. ASSUME NEW u \in filledIn' \ rivals PROVE Kept(u)'
    <3>1. u \in filledIn \ rivals /\ a \notin About(u) /\ b \notin About(u)
      BY <2>2, <2>4, <2>6
    <3>2. CASE Coming(requests, u)
      <4>1. Coming(Append(requests, a), u)
        BY <1>0, <2>1, <3>1, <3>2, KeptAppend
      <4> QED BY <2>1, <2>5, <3>1, <4>1, KeptAppend DEF Kept
    <3>3. CASE Without(requests, About(u)) /\ profile[u] \in {"filled", "none"}
      <4>1. Without(Append(requests, a), About(u))
        BY <1>0, <2>1, <3>1, <3>3, KeptAppend
      <4>2. Without(Append(Append(requests, a), b), About(u))
        BY <2>1, <2>5, <3>1, <4>1, KeptAppend
      <4> QED BY <2>4, <2>5, <3>3, <4>2 DEF Kept
    <3> QED BY <3>1, <3>2, <3>3 DEF KeptInv, Kept
  <2> QED BY <1>1, <2>4, <2>6
<1>9. ASSUME NEW d \in Dialog, ClickConfirm(d) PROVE KeptInv'
  <2> DEFINE r == Request("Register_Extra_Request", user[d], "filled")
  <2>1. /\ r \in Requests /\ r = FilledIn(user[d])
        /\ \A u : u # user[d] => r \notin About(u)
    BY DEF Request, Requests, About, FilledIn, TypeOK
  <2>2. /\ requests' = Append(requests, r) /\ profile' = profile
        /\ accepted' = accepted /\ rivals' = rivals
        /\ filledIn' = filledIn \cup {user[d]}
    BY <1>9 DEF ClickConfirm
  <2> HIDE DEF r
  <2>3. ASSUME NEW u \in filledIn' \ rivals PROVE Kept(u)'
    <3>1. CASE u = user[d]
      BY <1>0, <2>1, <2>2, <3>1, ComingAppend DEF Kept
    <3>2. CASE u # user[d]
      <4>1. u \in filledIn \ rivals /\ r \notin About(u)
        BY <2>1, <2>2, <2>3, <3>2
      <4> QED BY <1>0, <2>1, <2>2, <4>1, KeptAppend DEF KeptInv, Kept
    <3> QED BY <3>1, <3>2
  <2> QED BY <1>1, <2>2, <2>3
<1>10. modals # <<>> /\ ~IsBox(Top) => Top.of \in Dialog
  BY TopTypes
<1> QED BY <1>3, <1>4, <1>5, <1>6, <1>7, <1>8, <1>9, <1>10 DEF Input, Name

LEMMA KeptStep == TypeOK /\ KeptInv /\ [Next]_vars => KeptInv'
<1> SUFFICES ASSUME TypeOK, KeptInv, [Next]_vars PROVE KeptInv'
  OBVIOUS
<1>1. ASSUME requests' = requests, profile' = profile, accepted' = accepted,
             filledIn' = filledIn, rivals' = rivals
      PROVE  KeptInv'
  BY <1>1 DEF KeptInv, AcceptedInv, Kept
<1>2. UNCHANGED vars => KeptInv'
  BY <1>1 DEF vars, server
<1>3. Deliver => KeptInv'
  BY <1>1 DEF Deliver, server
<1>4. CloseBox => KeptInv'
  BY <1>1 DEF CloseBox, server
<1> QED BY <1>2, <1>3, <1>4, AnswerKeeps, OthersKeep, InputKeeps DEF Next

\* Once the server has handled everything, an account that was registered here
\* has the profile that was submitted for it, unless another client has tried to
\* register the name: the automatic request for a default profile never wins.
THEOREM ProfileCorrect == Spec => []ProfileIsKept
<1>1. Init => KeptInv
  BY DEF Init, KeptInv, AcceptedInv
<1>2. TypeOK /\ KeptInv => ProfileIsKept
  <2> SUFFICES ASSUME TypeOK, KeptInv, requests = <<>>,
                      NEW u \in (filledIn \cap accepted) \ rivals
               PROVE  profile[u] = "filled"
    BY DEF ProfileIsKept
  <2>1. ~Coming(requests, u)
    BY DEF Coming
  <2>2. profile[u] \in {"filled", "none"} /\ profile[u] # "none"
    BY <2>1 DEF KeptInv, AcceptedInv, Kept
  <2> QED BY <2>2
<1> QED BY <1>1, <1>2, KeptStep, TypeCorrect, PTL DEF Spec

-----------------------------------------------------------------------------
(* How answers travel *)

Registrations == {r \in Requests : r.type = "Register_Request"}
Profiles      == {r \in Requests : r.type = "Register_Extra_Request"}
Logins        == {r \in Requests : r.type = "Login_Request"}

To(d) == {e \in Events : e.to = d}

\* One of the requests asks, of the events told and of the windows boxes at most.
AtMostOne(asks, told, boxes) ==
  /\ Single(requests, asks) /\ Single(events, told) /\ Single(modals, boxes)
  /\ \/ Without(requests, asks) /\ Without(events, told)
     \/ Without(requests, asks) /\ Without(modals, boxes)
     \/ Without(events, told) /\ Without(modals, boxes)

\* Does dialog d, or the login dialog, get the answer to r?
Answers(r, d) ==
  \/ r \in Registrations /\ d \in All("regist")
  \/ r \in Profiles /\ d \in All("regist2")
  \/ r \in Logins /\ d = Login

\* What an answer posts: one event for each dialog that gets it.
AnswerPosted(n) ==
  /\ events' = events \o n
  /\ \A d : /\ Single(n, To(d))
            /\ ~Answers(Head(requests), d) => Without(n, To(d))
  /\ \A i \in DOMAIN n : n[i].slot = "receiveData_Register" =>
       /\ Head(requests) \in Registrations /\ n[i].to \in All("regist")
       /\ n[i].ok => Head(requests).who \in accepted'

LEMMA AnswerPosts ==
  ASSUME TypeOK, Answer
  PROVE  \E n \in Seq(Events) : AnswerPosted(n)
<1> DEFINE r == Head(requests)
<1>1. r \in Requests
  BY TailLeft DEF Answer, TypeOK
<1>2. \A n, c :
        /\ \A i \in DOMAIN n : n[i].to \in All(c)
        /\ \A i, j \in DOMAIN n : n[i].to = n[j].to => i = j
        => \A d : Single(n, To(d)) /\ (d \notin All(c) => Without(n, To(d)))
  BY DEF Single, Without, To
<1>3. CASE r.type = "Register_Request" /\ Register(r.who)
  <2> DEFINE ok == profile[r.who] = "none"
  <2>1. Emit("regist", "receiveData_Register", ok) /\ ok \in BOOLEAN
    BY <1>3, Zenon DEF Register
  <2>2. ok => r.who \in accepted'
    BY <1>3, Zenon DEF Register
  <2>3. r \in Registrations
    BY <1>1, <1>3 DEF Registrations
  <2> HIDE DEF ok
  <2>4. PICK n \in Seq(Events) :
          /\ events' = events \o n
          /\ \A i \in DOMAIN n : /\ n[i].to \in All("regist")
                                 /\ n[i].slot = "receiveData_Register"
                                 /\ n[i].ok = ok
          /\ \A i, j \in DOMAIN n : n[i].to = n[j].to => i = j
    <3>1. Posted("regist", "receiveData_Register", ok)
      BY <2>1, Emitted
    <3> QED BY <3>1, Zenon DEF Posted
  <2>5. \A d : Single(n, To(d)) /\ (d \notin All("regist") => Without(n, To(d)))
    BY <1>2, <2>4
  <2> WITNESS n \in Seq(Events)
  <2> QED BY <2>2, <2>3, <2>4, <2>5, Zenon DEF AnswerPosted, Answers, r
<1>4. CASE r.type = "Register_Extra_Request" /\ RegisterExtra(r.who, r.value)
  <2>1. PICK ok \in BOOLEAN : Emit("regist2", "receiveDate_Register1", ok)
    BY <1>4 DEF RegisterExtra
  <2>2. r \in Profiles
    BY <1>1, <1>4 DEF Profiles
  <2>3. PICK n \in Seq(Events) :
          /\ events' = events \o n
          /\ \A i \in DOMAIN n : /\ n[i].to \in All("regist2")
                                 /\ n[i].slot = "receiveDate_Register1"
                                 /\ n[i].ok = ok
          /\ \A i, j \in DOMAIN n : n[i].to = n[j].to => i = j
    <3>1. Posted("regist2", "receiveDate_Register1", ok)
      BY <2>1, Emitted
    <3> QED BY <3>1, Zenon DEF Posted
  <2>4. \A d : Single(n, To(d)) /\ (d \notin All("regist2") => Without(n, To(d)))
    BY <1>2, <2>3
  <2>5. \A i \in DOMAIN n : n[i].slot # "receiveData_Register"
    BY <2>3
  <2> WITNESS n \in Seq(Events)
  <2> QED BY <2>2, <2>3, <2>4, <2>5, Zenon DEF AnswerPosted, Answers, r
<1>5. CASE r.type = "Login_Request" /\ CheckLogin(r.who)
  <2> DEFINE e == Event(Login, "receiveData_Login", profile[r.who] # "none")
  <2>1. e \in Events /\ e.to = Login /\ e.slot = "receiveData_Login"
    BY DEF Event, Events
  <2>2. events' = Append(events, e)
    BY <1>5 DEF CheckLogin
  <2>3. r \in Logins
    BY <1>1, <1>5 DEF Logins
  <2> HIDE DEF e
  <2>4. PICK n \in Seq(Events) : /\ DOMAIN n = {1} /\ n[1] = e
                                 /\ events' = events \o n
    <3>1. <<e>> \in Seq(Events) /\ DOMAIN <<e>> = {1} /\ <<e>>[1] = e
      BY <2>1
    <3>2. events' = events \o <<e>>
      BY <2>1, <2>2 DEF TypeOK
    <3> QED BY <3>1, <3>2
  <2>6. \A d : Single(n, To(d)) /\ (d # Login => Without(n, To(d)))
    BY <2>1, <2>4 DEF Single, Without, To
  <2>7. \A i \in DOMAIN n : n[i].slot # "receiveData_Register"
    BY <2>1, <2>4
  <2> WITNESS n \in Seq(Events)
  <2> QED BY <2>3, <2>4, <2>6, <2>7, Zenon DEF AnswerPosted, Answers, r
<1> QED BY <1>3, <1>4, <1>5 DEF Answer, r

\* What closing a box posts: a deletion of the dialog that showed it, at most.
LEMMA CloseBoxPosts ==
  ASSUME TypeOK, CloseBox
  PROVE  \/ events' = events
         \/ \E e \in Events :
              /\ e.to = Top.of /\ e.to \in Dialog /\ e.slot = "deleteLater"
              /\ Top.text \in {"registered", "submitted"}
              /\ events' = Append(events, e)
<1>1. /\ modals # <<>> /\ IsBox(Top) /\ Loops - 1 \in Nat
      /\ Top.text \in {"registered", "submitted"} => Top.of \in Dialog
  BY LoopsCount, TopTypes DEF CloseBox
<1>2. \/ events' = events
      \/ /\ Top.text \in {"registered", "submitted"}
         /\ DeleteLater(Top.of, Loops - 1)
  BY DEF CloseBox, MakeRegist2
<1>3. CASE /\ Top.text \in {"registered", "submitted"}
           /\ DeleteLater(Top.of, Loops - 1)
  <2> DEFINE e == Deletion(Top.of, Loops - 1)
  <2>1. e.to = Top.of /\ e.slot = "deleteLater"
    BY DEF Deletion
  <2>2. e \in Events /\ (events' = events \/ events' = Append(events, e))
    BY <1>1, <1>3, Deleting
  <2> HIDE DEF e
  <2> QED BY <1>1, <1>3, <2>1, <2>2
<1> QED BY <1>2, <1>3

\* Nothing of a type has been asked for.
LEMMA NotAsked ==
  ASSUME TypeOK, NEW t
  PROVE  /\ Asked(t) \in Nat
         /\ Asked(t) = 0 => \A i \in DOMAIN requests : requests[i].type # t
<1> DEFINE A == {i \in DOMAIN requests : requests[i].type = t}
<1>1. IsFiniteSet(A)
  <2>1. DOMAIN requests = 1 .. Len(requests) /\ Len(requests) \in Nat
    BY DEF TypeOK
  <2>2. IsFiniteSet(DOMAIN requests)
    BY <2>1, FS_Interval
  <2>3. A \subseteq DOMAIN requests
    OBVIOUS
  <2> HIDE DEF A
  <2> QED BY <2>2, <2>3, FS_Subset
<1>2. Asked(t) \in Nat /\ (Asked(t) = 0 => A = {})
  BY <1>1, FS_EmptySet, FS_CardinalityType DEF Asked
<1> QED BY <1>2

\* The event that is delivered, and what becomes of it.
Delivered(i) ==
  LET e == events[i]
  IN IF e.to # Login /\ class[e.to] = "gone"
     THEN UNCHANGED <<process, class, atLogin, windows, modals>>
     ELSE \/ e.slot = "receiveData_Register" /\ ReceiveRegister(e.to, e.ok)
          \/ e.slot = "receiveDate_Register1" /\ ReceiveExtra(e.to, e.ok)
          \/ e.slot = "receiveData_Login" /\ ReceiveLogin(e.ok)
          \/ e.slot = "deleteLater" /\ Destroy(e.to)

LEMMA DeliverTakes ==
  ASSUME TypeOK, Deliver
  PROVE  /\ process = "up" /\ requests' = requests /\ user' = user
         /\ accepted' = accepted /\ hasty' = hasty /\ strayed' = strayed
         /\ relogged' = relogged
         /\ \E i \in DOMAIN events :
              /\ Delivered(i) /\ events[i] \in Events
              /\ events' \in Seq(Events) /\ LeftOver(events', events, i)
<1>1. PICK i \in DOMAIN events : events' = After(i) /\ Delivered(i)
  BY DEF Deliver, Delivered
<1>2. events[i] \in Events /\ events \in Seq(Events)
  BY DEF TypeOK
<1>3. events' \in Seq(Events) /\ LeftOver(events', events, i)
  BY <1>1, <1>2, AfterLeft
<1>4. /\ process = "up" /\ requests' = requests /\ user' = user
      /\ accepted' = accepted /\ hasty' = hasty /\ strayed' = strayed
      /\ relogged' = relogged
  BY DEF Deliver, server, history
<1> QED BY <1>1, <1>2, <1>3, <1>4

-----------------------------------------------------------------------------
(* Login *)

LoginInv ==
  /\ atLogin => windows = 0
  /\ ~relogged =>
       /\ windows <= 1
       /\ AtMostOne(Logins, To(Login), {})
       /\ windows = 0 \/ (Without(requests, Logins) /\ Without(events, To(Login)))

\* The same without modals.
LEMMA LoginOne ==
  AtMostOne(Logins, To(Login), {}) <=>
    /\ Single(requests, Logins) /\ Single(events, To(Login))
    /\ Without(requests, Logins) \/ Without(events, To(Login))
BY DEF AtMostOne, Single, Without

LEMMA LoginStep == TypeOK /\ LoginInv /\ [Next]_vars => LoginInv'
<1> SUFFICES ASSUME TypeOK, LoginInv, [Next]_vars PROVE LoginInv'
  OBVIOUS
<1>0. requests \in Seq(Requests) /\ events \in Seq(Events)
  BY DEF TypeOK
<1> DEFINE Q == Without(requests, Logins)
           E == Without(events, To(Login))
           One == /\ Single(requests, Logins) /\ Single(events, To(Login))
                  /\ Q \/ E
           Inv == /\ atLogin => windows = 0
                  /\ ~relogged => windows <= 1 /\ One /\ (windows = 0 \/ (Q /\ E))
<1>1. Inv
  BY LoginOne DEF LoginInv
<1>2. Inv' => LoginInv'
  <2>1. One' => AtMostOne(Logins, To(Login), {})'
    BY DEF AtMostOne, Single, Without
  <2> QED BY <2>1 DEF LoginInv
<1>3. \A r \in Requests : r \in Logins <=> r.type = "Login_Request"
  BY DEF Logins
<1>4. ASSUME requests' = requests, events' = events, atLogin' = atLogin,
             windows' = windows, relogged' = relogged
      PROVE  Inv'
  BY <1>1, <1>4
<1>5. UNCHANGED vars => Inv'
  BY <1>4, Zenon DEF vars, history
<1>6. ASSUME Answer PROVE Inv'
  <2> DEFINE r == Head(requests)
  <2>1. /\ requests # <<>> /\ requests' = Tail(requests) /\ atLogin' = atLogin
        /\ windows' = windows /\ relogged' = relogged
    BY <1>6 DEF Answer
  <2>2. r = requests[1] /\ 1 \in DOMAIN requests /\ LeftOver(requests', requests, 1)
    BY <1>0, <2>1, TailLeft
  <2>3. /\ Q => Q' /\ r \notin Logins
        /\ Single(requests, Logins) => Single(requests', Logins)
        /\ Single(requests, Logins) /\ r \in Logins => Q'
    <3>1. Q => r \notin Logins
      BY <2>2 DEF Without
    <3> QED BY <2>2, <3>1, LeftOverFacts
  <2> HIDE DEF r
  <2>4. PICK n \in Seq(Events) :
          /\ events' = events \o n /\ Single(n, To(Login))
          /\ ~Answers(r, Login) => Without(n, To(Login))
    BY <1>6, AnswerPosts DEF AnswerPosted, r
  <2>5. Answers(r, Login) => r \in Logins
    BY DialogsAssumption DEF Answers, All, Dialog, Login
  <2>6. /\ E /\ Without(n, To(Login)) => E'
        /\ Single(events, To(Login)) /\ Without(n, To(Login))
             => Single(events', To(Login))
        /\ E /\ Single(n, To(Login)) => Single(events', To(Login))
    BY <1>0, <2>4, ConcatFacts
  <2>7. CASE r \in Logins
    <3> HIDE DEF Q, E
    <3> QED BY <1>1, <2>1, <2>3, <2>4, <2>6, <2>7
  <2>8. CASE r \notin Logins
    <3> HIDE DEF Q, E
    <3> QED BY <1>1, <2>1, <2>3, <2>4, <2>5, <2>6, <2>8
  <2> QED BY <2>7, <2>8
<1>7. ASSUME Others PROVE Inv'
  BY <1>4, <1>7 DEF Others, history
<1>8. ASSUME Deliver PROVE Inv'
  <2>1. requests' = requests /\ relogged' = relogged /\ (Q' <=> Q)
    <3>1. requests' = requests /\ relogged' = relogged
      BY <1>8, DeliverTakes
    <3> QED BY <3>1
  <2> PICK i \in DOMAIN events :
        /\ Delivered(i) /\ events[i] \in Events
        /\ events' \in Seq(Events) /\ LeftOver(events', events, i)
    BY <1>8, DeliverTakes
  <2> DEFINE e == events[i]
  <2>2. /\ E => E' /\ e \notin To(Login)
        /\ Single(events, To(Login)) => Single(events', To(Login))
        /\ Single(events, To(Login)) /\ e \in To(Login) => E'
    <3>1. E => e \notin To(Login)
      BY DEF Without
    <3> QED BY <3>1, LeftOverFacts
  <2>3. CASE e \in To(Login)
    <3>1. ReceiveLogin(e.ok)
      BY <2>3, DialogsAssumption DEF Delivered, To, Events, Dialog, Login
    <3>2. \/ windows' = windows /\ atLogin' = atLogin
          \/ windows' = windows + 1 /\ atLogin' = FALSE
      BY <3>1 DEF ReceiveLogin
    <3>3. windows \in Nat
      BY DEF TypeOK
    <3> HIDE DEF Q, E, e
    <3> QED BY <1>1, <2>1, <2>2, <2>3, <3>2, <3>3
  <2>4. CASE e \notin To(Login)
    <3>1. e.slot # "receiveData_Login"
      BY <2>4 DEF To, Events
    <3>2. windows' = windows /\ atLogin' = atLogin
      BY <3>1 DEF Delivered, ReceiveRegister, ReceiveExtra, Destroy
    <3> HIDE DEF Q, E, e
    <3> QED BY <1>1, <2>1, <2>2, <2>4, <3>2
  <2> QED BY <2>3, <2>4
<1>9. ASSUME CloseBox PROVE Inv'
  <2>1. /\ requests' = requests /\ windows' = windows /\ atLogin' = atLogin
        /\ relogged' = relogged
    BY <1>9 DEF CloseBox
  <2>2. CASE events' = events
    BY <1>4, <2>1, <2>2
  <2>3. CASE \E e \in Events : e.to \in Dialog /\ events' = Append(events, e)
    <3> PICK e \in Events : e.to \in Dialog /\ events' = Append(events, e)
      BY <2>3
    <3>1. e \notin To(Login)
      BY DialogsAssumption DEF To, Dialog, Login
    <3>2. /\ E => E'
          /\ Single(events, To(Login)) => Single(events', To(Login))
      BY <1>0, <3>1, AppendFacts
    <3>3. Q' <=> Q
      BY <2>1
    <3> HIDE DEF Q, E
    <3> QED BY <1>1, <2>1, <3>2, <3>3
  <2> QED BY <1>9, <2>2, <2>3, CloseBoxPosts
<1>10. ASSUME NEW u \in Name, ClickLogin(u) PROVE Inv'
  <2> DEFINE r == Request("Login_Request", u, "")
  <2>1. /\ atLogin /\ atLogin' = atLogin /\ windows' = windows
        /\ requests' = Append(requests, r) /\ events' = events
        /\ relogged' = (\/ relogged \/ Asked("Login_Request") > 0
                        \/ \E i \in DOMAIN events : events[i].to = Login)
    BY <1>10 DEF ClickLogin
  <2>2. r \in Requests
    BY DEF Request, Requests
  <2> HIDE DEF r
  <2>3. CASE relogged'
    BY <1>1, <2>1, <2>3
  <2>4. CASE ~relogged'
    <3>1. ~relogged /\ E
      BY <2>1, <2>4 DEF Without, To
    <3>2. Asked("Login_Request") \in Nat
      BY NotAsked
    <3>3. Q
      <4>1. Asked("Login_Request") = 0
        BY <2>1, <2>4, <3>2
      <4> QED BY <4>1, NotAsked DEF Without, Logins
    <3>4. Single(requests', Logins)
      BY <1>0, <2>1, <2>2, <3>3, AppendFacts
    <3>5. E' /\ Single(events', To(Login))
      BY <1>1, <2>1, <3>1
    <3> HIDE DEF Q, E
    <3> QED BY <1>1, <2>1, <3>1, <3>4, <3>5
  <2> QED BY <2>3, <2>4
<1>11. ASSUME NEW d, NEW u \in User, ClickNext(d, u) PROVE Inv'
  <2> DEFINE a == Request("Register_Request", u, "")
             b == Request("Register_Extra_Request", u, DefaultProfile)
  <2>1. /\ requests' = requests \o <<a, b>> /\ events' = events
        /\ atLogin' = atLogin /\ windows' = windows /\ relogged' = relogged
    BY <1>11 DEF ClickNext
  <2>2. a \in Requests \ Logins /\ b \in Requests \ Logins
    BY DEF Request, Requests, DefaultProfile, Name, Logins
  <2> HIDE DEF a, b
  <2>3. <<a, b>> \in Seq(Requests) /\ Without(<<a, b>>, Logins)
    BY <2>2 DEF Without
  <2>4. /\ Q => Q'
        /\ Single(requests, Logins) => Single(requests', Logins)
    BY <1>0, <2>1, <2>3, ConcatFacts
  <2>5. (E' <=> E) /\ (Single(events, To(Login)) => Single(events', To(Login)))
    BY <2>1
  <2> HIDE DEF Q, E
  <2> QED BY <1>1, <2>1, <2>4, <2>5
<1>12. ASSUME NEW d \in Dialog, ClickConfirm(d) PROVE Inv'
  <2> DEFINE r == Request("Register_Extra_Request", user[d], "filled")
  <2>1. /\ requests' = Append(requests, r) /\ events' = events
        /\ atLogin' = atLogin /\ windows' = windows /\ relogged' = relogged
    BY <1>12 DEF ClickConfirm
  <2>2. r \in Requests \ Logins
    BY DEF Request, Requests, Logins, TypeOK
  <2> HIDE DEF r
  <2>3. /\ Q => Q'
        /\ Single(requests, Logins) => Single(requests', Logins)
    BY <1>0, <2>1, <2>2, AppendFacts
  <2>4. (E' <=> E) /\ (Single(events, To(Login)) => Single(events', To(Login)))
    BY <2>1
  <2> HIDE DEF Q, E
  <2> QED BY <1>1, <2>1, <2>3, <2>4
<1>13. ClickRegist \/ Leave \/ CloseDialog \/ (\E d : Warn(d)) => Inv'
  BY <1>4 DEF ClickRegist, Leave, CloseDialog, Warn, history
<1> HIDE DEF Inv
<1>14. modals # <<>> /\ ~IsBox(Top) => Top.of \in Dialog
  BY TopTypes
<1>15. ASSUME Input PROVE Inv'
  BY <1>10, <1>11, <1>12, <1>13, <1>14, <1>15 DEF Input, Name
<1> QED BY <1>2, <1>5, <1>6, <1>7, <1>8, <1>9, <1>15 DEF Next

\* There are two main windows only if login was clicked while it waited for an
\* answer.
THEOREM OneWindow == Spec => []OneMainWindow
<1>1. Init => LoginInv
  BY DEF Init, LoginInv, AtMostOne, Single, Without
<1>2. TypeOK /\ LoginInv => OneMainWindow
  BY DEF LoginInv, OneMainWindow, TypeOK
<1> QED BY <1>1, <1>2, LoginStep, TypeCorrect, PTL DEF Spec

-----------------------------------------------------------------------------
(* Dialogs, events and boxes that belong together *)

BoxesOf(d) == {m \in Modals : m.of = d /\ IsBox(m)}

\* A dialog that has not been made gets nothing and shows nothing; the answer to
\* a registration goes to a registration dialog, which is there as long as it
\* shows the answer.
KindInv ==
  /\ \A d \in All("none") : Without(events, To(d)) /\ Without(modals, BoxesOf(d))
  /\ \A i \in DOMAIN events :
       events[i].slot = "receiveData_Register"
         => class[events[i].to] \in {"regist", "gone"}
  /\ process = "up" => \A i \in DOMAIN modals :
       modals[i].text = "registered" => class[modals[i].of] = "regist"

\* What becomes of the windows when e is delivered.
Shown(e) ==
  \/ modals' = modals /\ class' = class /\ process' = process
  \/ /\ class' = class /\ process' = process
     /\ \E m \in Modals :
          /\ modals' = Append(modals, m) /\ IsBox(m) /\ m.of = e.to
          /\ m.of # Login => m.of \in Dialog /\ class[m.of] # "gone"
          /\ m.text = "registered" => e.slot = "receiveData_Register" /\ e.ok
  \/ /\ e.to \in Dialog /\ class[e.to] # "gone"
     /\ class' = [class EXCEPT ![e.to] = "gone"]
     /\ \/ /\ process' = "undefined" /\ modals' = modals
           /\ ~Without(modals, BoxesOf(e.to))
        \/ /\ process' = process /\ Without(modals, BoxesOf(e.to))
           /\ \/ modals' = modals
              \/ \E j \in DOMAIN modals : modals' = RemoveAt(modals, j)

LEMMA DeliverShows ==
  ASSUME TypeOK, NEW i \in DOMAIN events, events[i] \in Events, Delivered(i)
  PROVE  Shown(events[i])
<1> DEFINE e == events[i]
<1>1. /\ e.to \in Dialog \/ e.to = Login
      /\ e.slot \in {"receiveData_Register", "receiveDate_Register1", "deleteLater"}
           => e.to \in Dialog
      /\ e.slot = "receiveData_Login" => e.to = Login
      /\ Login \notin Dialog
  BY DialogsAssumption DEF Events, Dialog, Login
<1>2. Delivered(i) <=>
        IF e.to # Login /\ class[e.to] = "gone"
        THEN UNCHANGED <<process, class, atLogin, windows, modals>>
        ELSE \/ e.slot = "receiveData_Register" /\ ReceiveRegister(e.to, e.ok)
             \/ e.slot = "receiveDate_Register1" /\ ReceiveExtra(e.to, e.ok)
             \/ e.slot = "receiveData_Login" /\ ReceiveLogin(e.ok)
             \/ e.slot = "deleteLater" /\ Destroy(e.to)
  BY DEF Delivered
<1> HIDE DEF e
<1>3. ASSUME UNCHANGED <<process, class, atLogin, windows, modals>>
      PROVE  Shown(e)
  BY <1>3 DEF Shown
<1>4. ASSUME e.slot = "receiveData_Register", ReceiveRegister(e.to, e.ok),
             ~(e.to # Login /\ class[e.to] = "gone")
      PROVE  Shown(e)
  <2> DEFINE m == Modal(e.to, IF e.ok THEN "registered" ELSE "taken")
  <2>1. modals' = Append(modals, m) /\ class' = class /\ process' = process
    BY <1>4 DEF ReceiveRegister, Show
  <2>2. m \in Modals /\ IsBox(m) /\ m.of = e.to
    BY <1>1, <1>4 DEF Modal, Modals, IsBox
  <2>3. m.text = "registered" => e.ok
    BY DEF Modal
  <2> HIDE DEF m
  <2> QED BY <1>1, <1>4, <2>1, <2>2, <2>3 DEF Shown
<1>5. ASSUME e.slot = "receiveDate_Register1" /\ ReceiveExtra(e.to, e.ok),
             ~(e.to # Login /\ class[e.to] = "gone")
      PROVE  Shown(e)
  <2> DEFINE m == Modal(e.to, IF e.ok THEN "submitted" ELSE "refused")
  <2>1. modals' = Append(modals, m) /\ class' = class /\ process' = process
    BY <1>5 DEF ReceiveExtra, Show
  <2>2. m \in Modals /\ IsBox(m) /\ m.of = e.to
    BY <1>1, <1>5 DEF Modal, Modals, IsBox
  <2>3. m.text # "registered"
    BY DEF Modal
  <2> HIDE DEF m
  <2> QED BY <1>1, <1>5, <2>1, <2>2, <2>3 DEF Shown
<1>6. ASSUME e.slot = "receiveData_Login", ReceiveLogin(e.ok)
      PROVE  Shown(e)
  <2> DEFINE m == Modal(Login, "wrong")
  <2>1. class' = class /\ process' = process
    BY <1>6 DEF ReceiveLogin
  <2>2. modals' = modals \/ modals' = Append(modals, m)
    BY <1>6 DEF ReceiveLogin, Show
  <2>3. m \in Modals /\ IsBox(m) /\ m.of = e.to /\ m.of = Login
        /\ m.text # "registered"
    BY <1>1, <1>6 DEF Modal, Modals, IsBox
  <2> HIDE DEF m
  <2> QED BY <2>1, <2>2, <2>3 DEF Shown
<1>7. ASSUME e.slot = "deleteLater" /\ Destroy(e.to),
             ~(e.to # Login /\ class[e.to] = "gone")
      PROVE  Shown(e)
  <2>1. e.to \in Dialog /\ class[e.to] # "gone"
    BY <1>1, <1>7
  <2>2. class' = [class EXCEPT ![e.to] = "gone"]
    BY <1>7 DEF Destroy
  <2>3. Without(modals, BoxesOf(e.to)) <=>
          ~\E j \in DOMAIN modals : modals[j].of = e.to /\ IsBox(modals[j])
    BY DEF Without, BoxesOf, TypeOK
  <2>4. CASE \E j \in DOMAIN modals : modals[j].of = e.to /\ IsBox(modals[j])
    BY <1>7, <2>1, <2>2, <2>3, <2>4 DEF Destroy, Shown
  <2>5. CASE ~\E j \in DOMAIN modals : modals[j].of = e.to /\ IsBox(modals[j])
    BY <1>7, <2>1, <2>2, <2>3, <2>5 DEF Destroy, Shown
  <2> QED BY <2>4, <2>5
<1> QED BY <1>2, <1>3, <1>4, <1>5, <1>6, <1>7 DEF e

LEMMA CloseBoxShows ==
  ASSUME TypeOK, CloseBox
  PROVE  /\ process = "up" /\ modals # <<>> /\ IsBox(Top)
         /\ process' = process /\ requests' = requests /\ accepted' = accepted
         /\ hasty' = hasty /\ strayed' = strayed
         /\ \/ /\ modals' = Front(modals) /\ class' = class /\ user' = user
            \/ /\ Top.text = "registered" /\ Top.of \in Dialog
               /\ \E e \in All("none") :
                    /\ class' = [class EXCEPT ![e] = "regist2"]
                    /\ user' = [user EXCEPT ![e] = user[Top.of]]
                    /\ modals' = Append(Front(modals), Window(e))
                    /\ Window(e) \in Modals
<1>1. /\ process = "up" /\ modals # <<>> /\ IsBox(Top)
      /\ process' = process /\ requests' = requests /\ accepted' = accepted
      /\ hasty' = hasty /\ strayed' = strayed
  BY DEF CloseBox, server
<1>2. CASE Top.text = "registered" /\ MakeRegist2(Top.of)
  <2>1. Top.of \in Dialog
    BY <1>1, <1>2, TopTypes
  <2>2. \A e \in Dialog : Window(e) \in Modals
    BY DEF Window, Modal, Modals
  <2> QED BY <1>1, <1>2, <2>1, <2>2 DEF MakeRegist2, NextNumber, All
<1>3. CASE modals' = Front(modals) /\ class' = class /\ user' = user
  BY <1>1, <1>3
<1> QED BY <1>2, <1>3 DEF CloseBox, dialogs

LEMMA KindStep == TypeOK /\ KindInv /\ [Next]_vars => KindInv'
<1> SUFFICES ASSUME TypeOK, KindInv, [Next]_vars PROVE KindInv'
  OBVIOUS
<1>0. events \in Seq(Events) /\ modals \in Seq(Modals)
      /\ class \in [Dialog -> {"none", "regist", "regist2", "gone"}]
  BY DEF TypeOK
<1> DEFINE K1 == \A d \in All("none") : /\ Without(events, To(d))
                                        /\ Without(modals, BoxesOf(d))
           K2 == \A i \in DOMAIN events :
                   events[i].slot = "receiveData_Register"
                     => class[events[i].to] \in {"regist", "gone"}
           K3 == process = "up" => \A i \in DOMAIN modals :
                   modals[i].text = "registered" => class[modals[i].of] = "regist"
<1>1. K1 /\ K2 /\ K3
  BY DEF KindInv
<1>2. K1' /\ K2' /\ K3' => KindInv'
  BY DEF KindInv
<1>3. ASSUME events' = events, modals' = modals, class' = class,
             process' = "up" => process = "up"
      PROVE  K1' /\ K2' /\ K3'
  BY <1>1, <1>3 DEF All
<1>4. ASSUME NEW m \in Modals, modals' = Append(modals, m), class' = class,
             events' = events, process' = process,
             m.text # "registered", m.of \in All("none") => ~IsBox(m)
      PROVE  K1' /\ K2' /\ K3'
  <2>1. \A d \in All("none") : m \notin BoxesOf(d)
    BY <1>4 DEF BoxesOf
  <2>2. K1'
    BY <1>0, <1>1, <1>4, <2>1, AppendFacts DEF All
  <2>3. K3'
    BY <1>0, <1>1, <1>4
  <2> QED BY <1>1, <1>4, <2>2, <2>3
<1>5. ASSUME Answer PROVE K1' /\ K2' /\ K3'
  <2>1. class' = class /\ modals' = modals /\ process' = process
    BY <1>5 DEF Answer, dialogs
  <2>2. PICK n \in Seq(Events) : AnswerPosted(n)
    BY <1>5, AnswerPosts
  <2>3. K1'
    <3> SUFFICES ASSUME NEW d \in All("none") PROVE Without(events', To(d))
      BY <1>1, <2>1 DEF All
    <3>1. ~Answers(Head(requests), d)
      BY DialogsAssumption DEF Answers, All, Dialog, Login
    <3> QED BY <1>0, <1>1, <2>2, <3>1, ConcatFacts DEF AnswerPosted
  <2>4. K2'
    <3> SUFFICES ASSUME NEW i \in DOMAIN events',
                        events'[i].slot = "receiveData_Register"
                 PROVE  class[events'[i].to] \in {"regist", "gone"}
      BY <2>1
    <3>1. \/ i \in DOMAIN events /\ events'[i] = events[i]
          \/ \E k \in DOMAIN n : events'[i] = n[k]
      <4>1. events' = events \o n /\ Len(events) \in Nat /\ Len(n) \in Nat
            /\ DOMAIN events = 1 .. Len(events) /\ DOMAIN n = 1 .. Len(n)
        BY <1>0, <2>2 DEF AnswerPosted
      <4>2. /\ DOMAIN (events \o n) = 1 .. Len(events) + Len(n)
            /\ \A k \in 1 .. Len(events) + Len(n) :
                 (events \o n)[k] = IF k <= Len(events) THEN events[k]
                                    ELSE n[k - Len(events)]
        BY <1>0, ConcatProperties
      <4>3. i \in 1 .. Len(events) + Len(n)
        BY <4>1, <4>2
      <4>4. CASE i <= Len(events)
        BY <4>1, <4>2, <4>3, <4>4
      <4>5. CASE ~(i <= Len(events))
        <5>1. i - Len(events) \in DOMAIN n
          BY <4>1, <4>3, <4>5
        <5> QED BY <4>1, <4>2, <4>3, <4>5, <5>1
      <4> QED BY <4>4, <4>5
    <3> QED BY <1>1, <2>2, <3>1 DEF AnswerPosted, All
  <2> QED BY <1>1, <2>1, <2>3, <2>4
<1>6. ASSUME Deliver PROVE K1' /\ K2' /\ K3'
  <2> PICK i \in DOMAIN events :
        /\ Delivered(i) /\ events[i] \in Events
        /\ events' \in Seq(Events) /\ LeftOver(events', events, i)
    BY <1>6, DeliverTakes
  <2> DEFINE e == events[i]
  <2>1. Shown(e) /\ process = "up"
    BY <1>6, DeliverShows, DeliverTakes
  <2>2. \A d \in All("none") : e.to # d /\ Without(events', To(d))
    <3> TAKE d \in All("none")
    <3>1. Without(events, To(d))
      BY <1>1
    <3> QED BY <3>1, LeftOverFacts DEF Without, To
  <2>3. \A j \in DOMAIN events' : \E k \in DOMAIN events : events'[j] = events[k]
    BY DEF LeftOver
  <2>4. e.slot = "receiveData_Register" => class[e.to] \in {"regist", "gone"}
    BY <1>1
  <2> HIDE DEF e
  <2>5. CASE modals' = modals /\ class' = class /\ process' = process
    BY <1>1, <2>2, <2>3, <2>5 DEF All
  <2>6. CASE /\ class' = class /\ process' = process
             /\ \E m \in Modals :
                  /\ modals' = Append(modals, m) /\ IsBox(m) /\ m.of = e.to
                  /\ m.of # Login => m.of \in Dialog /\ class[m.of] # "gone"
                  /\ m.text = "registered"
                       => e.slot = "receiveData_Register" /\ e.ok
    <3> PICK m \in Modals :
          /\ modals' = Append(modals, m) /\ IsBox(m) /\ m.of = e.to
          /\ m.of # Login => m.of \in Dialog /\ class[m.of] # "gone"
          /\ m.text = "registered" => e.slot = "receiveData_Register" /\ e.ok
      BY <2>6
    <3>1. \A d \in All("none") : m \notin BoxesOf(d)
      BY <2>2 DEF BoxesOf
    <3>2. K1'
      BY <1>0, <1>1, <2>2, <2>6, <3>1, AppendFacts DEF All
    <3>3. m.text = "registered" => class[m.of] = "regist"
      <4>1. m.text = "registered" => m.of # Login
        BY DialogsAssumption DEF Modals, Dialog, Login
      <4> QED BY <2>4, <4>1
    <3>4. K3'
      <4> SUFFICES ASSUME NEW j \in DOMAIN modals', modals'[j].text = "registered"
                   PROVE  class[modals'[j].of] = "regist"
        BY <2>6
      <4>1. \/ modals'[j] = m
            \/ j \in DOMAIN modals /\ modals'[j] = modals[j]
        BY <1>0, AppendProperties
      <4> QED BY <1>1, <2>1, <3>3, <4>1
    <3> QED BY <1>1, <2>3, <2>6, <3>2, <3>4
  <2>7. CASE /\ e.to \in Dialog /\ class[e.to] # "gone"
             /\ class' = [class EXCEPT ![e.to] = "gone"]
             /\ \/ /\ process' = "undefined" /\ modals' = modals
                   /\ ~Without(modals, BoxesOf(e.to))
                \/ /\ process' = process /\ Without(modals, BoxesOf(e.to))
                   /\ \/ modals' = modals
                      \/ \E j \in DOMAIN modals : modals' = RemoveAt(modals, j)
    <3>1. \A d \in Dialog : class'[d] = IF d = e.to THEN "gone" ELSE class[d]
      BY <1>0, <2>7
    <3>2. All("none")' \subseteq All("none")
      BY <3>1 DEF All
    <3>3. \A X : Without(modals, X) => Without(modals', X)
      BY <1>0, <2>7, RemoveLeft, LeftOverFacts
    <3>4. K1'
      BY <1>1, <2>2, <3>2, <3>3
    <3>5. K2'
      <4>1. \A k \in DOMAIN events :
              events[k].slot = "receiveData_Register" => events[k].to \in Dialog
        BY <1>0 DEF Events
      <4> QED BY <1>1, <2>3, <3>1, <4>1
    <3>6. K3'
      <4> SUFFICES ASSUME process' = "up", NEW j \in DOMAIN modals',
                          modals'[j].text = "registered"
                   PROVE  class'[modals'[j].of] = "regist"
        OBVIOUS
      <4>1. /\ Without(modals, BoxesOf(e.to))
            /\ \/ modals' = modals
               \/ \E k \in DOMAIN modals : modals' = RemoveAt(modals, k)
        BY <2>7
      <4>2. PICK k \in DOMAIN modals : modals'[j] = modals[k]
        BY <1>0, <4>1, RemoveLeft DEF LeftOver
      <4>3. modals[k].of \in Dialog /\ modals[k] \in Modals /\ IsBox(modals[k])
        BY <1>0, <4>2 DEF Modals, IsBox
      <4>4. modals[k].of # e.to
        BY <4>1, <4>3 DEF Without, BoxesOf
      <4> QED BY <1>1, <2>1, <3>1, <4>2, <4>3, <4>4
    <3> QED BY <3>4, <3>5, <3>6
  <2> QED BY <2>1, <2>5, <2>6, <2>7 DEF Shown
<1>7. ASSUME CloseBox PROVE K1' /\ K2' /\ K3'
  <2>1. /\ process = "up" /\ process' = process /\ modals # <<>> /\ IsBox(Top)
        /\ \/ modals' = Front(modals) /\ class' = class
           \/ /\ Top.text = "registered"
              /\ \E e \in All("none") :
                   /\ class' = [class EXCEPT ![e] = "regist2"]
                   /\ modals' = Append(Front(modals), Window(e))
                   /\ Window(e) \in Modals
    BY <1>7, CloseBoxShows
  <2>2. /\ Front(modals) \in Seq(Modals) /\ Top = modals[Len(modals)]
        /\ Len(modals) \in DOMAIN modals /\ Top \in Modals
        /\ LeftOver(Front(modals), modals, Len(modals))
    BY <1>0, <2>1, FrontLeft DEF Top
  <2>3. \A X : Without(modals, X) => Without(Front(modals), X)
    BY <2>2, LeftOverFacts
  <2>4. \A j \in DOMAIN Front(modals) :
          \E k \in DOMAIN modals : Front(modals)[j] = modals[k]
    BY <2>2 DEF LeftOver
  <2>5. Top.of \notin All("none")
    BY <1>1, <2>1, <2>2 DEF Without, BoxesOf
  <2>6. /\ \A d \in All("none") : Without(events', To(d))
        /\ \A j \in DOMAIN events' :
             \/ \E k \in DOMAIN events : events'[j] = events[k]
             \/ events'[j].slot = "deleteLater"
    <3>1. CASE events' = events
      BY <1>1, <3>1
    <3>2. CASE \E e \in Events :
                 /\ e.to = Top.of /\ e.slot = "deleteLater"
                 /\ events' = Append(events, e)
      <4> PICK e \in Events : /\ e.to = Top.of /\ e.slot = "deleteLater"
                              /\ events' = Append(events, e)
        BY <3>2
      <4>1. \A d \in All("none") : e \notin To(d)
        BY <2>5 DEF To
      <4> QED BY <1>0, <1>1, <4>1, AppendFacts
    <3> QED BY <1>7, <3>1, <3>2, CloseBoxPosts
  <2>7. CASE modals' = Front(modals) /\ class' = class
    <3>1. K1' /\ K2' /\ K3'
      BY <1>1, <2>1, <2>3, <2>4, <2>6, <2>7 DEF All
    <3> QED BY <3>1
  <2>8. CASE \E e \in All("none") :
               /\ class' = [class EXCEPT ![e] = "regist2"]
               /\ modals' = Append(Front(modals), Window(e))
               /\ Window(e) \in Modals
    <3> PICK e \in All("none") :
          /\ class' = [class EXCEPT ![e] = "regist2"]
          /\ modals' = Append(Front(modals), Window(e))
          /\ Window(e) \in Modals
      BY <2>8
    <3>1. \A d \in Dialog : class'[d] = IF d = e THEN "regist2" ELSE class[d]
      BY <1>0
    <3>2. \A d : Window(e) \notin BoxesOf(d)
      BY DEF Window, Modal, BoxesOf, IsBox
    <3>3. All("none")' \subseteq All("none") /\ e \in Dialog /\ class[e] = "none"
      BY <3>1 DEF All
    <3>4. K1'
      BY <1>1, <2>2, <2>3, <2>6, <3>2, <3>3, AppendFacts
    <3>5. K2'
      <4> SUFFICES ASSUME NEW j \in DOMAIN events',
                          events'[j].slot = "receiveData_Register"
                   PROVE  class'[events'[j].to] \in {"regist", "gone"}
        OBVIOUS
      <4>1. PICK k \in DOMAIN events : events'[j] = events[k]
        BY <2>6
      <4>2. events[k].to \in Dialog
        BY <1>0, <4>1 DEF Events
      <4> QED BY <1>1, <3>1, <3>3, <4>1, <4>2
    <3>6. K3'
      <4> SUFFICES ASSUME NEW j \in DOMAIN modals',
                          modals'[j].text = "registered"
                   PROVE  class'[modals'[j].of] = "regist"
        OBVIOUS
      <4>1. modals'[j] # Window(e)
        BY DEF Window, Modal
      <4>2. PICK k \in DOMAIN modals : modals'[j] = modals[k]
        BY <2>2, <2>4, <4>1, AppendProperties
      <4>3. modals[k].of \in Dialog
        BY <1>0, <4>2 DEF Modals
      <4> QED BY <1>1, <2>1, <3>1, <3>3, <4>2, <4>3
    <3> QED BY <3>4, <3>5, <3>6
  <2> QED BY <2>1, <2>7, <2>8
<1>8. ASSUME ClickRegist PROVE K1' /\ K2' /\ K3'
  <2> PICK d \in Dialog : /\ NextNumber(d)
                          /\ class' = [class EXCEPT ![d] = "regist"]
                          /\ Show(Window(d))
    BY <1>8 DEF ClickRegist
  <2>1. events' = events /\ process' = process /\ modals' = Append(modals, Window(d))
    BY <1>8 DEF ClickRegist, Show
  <2>2. \A c \in Dialog : class'[c] = IF c = d THEN "regist" ELSE class[c]
    BY <1>0
  <2>3. Window(d) \in Modals /\ \A c : Window(d) \notin BoxesOf(c)
    BY DEF Window, Modal, Modals, BoxesOf, IsBox
  <2>4. All("none")' \subseteq All("none") /\ class[d] = "none"
    BY <2>2 DEF All, NextNumber
  <2>5. K1'
    BY <1>0, <1>1, <2>1, <2>3, <2>4, AppendFacts
  <2>6. K2'
    <3>1. \A i \in DOMAIN events :
            events[i].slot = "receiveData_Register" => events[i].to \in Dialog
      BY <1>0 DEF Events
    <3> QED BY <1>1, <2>1, <2>2, <2>4, <3>1
  <2>7. K3'
    <3> SUFFICES ASSUME process = "up", NEW j \in DOMAIN modals',
                        modals'[j].text = "registered"
                 PROVE  class'[modals'[j].of] = "regist"
      BY <2>1
    <3>1. modals'[j] # Window(d)
      BY DEF Window, Modal
    <3>2. j \in DOMAIN modals /\ modals'[j] = modals[j]
      BY <1>0, <2>1, <3>1, AppendProperties
    <3>3. modals[j].of \in Dialog
      BY <1>0, <3>2 DEF Modals
    <3> QED BY <1>1, <2>2, <2>4, <3>2, <3>3
  <2> QED BY <2>5, <2>6, <2>7
<1>9. ASSUME NEW d \in {Login} \cup All("regist"), Warn(d) PROVE K1' /\ K2' /\ K3'
  <2> DEFINE m == Modal(d, "warning")
  <2>1. /\ modals' = Append(modals, m) /\ events' = events /\ class' = class
        /\ process' = process
    BY <1>9 DEF Warn, Show, dialogs
  <2>2. m \in Modals /\ m.text # "registered" /\ m.of \notin All("none")
    BY DialogsAssumption DEF Modal, Modals, All, Dialog, Login
  <2> HIDE DEF m
  <2> QED BY <1>4, <2>1, <2>2
<1>10. ASSUME modals # <<>>, CloseDialog PROVE K1' /\ K2' /\ K3'
  <2>1. /\ modals' = Front(modals) /\ events' = events /\ class' = class
        /\ process' = process
    BY <1>10 DEF CloseDialog, dialogs
  <2>2. LeftOver(Front(modals), modals, Len(modals)) /\ Len(modals) \in DOMAIN modals
    BY <1>0, <1>10, FrontLeft
  <2>3. \A X : Without(modals, X) => Without(Front(modals), X)
    BY <2>2, LeftOverFacts
  <2>4. \A j \in DOMAIN Front(modals) :
          \E k \in DOMAIN modals : Front(modals)[j] = modals[k]
    BY <2>2 DEF LeftOver
  <2> QED BY <1>1, <2>1, <2>3, <2>4 DEF All
<1>11. ASSUME \/ \E u \in Name : ClickLogin(u)
              \/ Leave
              \/ \E d, u : ClickNext(d, u)
              \/ \E d : ClickConfirm(d)
       PROVE  K1' /\ K2' /\ K3'
  BY <1>3, <1>11 DEF ClickLogin, Leave, ClickNext, ClickConfirm, dialogs
<1>12. ASSUME Others \/ UNCHANGED vars PROVE K1' /\ K2' /\ K3'
  BY <1>3, <1>12 DEF Others, vars, dialogs
<1> HIDE DEF K1, K2, K3
<1>13. ASSUME Input PROVE K1' /\ K2' /\ K3'
  <2>1. modals # <<>> /\ ~IsBox(Top) /\ class[Top.of] = "regist"
          => Top.of \in All("regist")
    BY TopTypes DEF All
  <2> QED BY <1>8, <1>9, <1>10, <1>11, <1>13, <2>1 DEF Input, Name
<1> QED BY <1>2, <1>5, <1>6, <1>7, <1>12, <1>13 DEF Next

-----------------------------------------------------------------------------
(* One request, answer or box of a dialog *)

\* The boxes of dialog d that show an answer.
AnswersOf(d) == {m \in Modals : m.of = d /\ m.text \notin {"window", "warning"}}

\* The answer to the only request is the only event.
LEMMA OneAnswer ==
  ASSUME TypeOK, Answer, NEW asks, NEW d, NEW boxes,
         AtMostOne(asks, To(d), boxes),
         Answers(Head(requests), d) => Head(requests) \in asks
  PROVE  AtMostOne(asks, To(d), boxes)'
<1> DEFINE r  == Head(requests)
           Q  == Without(requests, asks)
           SQ == Single(requests, asks)
           E  == Without(events, To(d))
           SE == Single(events, To(d))
           M  == Without(modals, boxes)
           SM == Single(modals, boxes)
           A  == AtMostOne(asks, To(d), boxes)
<1>0. requests \in Seq(Requests) /\ events \in Seq(Events)
  BY DEF TypeOK
<1>1. requests # <<>> /\ requests' = Tail(requests) /\ modals' = modals
  BY DEF Answer
<1>2. 1 \in DOMAIN requests /\ r = requests[1] /\ LeftOver(requests', requests, 1)
  BY <1>0, <1>1, TailLeft
<1>3. (Q => Q' /\ r \notin asks) /\ (SQ => SQ') /\ (SQ /\ r \in asks => Q')
  <2>1. Q => r \notin asks
    BY <1>2 DEF Without
  <2> QED BY <1>2, <2>1, LeftOverFacts
<1>4. PICK n \in Seq(Events) : AnswerPosted(n)
  BY AnswerPosts
<1>5. /\ events' = events \o n /\ Single(n, To(d))
      /\ r \notin asks => Without(n, To(d))
  BY <1>4 DEF AnswerPosted
<1>6. /\ E /\ Without(n, To(d)) => E'
      /\ SE /\ Without(n, To(d)) => SE'
      /\ E => SE'
  BY <1>0, <1>5, ConcatFacts
<1>7. (M' <=> M) /\ (SM' <=> SM)
  BY <1>1
<1>8. /\ SQ /\ SE /\ SM /\ ((Q /\ E) \/ (Q /\ M) \/ (E /\ M))
      /\ SQ' /\ SE' /\ SM' /\ ((Q' /\ E') \/ (Q' /\ M') \/ (E' /\ M')) => A'
  <2>1. SQ /\ SE /\ SM /\ ((Q /\ E) \/ (Q /\ M) \/ (E /\ M))
    BY Zenon DEF AtMostOne
  <2>2. SQ' /\ SE' /\ SM' /\ ((Q' /\ E') \/ (Q' /\ M') \/ (E' /\ M')) => A'
    BY Zenon DEF AtMostOne
  <2> QED BY <2>1, <2>2
<1> HIDE DEF r, Q, SQ, E, SE, M, SM, A
<1>9. A'
  BY <1>3, <1>5, <1>6, <1>7, <1>8
<1> QED BY <1>9 DEF A

\* A box for the only event is the only box.
LEMMA OneDeliver ==
  ASSUME TypeOK, Deliver, NEW asks, NEW d, NEW boxes, boxes \subseteq BoxesOf(d),
         AtMostOne(asks, To(d), boxes)
  PROVE  AtMostOne(asks, To(d), boxes)'
<1> DEFINE Q  == Without(requests, asks)
           SQ == Single(requests, asks)
           E  == Without(events, To(d))
           SE == Single(events, To(d))
           M  == Without(modals, boxes)
           SM == Single(modals, boxes)
           A  == AtMostOne(asks, To(d), boxes)
<1>0. modals \in Seq(Modals)
  BY DEF TypeOK
<1> PICK i \in DOMAIN events :
      /\ Delivered(i) /\ events[i] \in Events
      /\ events' \in Seq(Events) /\ LeftOver(events', events, i)
  BY DeliverTakes
<1> DEFINE e == events[i]
<1>1. (Q' <=> Q) /\ (SQ' <=> SQ)
  BY DeliverTakes
<1>2. (E => E' /\ e \notin To(d)) /\ (SE => SE') /\ (SE /\ e \in To(d) => E')
  <2>1. E => e \notin To(d)
    BY DEF Without
  <2> QED BY <2>1, LeftOverFacts
<1>3. \/ (M => M') /\ (SM => SM')
      \/ e \in To(d) /\ (M => SM')
  <2>1. Shown(e)
    BY DeliverShows
  <2>2. CASE modals' = modals
    BY <2>2
  <2>3. CASE \E m \in Modals : modals' = Append(modals, m) /\ m.of = e.to
    <3> PICK m \in Modals : modals' = Append(modals, m) /\ m.of = e.to
      BY <2>3
    <3>1. m \in boxes => e \in To(d)
      BY DEF BoxesOf, To
    <3> QED BY <1>0, <3>1, AppendFacts
  <2>4. CASE \E j \in DOMAIN modals : modals' = RemoveAt(modals, j)
    BY <1>0, <2>4, RemoveLeft, LeftOverFacts
  <2>5. \/ modals' = modals
        \/ \E m \in Modals : modals' = Append(modals, m) /\ m.of = e.to
        \/ \E j \in DOMAIN modals : modals' = RemoveAt(modals, j)
    <3> HIDE DEF e
    <3> QED BY <2>1 DEF Shown
  <2> QED BY <2>2, <2>3, <2>4, <2>5
<1>4. /\ SQ /\ SE /\ SM /\ ((Q /\ E) \/ (Q /\ M) \/ (E /\ M))
      /\ SQ' /\ SE' /\ SM' /\ ((Q' /\ E') \/ (Q' /\ M') \/ (E' /\ M')) => A'
  <2>1. SQ /\ SE /\ SM /\ ((Q /\ E) \/ (Q /\ M) \/ (E /\ M))
    BY Zenon DEF AtMostOne
  <2>2. SQ' /\ SE' /\ SM' /\ ((Q' /\ E') \/ (Q' /\ M') \/ (E' /\ M')) => A'
    BY Zenon DEF AtMostOne
  <2> QED BY <2>1, <2>2
<1> HIDE DEF e, Q, SQ, E, SE, M, SM, A
<1>5. A'
  BY <1>1, <1>2, <1>3, <1>4
<1> QED BY <1>5 DEF A

\* A deletion for the only box is the only event.
LEMMA OneCloseBox ==
  ASSUME TypeOK, CloseBox, NEW asks, NEW d, NEW boxes,
         AnswersOf(d) \subseteq boxes, boxes \subseteq BoxesOf(d),
         AtMostOne(asks, To(d), boxes)
  PROVE  AtMostOne(asks, To(d), boxes)'
<1> DEFINE Q  == Without(requests, asks)
           SQ == Single(requests, asks)
           E  == Without(events, To(d))
           SE == Single(events, To(d))
           M  == Without(modals, boxes)
           SM == Single(modals, boxes)
           A  == AtMostOne(asks, To(d), boxes)
           F  == Without(Front(modals), boxes)
           SF == Single(Front(modals), boxes)
           T  == Top \in boxes
<1>0. events \in Seq(Events) /\ modals \in Seq(Modals) /\ modals # <<>>
  BY CloseBoxShows DEF TypeOK
<1>1. (Q' <=> Q) /\ (SQ' <=> SQ)
  BY CloseBoxShows
<1>2. /\ Front(modals) \in Seq(Modals) /\ Top = modals[Len(modals)] /\ Top \in Modals
      /\ Len(modals) \in DOMAIN modals
      /\ LeftOver(Front(modals), modals, Len(modals))
  BY <1>0, FrontLeft DEF Top
<1>3. (M => F /\ ~T) /\ (SM => SF) /\ (SM /\ T => F)
  <2>1. M => ~T
    BY <1>2 DEF Without
  <2> QED BY <1>2, <2>1, LeftOverFacts
<1>4. (F => M') /\ (SF => SM')
  <2>1. CASE modals' = Front(modals)
    BY <2>1
  <2>2. CASE \E e \in All("none") : /\ modals' = Append(Front(modals), Window(e))
                                    /\ Window(e) \in Modals
    <3> PICK e \in All("none") : /\ modals' = Append(Front(modals), Window(e))
                                 /\ Window(e) \in Modals
      BY <2>2
    <3>1. Window(e) \notin boxes
      BY DEF Window, Modal, BoxesOf, IsBox
    <3> QED BY <1>2, <3>1, AppendFacts
  <2> QED BY <2>1, <2>2, CloseBoxShows
<1>5. \/ (E => E') /\ (SE => SE')
      \/ T /\ (E => SE')
  <2>1. CASE events' = events
    BY <2>1
  <2>2. CASE \E e \in Events :
               /\ e.to = Top.of /\ Top.text \in {"registered", "submitted"}
               /\ events' = Append(events, e)
    <3> PICK e \in Events :
          /\ e.to = Top.of /\ Top.text \in {"registered", "submitted"}
          /\ events' = Append(events, e)
      BY <2>2
    <3>1. e \in To(d) => Top \in boxes
      BY <1>2 DEF To, AnswersOf
    <3> QED BY <1>0, <3>1, AppendFacts
  <2> QED BY <2>1, <2>2, CloseBoxPosts
<1>6. /\ SQ /\ SE /\ SM /\ ((Q /\ E) \/ (Q /\ M) \/ (E /\ M))
      /\ SQ' /\ SE' /\ SM' /\ ((Q' /\ E') \/ (Q' /\ M') \/ (E' /\ M')) => A'
  <2>1. SQ /\ SE /\ SM /\ ((Q /\ E) \/ (Q /\ M) \/ (E /\ M))
    BY Zenon DEF AtMostOne
  <2>2. SQ' /\ SE' /\ SM' /\ ((Q' /\ E') \/ (Q' /\ M') \/ (E' /\ M')) => A'
    BY Zenon DEF AtMostOne
  <2> QED BY <2>1, <2>2
<1> HIDE DEF Q, SQ, E, SE, M, SM, A, F, SF, T
<1>9. A'
  BY <1>1, <1>3, <1>4, <1>5, <1>6
<1> QED BY <1>9 DEF A

\* A warning or a window, or one that goes.
LEMMA OneShown ==
  ASSUME TypeOK, NEW asks, NEW told, NEW boxes, AtMostOne(asks, told, boxes),
         requests' = requests, events' = events,
         \/ modals' = modals
         \/ modals # <<>> /\ modals' = Front(modals)
         \/ \E m \in Modals :
              /\ modals' = Append(modals, m)
              /\ \/ m \notin boxes
                 \/ /\ Without(requests, asks) /\ Without(events, told)
                    /\ Without(modals, boxes)
  PROVE  AtMostOne(asks, told, boxes)'
<1>0. modals \in Seq(Modals)
  BY DEF TypeOK
<1>1. \/ /\ Without(modals, boxes) => Without(modals', boxes)
         /\ Single(modals, boxes) => Single(modals', boxes)
      \/ /\ Without(requests, asks) /\ Without(events, told)
         /\ Single(modals', boxes)
  <2>1. CASE modals' = modals
    BY <2>1
  <2>2. CASE modals # <<>> /\ modals' = Front(modals)
    BY <1>0, <2>2, FrontLeft, LeftOverFacts
  <2>3. CASE \E m \in Modals :
              /\ modals' = Append(modals, m)
              /\ \/ m \notin boxes
                 \/ /\ Without(requests, asks) /\ Without(events, told)
                    /\ Without(modals, boxes)
    BY <1>0, <2>3, AppendFacts
  <2> QED BY <2>1, <2>2, <2>3
<1>2. /\ Without(requests', asks) <=> Without(requests, asks)
      /\ Single(requests', asks) <=> Single(requests, asks)
      /\ Without(events', told) <=> Without(events, told)
      /\ Single(events', told) <=> Single(events, told)
  OBVIOUS
<1> QED BY <1>1, <1>2 DEF AtMostOne

LEMMA OneMore ==
  ASSUME NEW S, NEW s \in Seq(S), NEW r \in S
  PROVE  /\ <<r>> \in Seq(S) /\ Append(s, r) = s \o <<r>>
         /\ \A X : Single(<<r>>, X) /\ (r \notin X => Without(<<r>>, X))
<1>1. <<r>> \in Seq(S) /\ DOMAIN <<r>> = 1 .. 1 /\ <<r>>[1] = r
  OBVIOUS
<1>2. Append(s, r) = s \o <<r>>
  OBVIOUS
<1>3. \A X : Single(<<r>>, X) /\ (r \notin X => Without(<<r>>, X))
  BY <1>1 DEF Single, Without
<1> QED BY <1>1, <1>2, <1>3

\* New requests, none of which asks, or one when nothing has been asked.
LEMMA OneAsked ==
  ASSUME TypeOK, NEW asks, NEW told, NEW boxes, AtMostOne(asks, told, boxes),
         events' = events, modals' = modals,
         NEW n \in Seq(Requests), requests' = requests \o n,
         \/ Without(n, asks)
         \/ /\ Single(n, asks) /\ Without(requests, asks)
            /\ Without(events, told) /\ Without(modals, boxes)
  PROVE  AtMostOne(asks, told, boxes)'
<1>0. requests \in Seq(Requests)
  BY DEF TypeOK
<1>1. \/ /\ Without(requests, asks) => Without(requests', asks)
         /\ Single(requests, asks) => Single(requests', asks)
      \/ /\ Single(requests', asks)
         /\ Without(events, told) /\ Without(modals, boxes)
  BY <1>0, ConcatFacts
<1>2. /\ Without(modals', boxes) <=> Without(modals, boxes)
      /\ Single(modals', boxes) <=> Single(modals, boxes)
      /\ Without(events', told) <=> Without(events, told)
      /\ Single(events', told) <=> Single(events, told)
  OBVIOUS
<1> QED BY <1>1, <1>2 DEF AtMostOne

-----------------------------------------------------------------------------
(* A program that ends in undefined behaviour *)

\* Between two profiles on their way there is a registration.
Separated(s) ==
  \A i, j \in DOMAIN s :
    i < j /\ s[i] \in Profiles /\ s[j] \in Profiles
      => \E k \in i .. j : s[k] \in Registrations

LEMMA SeparatedTail ==
  ASSUME NEW s \in Seq(Requests), s # <<>>, Separated(s)
  PROVE  Separated(Tail(s))
<1> DEFINE n == Len(s)
           t == Tail(s)
<1>1. /\ n \in Nat /\ DOMAIN s = 1 .. n /\ DOMAIN t = 1 .. n - 1
      /\ \A k \in 1 .. n - 1 : t[k] = s[k + 1]
  OBVIOUS
<1> HIDE DEF n, t
<1> SUFFICES ASSUME NEW i \in 1 .. n - 1, NEW j \in 1 .. n - 1,
                    i < j, t[i] \in Profiles, t[j] \in Profiles
             PROVE  \E k \in i .. j : t[k] \in Registrations
  BY <1>1 DEF Separated, t
<1>2. /\ i + 1 \in DOMAIN s /\ j + 1 \in DOMAIN s /\ i + 1 < j + 1
      /\ s[i + 1] \in Profiles /\ s[j + 1] \in Profiles
  BY <1>1
<1>3. PICK k \in i + 1 .. j + 1 : s[k] \in Registrations
  BY <1>2 DEF Separated
<1>4. k - 1 \in i .. j /\ k - 1 \in 1 .. n - 1 /\ t[k - 1] = s[k]
  BY <1>1, <1>3
<1> QED BY <1>3, <1>4

LEMMA SeparatedAppend ==
  ASSUME NEW s \in Seq(Requests), NEW r \in Requests,
         \/ Separated(s) /\ r \notin Profiles
         \/ Without(s, Profiles)
  PROVE  Separated(Append(s, r))
<1> DEFINE n == Len(s)
           t == Append(s, r)
<1>1. /\ n \in Nat /\ DOMAIN s = 1 .. n /\ DOMAIN t = 1 .. n + 1
      /\ t[n + 1] = r /\ \A k \in 1 .. n : t[k] = s[k]
  OBVIOUS
<1> HIDE DEF n, t
<1> SUFFICES ASSUME NEW i \in 1 .. n + 1, NEW j \in 1 .. n + 1,
                    i < j, t[i] \in Profiles, t[j] \in Profiles
             PROVE  \E k \in i .. j : t[k] \in Registrations
  BY <1>1 DEF Separated, t
<1>2. i \in 1 .. n /\ s[i] \in Profiles
  BY <1>1
<1>3. Separated(s) /\ r \notin Profiles
  BY <1>1, <1>2 DEF Without
<1>4. j \in 1 .. n /\ s[j] \in Profiles
  BY <1>1, <1>3
<1>5. PICK k \in i .. j : s[k] \in Registrations
  BY <1>1, <1>2, <1>3, <1>4 DEF Separated
<1>6. t[k] = s[k]
  BY <1>1, <1>2, <1>4
<1> QED BY <1>5, <1>6

\* A registration with its profile follows.
LEMMA SeparatedPair ==
  ASSUME NEW s \in Seq(Requests), Separated(s),
         NEW a \in Registrations, NEW b \in Profiles
  PROVE  Separated(s \o <<a, b>>)
<1> DEFINE n == Len(s)
           t == s \o <<a, b>>
<1>1. /\ n \in Nat /\ DOMAIN s = 1 .. n /\ DOMAIN t = 1 .. n + 2
      /\ t[n + 1] = a /\ t[n + 2] = b /\ \A k \in 1 .. n : t[k] = s[k]
  BY DEF Registrations, Profiles
<1>2. a \notin Profiles
  BY DEF Registrations, Profiles
<1> HIDE DEF n, t
<1> SUFFICES ASSUME NEW i \in 1 .. n + 2, NEW j \in 1 .. n + 2,
                    i < j, t[i] \in Profiles, t[j] \in Profiles
             PROVE  \E k \in i .. j : t[k] \in Registrations
  BY <1>1 DEF Separated, t
<1>3. CASE j = n + 2
  <2>1. n + 1 \in i .. j
    BY <1>1, <1>3
  <2> QED BY <1>1, <2>1
<1>4. CASE j # n + 2
  <2>1. i \in 1 .. n /\ j \in 1 .. n /\ s[i] \in Profiles /\ s[j] \in Profiles
    BY <1>1, <1>2, <1>4
  <2>2. PICK k \in i .. j : s[k] \in Registrations
    BY <1>1, <2>1 DEF Separated
  <2>3. t[k] = s[k]
    BY <1>1, <2>1
  <2> QED BY <2>2, <2>3
<1> QED BY <1>3, <1>4

LEMMA SeparatedSingle ==
  ASSUME NEW s \in Seq(Requests), Separated(s), Without(s, Registrations)
  PROVE  Single(s, Profiles)
<1> SUFFICES ASSUME NEW i \in DOMAIN s, NEW j \in DOMAIN s,
                    s[i] \in Profiles, s[j] \in Profiles, i < j
             PROVE  FALSE
  <2>1. DOMAIN s = 1 .. Len(s) /\ Len(s) \in Nat
    OBVIOUS
  <2> QED BY <2>1 DEF Single
<1>1. PICK k \in i .. j : s[k] \in Registrations
  BY DEF Separated
<1>2. k \in DOMAIN s
  OBVIOUS
<1> QED BY <1>1, <1>2 DEF Without

\* As long as nobody was hasty, a dialog waits for one answer at most, so that
\* it shows no box when it is told to go.
Patient ==
  /\ process # "undefined"
  /\ Single(requests, Registrations) /\ Separated(requests)
  /\ \A d \in All("regist") : AtMostOne(Registrations, To(d), BoxesOf(d))
  /\ \A d \in All("regist2") : AtMostOne(Profiles, To(d), BoxesOf(d))

HasteInv == ~hasty => Patient

\* A dialog that does not wait for anything.
LEMMA Awaiting ==
  ASSUME TypeOK, NEW d \in Dialog, ~Awaits(d)
  PROVE  /\ d \in All("regist") => Without(requests, Registrations)
         /\ d \in All("regist2") => Without(requests, Profiles)
         /\ Without(events, To(d)) /\ Without(modals, BoxesOf(d))
BY DEF Awaits, Without, All, Registrations, Profiles, To, BoxesOf

LEMMA HasteStep ==
  TypeOK /\ KindInv /\ HasteInv /\ [Next]_vars => HasteInv'
<1> SUFFICES ASSUME TypeOK, KindInv, HasteInv, [Next]_vars, ~hasty'
             PROVE  Patient'
  BY DEF HasteInv
<1>0. /\ requests \in Seq(Requests) /\ events \in Seq(Events)
      /\ modals \in Seq(Modals)
      /\ class \in [Dialog -> {"none", "regist", "regist2", "gone"}]
  BY DEF TypeOK
<1>1. \A d : AnswersOf(d) \subseteq BoxesOf(d) /\ BoxesOf(d) \subseteq BoxesOf(d)
  BY DEF AnswersOf, BoxesOf, IsBox
<1>2. ASSUME UNCHANGED <<hasty, class, modals, requests, events>>,
             process' # "undefined" \/ process' = process
      PROVE  Patient'
  BY <1>2 DEF HasteInv, Patient, All, AtMostOne
<1>3. ASSUME Answer PROVE Patient'
  <2>1. /\ hasty' = hasty /\ class' = class /\ process' = process
        /\ requests' = Tail(requests) /\ requests # <<>>
    BY <1>3 DEF Answer, dialogs
  <2>2. Patient
    BY <2>1 DEF HasteInv
  <2>3. Single(requests', Registrations)
    BY <1>0, <2>1, <2>2, TailLeft, LeftOverFacts DEF Patient
  <2>4. Separated(requests')
    BY <1>0, <2>1, <2>2, SeparatedTail DEF Patient
  <2>5. ASSUME NEW d \in All("regist")
        PROVE  AtMostOne(Registrations, To(d), BoxesOf(d))'
    <3>1. Answers(Head(requests), d) => Head(requests) \in Registrations
      BY DialogsAssumption DEF Answers, All, Dialog, Login
    <3> QED BY <1>3, <2>2, <3>1, OneAnswer DEF Patient
  <2>6. ASSUME NEW d \in All("regist2")
        PROVE  AtMostOne(Profiles, To(d), BoxesOf(d))'
    <3>1. Answers(Head(requests), d) => Head(requests) \in Profiles
      BY DialogsAssumption DEF Answers, All, Dialog, Login
    <3> QED BY <1>3, <2>2, <3>1, OneAnswer DEF Patient
  <2> QED BY <2>1, <2>2, <2>3, <2>4, <2>5, <2>6 DEF Patient, All
<1>4. ASSUME Deliver PROVE Patient'
  <2>1. hasty' = hasty /\ requests' = requests /\ process = "up"
    BY <1>4, DeliverTakes
  <2>2. Patient
    BY <2>1 DEF HasteInv
  <2> PICK i \in DOMAIN events : Delivered(i) /\ events[i] \in Events
    BY <1>4, DeliverTakes
  <2> DEFINE e == events[i]
  <2>3. Shown(e)
    BY DeliverShows
  <2>4. e \in To(e.to)
    BY DEF To
  <2>5. e.to \in Dialog /\ class[e.to] # "gone"
          => e.to \in All("regist") \/ e.to \in All("regist2")
    <3>1. e.to \notin All("none")
      BY <2>4 DEF KindInv, Without
    <3> QED BY <1>0, <3>1 DEF All
  <2>6. e.to \in All("regist") \/ e.to \in All("regist2")
          => Without(modals, BoxesOf(e.to))
    <3>1. ~Without(events, To(e.to))
      BY <2>4 DEF Without
    <3> QED BY <2>2, <3>1 DEF Patient, AtMostOne
  <2> HIDE DEF e
  <2>7. process' # "undefined"
    BY <2>1, <2>3, <2>5, <2>6 DEF Shown
  <2>8. \/ class' = class
        \/ class' = [class EXCEPT ![e.to] = "gone"]
    BY <2>3 DEF Shown
  <2>9. \A c \in {"regist", "regist2"} : All(c)' \subseteq All(c)
    BY <1>0, <2>8 DEF All
  <2>10. ASSUME NEW d \in All("regist")
         PROVE  AtMostOne(Registrations, To(d), BoxesOf(d))'
    BY <1>1, <1>4, <2>2, OneDeliver DEF Patient
  <2>11. ASSUME NEW d \in All("regist2")
         PROVE  AtMostOne(Profiles, To(d), BoxesOf(d))'
    BY <1>1, <1>4, <2>2, OneDeliver DEF Patient
  <2>12. Single(requests', Registrations) /\ Separated(requests')
    BY <2>1, <2>2 DEF Patient
  <2> QED BY <2>7, <2>9, <2>10, <2>11, <2>12 DEF Patient
<1>5. ASSUME CloseBox PROVE Patient'
  <2>1. /\ hasty' = hasty /\ requests' = requests /\ process' = process
        /\ process = "up" /\ modals # <<>> /\ IsBox(Top)
        /\ \/ modals' = Front(modals) /\ class' = class
           \/ /\ Top.text = "registered" /\ Top.of \in Dialog
              /\ \E e \in All("none") :
                   /\ class' = [class EXCEPT ![e] = "regist2"]
                   /\ modals' = Append(Front(modals), Window(e))
                   /\ Window(e) \in Modals
    BY <1>5, CloseBoxShows
  <2>2. Patient
    BY <2>1 DEF HasteInv
  <2>3. process' # "undefined" /\ Single(requests', Registrations)
        /\ Separated(requests')
    BY <2>1, <2>2 DEF Patient
  <2>4. ASSUME NEW d \in All("regist")
        PROVE  AtMostOne(Registrations, To(d), BoxesOf(d))'
    BY <1>1, <1>5, <2>2, OneCloseBox DEF Patient
  <2>5. ASSUME NEW d \in All("regist2")
        PROVE  AtMostOne(Profiles, To(d), BoxesOf(d))'
    BY <1>1, <1>5, <2>2, OneCloseBox DEF Patient
  <2>6. CASE class' = class
    BY <2>3, <2>4, <2>5, <2>6 DEF Patient, All
  <2>7. CASE Top.text = "registered" /\ class' # class
    <3> PICK e \in All("none") : class' = [class EXCEPT ![e] = "regist2"]
      BY <2>1, <2>7
    <3>1. /\ All("regist")' \subseteq All("regist")
          /\ All("regist2")' \subseteq All("regist2") \cup {e}
      BY <1>0 DEF All
    <3>2. Top \in BoxesOf(Top.of) /\ Top.of \in All("regist")
          /\ \E k \in DOMAIN modals : modals[k] = Top
      <4>1. Top = modals[Len(modals)] /\ Len(modals) \in DOMAIN modals
            /\ Top \in Modals
        BY <1>0, <2>1, FrontLeft DEF Top
      <4> QED BY <2>1, <2>7, <4>1 DEF BoxesOf, KindInv, All
    <3>3. Without(requests, Registrations)
      <4>1. ~Without(modals, BoxesOf(Top.of))
        BY <3>2 DEF Without
      <4> QED BY <2>2, <3>2, <4>1 DEF Patient, AtMostOne
    <3>4. Single(requests, Profiles)
      BY <1>0, <2>2, <3>3, SeparatedSingle DEF Patient
    <3>5. AtMostOne(Profiles, To(e), BoxesOf(e))
      BY <3>4 DEF KindInv, AtMostOne, Without, Single
    <3>6. AtMostOne(Profiles, To(e), BoxesOf(e))'
      BY <1>1, <1>5, <3>5, OneCloseBox
    <3> QED BY <2>3, <2>4, <2>5, <3>1, <3>6 DEF Patient
  <2> QED BY <2>1, <2>6, <2>7
<1>6. ASSUME NEW u \in Name, ClickLogin(u) PROVE Patient'
  <2> DEFINE r == Request("Login_Request", u, "")
  <2>1. /\ hasty' = hasty /\ class' = class /\ process' = process
        /\ requests' = Append(requests, r) /\ events' = events /\ modals' = modals
    BY <1>6 DEF ClickLogin, dialogs
  <2>2. r \in Requests /\ r \notin Registrations /\ r \notin Profiles
    BY DEF Request, Requests, Registrations, Profiles
  <2> HIDE DEF r
  <2>3. Patient
    BY <2>1 DEF HasteInv
  <2>4. Single(requests', Registrations) /\ Separated(requests')
    BY <1>0, <2>1, <2>2, <2>3, AppendFacts, SeparatedAppend DEF Patient
  <2>5. /\ <<r>> \in Seq(Requests) /\ requests' = requests \o <<r>>
        /\ Without(<<r>>, Registrations) /\ Without(<<r>>, Profiles)
    BY <1>0, <2>1, <2>2, OneMore
  <2>6. ASSUME NEW d \in All("regist")
        PROVE  AtMostOne(Registrations, To(d), BoxesOf(d))'
    BY <2>1, <2>3, <2>5, OneAsked DEF Patient
  <2>7. ASSUME NEW d \in All("regist2")
        PROVE  AtMostOne(Profiles, To(d), BoxesOf(d))'
    BY <2>1, <2>3, <2>5, OneAsked DEF Patient
  <2> QED BY <2>1, <2>3, <2>4, <2>6, <2>7 DEF Patient, All
<1>7. ASSUME ClickRegist PROVE Patient'
  <2> PICK d \in Dialog : /\ NextNumber(d)
                          /\ class' = [class EXCEPT ![d] = "regist"]
                          /\ Show(Window(d))
    BY <1>7 DEF ClickRegist
  <2>1. /\ hasty' = hasty /\ process' = process /\ requests' = requests
        /\ events' = events /\ modals' = Append(modals, Window(d))
    BY <1>7 DEF ClickRegist, Show
  <2>2. Patient
    BY <2>1 DEF HasteInv
  <2>3. Window(d) \in Modals /\ \A c : Window(d) \notin BoxesOf(c)
    BY DEF Window, Modal, Modals, BoxesOf, IsBox
  <2>4. /\ All("regist")' \subseteq All("regist") \cup {d}
        /\ All("regist2")' \subseteq All("regist2") /\ d \in All("none")
    BY <1>0 DEF All, NextNumber
  <2>5. AtMostOne(Registrations, To(d), BoxesOf(d))
    BY <2>2, <2>4 DEF Patient, KindInv, AtMostOne, Without, Single
  <2>6. ASSUME NEW asks, NEW c, AtMostOne(asks, To(c), BoxesOf(c))
        PROVE  AtMostOne(asks, To(c), BoxesOf(c))'
    BY <2>1, <2>3, <2>6, OneShown
  <2>7. Single(requests', Registrations) /\ Separated(requests')
        /\ process' # "undefined"
    BY <2>1, <2>2 DEF Patient
  <2> QED BY <2>2, <2>4, <2>5, <2>6, <2>7 DEF Patient
<1>8. ASSUME NEW d \in Dialog \cup {Login}, Warn(d) PROVE Patient'
  <2> DEFINE m == Modal(d, "warning")
  <2>1. /\ modals' = Append(modals, m) /\ events' = events /\ class' = class
        /\ process' = process /\ requests' = requests
        /\ ~hasty /\ (d = Login \/ ~Awaits(d))
    BY <1>8 DEF Warn, Show, dialogs
  <2>2. m \in Modals /\ \A c \in Dialog : m \in BoxesOf(c) => d = c
    BY DEF Modal, Modals, BoxesOf
  <2> HIDE DEF m
  <2>3. Patient
    BY <2>1 DEF HasteInv
  <2>4. Login \notin Dialog
    BY DialogsAssumption DEF Dialog, Login
  <2>5. ASSUME NEW c \in All("regist")
        PROVE  AtMostOne(Registrations, To(c), BoxesOf(c))'
    <3>1. \/ m \notin BoxesOf(c)
          \/ /\ Without(requests, Registrations) /\ Without(events, To(c))
             /\ Without(modals, BoxesOf(c))
      BY <2>1, <2>2, <2>4, Awaiting DEF All
    <3> QED BY <2>1, <2>2, <2>3, <3>1, OneShown DEF Patient
  <2>6. ASSUME NEW c \in All("regist2")
        PROVE  AtMostOne(Profiles, To(c), BoxesOf(c))'
    <3>1. \/ m \notin BoxesOf(c)
          \/ /\ Without(requests, Profiles) /\ Without(events, To(c))
             /\ Without(modals, BoxesOf(c))
      BY <2>1, <2>2, <2>4, Awaiting DEF All
    <3> QED BY <2>1, <2>2, <2>3, <3>1, OneShown DEF Patient
  <2> QED BY <2>1, <2>3, <2>5, <2>6 DEF Patient, All
<1>9. ASSUME NEW d \in All("regist"), NEW u \in User, ClickNext(d, u)
      PROVE  Patient'
  <2> DEFINE a == Request("Register_Request", u, "")
             b == Request("Register_Extra_Request", u, DefaultProfile)
  <2>1. /\ ~hasty /\ \A e \in All("regist") \cup All("regist2") : ~Awaits(e)
        /\ class' = class /\ process' = process
        /\ requests' = requests \o <<a, b>> /\ events' = events /\ modals' = modals
    BY <1>9 DEF ClickNext
  <2>2. /\ a \in Registrations /\ a \notin Profiles
        /\ b \in Profiles /\ b \notin Registrations
    BY DEF Request, Requests, DefaultProfile, Name, Registrations, Profiles
  <2> HIDE DEF a, b
  <2>3. Patient
    BY <2>1 DEF HasteInv
  <2>4. /\ <<a, b>> \in Seq(Requests)
        /\ Single(<<a, b>>, Registrations) /\ Single(<<a, b>>, Profiles)
    <3>1. a \in Requests /\ b \in Requests
      BY <2>2 DEF Registrations, Profiles
    <3> QED BY <2>2, <3>1 DEF Single
  <2>5. Without(requests, Registrations)
    BY <2>1, Awaiting DEF All
  <2>6. Single(requests', Registrations)
    BY <1>0, <2>1, <2>4, <2>5, ConcatFacts
  <2>7. Separated(requests')
    BY <1>0, <2>1, <2>2, <2>3, SeparatedPair DEF Patient
  <2>8. ASSUME NEW c \in All("regist")
        PROVE  AtMostOne(Registrations, To(c), BoxesOf(c))'
    <3>1. Without(events, To(c)) /\ Without(modals, BoxesOf(c))
      BY <2>1, Awaiting DEF All
    <3> QED BY <2>1, <2>3, <2>4, <2>5, <3>1, OneAsked DEF Patient
  <2>9. ASSUME NEW c \in All("regist2")
        PROVE  AtMostOne(Profiles, To(c), BoxesOf(c))'
    <3>1. /\ Without(requests, Profiles) /\ Without(events, To(c))
          /\ Without(modals, BoxesOf(c))
      BY <2>1, Awaiting DEF All
    <3> QED BY <2>1, <2>3, <2>4, <3>1, OneAsked DEF Patient
  <2> QED BY <2>1, <2>3, <2>6, <2>7, <2>8, <2>9 DEF Patient, All
<1>10. ASSUME NEW d \in All("regist2"), ClickConfirm(d) PROVE Patient'
  <2> DEFINE r == Request("Register_Extra_Request", user[d], "filled")
  <2>1. /\ ~hasty /\ \A e \in All("regist2") : ~Awaits(e)
        /\ class' = class /\ process' = process
        /\ requests' = Append(requests, r) /\ events' = events /\ modals' = modals
    BY <1>10 DEF ClickConfirm, dialogs
  <2>2. r \in Requests /\ r \notin Registrations
    BY DEF Request, Requests, Registrations, TypeOK, All
  <2> HIDE DEF r
  <2>3. Patient
    BY <2>1 DEF HasteInv
  <2>4. Without(requests, Profiles)
    BY <2>1, Awaiting DEF All
  <2>5. Single(requests', Registrations) /\ Separated(requests')
    BY <1>0, <2>1, <2>2, <2>3, <2>4, AppendFacts, SeparatedAppend DEF Patient
  <2>6. /\ <<r>> \in Seq(Requests) /\ requests' = requests \o <<r>>
        /\ Without(<<r>>, Registrations) /\ Single(<<r>>, Profiles)
    BY <1>0, <2>1, <2>2, OneMore
  <2>7. ASSUME NEW c \in All("regist")
        PROVE  AtMostOne(Registrations, To(c), BoxesOf(c))'
    BY <2>1, <2>3, <2>6, OneAsked DEF Patient
  <2>8. ASSUME NEW c \in All("regist2")
        PROVE  AtMostOne(Profiles, To(c), BoxesOf(c))'
    <3>1. Without(events, To(c)) /\ Without(modals, BoxesOf(c))
      BY <2>1, Awaiting DEF All
    <3> QED BY <2>1, <2>3, <2>4, <2>6, <3>1, OneAsked DEF Patient
  <2> QED BY <2>1, <2>3, <2>5, <2>7, <2>8 DEF Patient, All
<1>11. ASSUME modals # <<>>, CloseDialog PROVE Patient'
  <2>1. /\ hasty' = hasty /\ class' = class /\ process' = process
        /\ requests' = requests /\ events' = events /\ modals' = Front(modals)
    BY <1>11 DEF CloseDialog, dialogs, history
  <2>2. Patient
    BY <2>1 DEF HasteInv
  <2>3. ASSUME NEW asks, NEW c, AtMostOne(asks, To(c), BoxesOf(c))
        PROVE  AtMostOne(asks, To(c), BoxesOf(c))'
    BY <1>11, <2>1, <2>3, OneShown
  <2> QED BY <2>1, <2>2, <2>3 DEF Patient, All
<1>12. ASSUME Others \/ Leave \/ UNCHANGED vars PROVE Patient'
  BY <1>2, <1>12 DEF Others, Leave, vars, dialogs, history
<1>13. ASSUME Input PROVE Patient'
  <2>1. modals # <<>> /\ ~IsBox(Top)
          => Top.of \in Dialog /\ \A c : class[Top.of] = c => Top.of \in All(c)
    BY TopTypes DEF All
  <2> QED BY <1>6, <1>7, <1>8, <1>9, <1>10, <1>11, <1>12, <1>13, <2>1
          DEF Input, Name
<1> QED BY <1>3, <1>4, <1>5, <1>12, <1>13 DEF Next

\* A dialog is destroyed under a box of its own only if it was used while it
\* waited.
THEOREM HasteCorrect == Spec => []EndNeedsHaste
<1>1. Init => KindInv /\ HasteInv
  BY DialogsAssumption
     DEF Init, KindInv, HasteInv, Patient, Separated, AtMostOne, Single, Without,
         All, Dialog
<1>2. HasteInv => EndNeedsHaste
  BY DEF HasteInv, Patient, EndNeedsHaste
<1> QED BY <1>1, <1>2, KindStep, HasteStep, TypeCorrect, PTL DEF Spec

-----------------------------------------------------------------------------
(* Whose profile is edited *)

\* The registration dialog d waits for one answer at most, to its own request,
\* and is told the truth.
Told(d) ==
  /\ AtMostOne(Registrations, To(d), AnswersOf(d))
  /\ \A i \in DOMAIN requests :
       requests[i] \in Registrations => requests[i].who = user[d]
  /\ \A i \in DOMAIN events :
       events[i].slot = "receiveData_Register" /\ events[i].ok /\ events[i].to = d
         => user[d] \in accepted
  /\ \A i \in DOMAIN modals :
       modals[i].text = "registered" /\ modals[i].of = d => user[d] \in accepted

\* As long as nobody strayed, there is one registration dialog at most, and it
\* makes the profile dialog.
Orderly ==
  /\ \A d, e \in All("regist") : d = e
  /\ \A d \in All("regist2") : user[d] \in accepted
  /\ All("regist") = {} => Without(requests, Registrations)
  /\ \A d \in All("regist") : Told(d)

StrayInv == ~strayed => Orderly

\* What Told depends on, but for the answer that is awaited.
LEMMA ToldKept ==
  ASSUME NEW d, Told(d), AtMostOne(Registrations, To(d), AnswersOf(d))',
         user'[d] = user[d], accepted \subseteq accepted',
         \A i \in DOMAIN requests' :
           requests'[i] \in Registrations
             => \E k \in DOMAIN requests : requests'[i] = requests[k],
         \A i \in DOMAIN events' :
           events'[i].slot = "receiveData_Register" /\ events'[i].ok
             => \E k \in DOMAIN events : events'[i] = events[k],
         \A i \in DOMAIN modals' :
           modals'[i].text = "registered"
             => \E k \in DOMAIN modals : modals'[i] = modals[k]
  PROVE  Told(d)'
<1>1. /\ \A i \in DOMAIN requests :
           requests[i] \in Registrations => requests[i].who = user[d]
      /\ \A i \in DOMAIN events :
           events[i].slot = "receiveData_Register" /\ events[i].ok
             /\ events[i].to = d => user[d] \in accepted
      /\ \A i \in DOMAIN modals :
           modals[i].text = "registered" /\ modals[i].of = d
             => user[d] \in accepted
  BY DEF Told
<1>2. \A i \in DOMAIN requests' :
        requests'[i] \in Registrations => requests'[i].who = user'[d]
  BY <1>1
<1>3. \A i \in DOMAIN events' :
        events'[i].slot = "receiveData_Register" /\ events'[i].ok
          /\ events'[i].to = d => user'[d] \in accepted'
  BY <1>1
<1>4. \A i \in DOMAIN modals' :
        modals'[i].text = "registered" /\ modals'[i].of = d
          => user'[d] \in accepted'
  BY <1>1
<1> QED BY <1>2, <1>3, <1>4 DEF Told

LEMMA ConcatElements ==
  ASSUME NEW S, NEW s \in Seq(S), NEW n \in Seq(S), NEW i \in DOMAIN (s \o n)
  PROVE  \/ \E k \in DOMAIN s : (s \o n)[i] = s[k]
         \/ \E k \in DOMAIN n : (s \o n)[i] = n[k]
<1>1. /\ Len(s) \in Nat /\ Len(n) \in Nat
      /\ DOMAIN s = 1 .. Len(s) /\ DOMAIN n = 1 .. Len(n)
      /\ DOMAIN (s \o n) = 1 .. Len(s) + Len(n)
      /\ \A k \in 1 .. Len(s) + Len(n) :
           (s \o n)[k] = IF k <= Len(s) THEN s[k] ELSE n[k - Len(s)]
  BY ConcatProperties
<1>2. CASE i <= Len(s)
  BY <1>1, <1>2
<1>3. CASE ~(i <= Len(s))
  <2>1. i - Len(s) \in DOMAIN n
    BY <1>1, <1>3
  <2> QED BY <1>1, <1>3, <2>1
<1> QED BY <1>2, <1>3

LEMMA AnswerAccepts ==
  ASSUME TypeOK, Answer
  PROVE  /\ requests # <<>> /\ requests' = Tail(requests) /\ modals' = modals
         /\ class' = class /\ user' = user /\ strayed' = strayed
         /\ accepted \subseteq accepted'
<1>1. accepted \subseteq accepted'
  BY DEF Answer, Register, RegisterExtra, CheckLogin
<1> QED BY <1>1 DEF Answer, dialogs

LEMMA StrayAnswer ==
  ASSUME TypeOK, Orderly, Answer
  PROVE  Orderly'
<1>0. requests \in Seq(Requests) /\ events \in Seq(Events)
  BY DEF TypeOK
<1>1. /\ requests # <<>> /\ requests' = Tail(requests) /\ modals' = modals
      /\ class' = class /\ user' = user /\ accepted \subseteq accepted'
  BY AnswerAccepts
<1>2. /\ 1 \in DOMAIN requests /\ Head(requests) = requests[1]
      /\ LeftOver(requests', requests, 1)
  BY <1>0, <1>1, TailLeft
<1>3. /\ Without(requests, Registrations) => Without(requests', Registrations)
      /\ \A i \in DOMAIN requests' : \E k \in DOMAIN requests :
           requests'[i] = requests[k]
  BY <1>2, LeftOverFacts DEF LeftOver
<1>4. PICK n \in Seq(Events) : AnswerPosted(n)
  BY AnswerPosts
<1>5. ASSUME NEW d \in All("regist") PROVE Told(d)'
  <2>1. Told(d)
    BY DEF Orderly
  <2>2. AtMostOne(Registrations, To(d), AnswersOf(d))'
    <3>1. Answers(Head(requests), d) => Head(requests) \in Registrations
      BY DialogsAssumption DEF Answers, All, Dialog, Login
    <3> QED BY <2>1, <3>1, OneAnswer DEF Told
  <2>3. \A i \in DOMAIN requests' :
          requests'[i] \in Registrations => requests'[i].who = user'[d]
    BY <1>1, <1>3, <2>1 DEF Told
  <2>4. \A i \in DOMAIN modals' :
          modals'[i].text = "registered" /\ modals'[i].of = d
            => user'[d] \in accepted'
    BY <1>1, <2>1 DEF Told
  <2>5. ASSUME NEW i \in DOMAIN events', events'[i].to = d, events'[i].ok,
               events'[i].slot = "receiveData_Register"
        PROVE  user'[d] \in accepted'
    <3>1. CASE \E k \in DOMAIN events : events'[i] = events[k]
      BY <1>1, <2>1, <2>5, <3>1 DEF Told
    <3>2. CASE \E k \in DOMAIN n : events'[i] = n[k]
      <4>1. Head(requests) \in Registrations /\ Head(requests).who \in accepted'
        BY <1>4, <2>5, <3>2 DEF AnswerPosted
      <4>2. Head(requests).who = user[d]
        BY <1>2, <2>1, <4>1 DEF Told
      <4> QED BY <1>1, <4>1, <4>2
    <3> QED BY <1>0, <1>4, <3>1, <3>2, ConcatElements DEF AnswerPosted
  <2> QED BY <2>2, <2>3, <2>4, <2>5 DEF Told
<1> QED BY <1>1, <1>3, <1>5 DEF Orderly, All

LEMMA StrayDeliver ==
  ASSUME TypeOK, KindInv, Orderly, Deliver
  PROVE  Orderly'
<1>0. modals \in Seq(Modals)
      /\ class \in [Dialog -> {"none", "regist", "regist2", "gone"}]
  BY DEF TypeOK
<1>1. requests' = requests /\ user' = user /\ accepted' = accepted
  BY DeliverTakes
<1> PICK i \in DOMAIN events :
      /\ Delivered(i) /\ events[i] \in Events
      /\ events' \in Seq(Events) /\ LeftOver(events', events, i)
  BY DeliverTakes
<1> DEFINE e == events[i]
<1>2. Shown(e)
  BY DeliverShows
<1>3. \A j \in DOMAIN events' : \E k \in DOMAIN events : events'[j] = events[k]
  BY DEF LeftOver
<1>4. \/ class' = class
      \/ e.to \in Dialog /\ class' = [class EXCEPT ![e.to] = "gone"]
  <2> HIDE DEF e
  <2> QED BY <1>2 DEF Shown
<1>5. \A c \in {"regist", "regist2"} : All(c)' \subseteq All(c)
  <2> HIDE DEF e
  <2> QED BY <1>0, <1>4 DEF All
<1>6. All("regist")' = {} => Without(requests, Registrations)
  <2>1. CASE e.to \in All("regist")
    <3>1. AtMostOne(Registrations, To(e.to), AnswersOf(e.to))
      BY <2>1 DEF Orderly, Told
    <3>2. ~Without(events, To(e.to))
      BY DEF Without, To
    <3> QED BY <3>1, <3>2 DEF AtMostOne
  <2>2. CASE e.to \notin All("regist")
    <3>1. All("regist") \subseteq All("regist")'
      <4> HIDE DEF e
      <4> QED BY <1>0, <1>4, <2>2 DEF All
    <3> QED BY <3>1 DEF Orderly
  <2> QED BY <2>1, <2>2
<1>7. ASSUME NEW d \in All("regist") PROVE Told(d)'
  <2>1. Told(d)
    BY DEF Orderly
  <2>2. AnswersOf(d) \subseteq BoxesOf(d)
    BY DEF AnswersOf, BoxesOf, IsBox
  <2>3. AtMostOne(Registrations, To(d), AnswersOf(d))'
    BY <2>1, <2>2, OneDeliver DEF Told
  <2>4. \A j \in DOMAIN requests' :
          requests'[j] \in Registrations => requests'[j].who = user'[d]
    BY <1>1, <2>1 DEF Told
  <2>5. \A j \in DOMAIN events' :
          events'[j].slot = "receiveData_Register" /\ events'[j].ok
            /\ events'[j].to = d => user'[d] \in accepted'
    BY <1>1, <1>3, <2>1 DEF Told
  <2>6. ASSUME NEW j \in DOMAIN modals', modals'[j].text = "registered",
               modals'[j].of = d
        PROVE  user'[d] \in accepted'
    <3>1. CASE \E k \in DOMAIN modals : modals'[j] = modals[k]
      BY <1>1, <2>1, <2>6, <3>1 DEF Told
    <3>2. CASE /\ modals'[j].of = e.to
               /\ e.slot = "receiveData_Register" /\ e.ok
      BY <1>1, <2>1, <2>6, <3>2 DEF Told
    <3>3. CASE \E m \in Modals :
                 /\ modals' = Append(modals, m) /\ m.of = e.to
                 /\ m.text = "registered"
                      => e.slot = "receiveData_Register" /\ e.ok
      <4> PICK m \in Modals :
            /\ modals' = Append(modals, m) /\ m.of = e.to
            /\ m.text = "registered" => e.slot = "receiveData_Register" /\ e.ok
        BY <3>3
      <4>1. modals'[j] = m \/ (j \in DOMAIN modals /\ modals'[j] = modals[j])
        BY <1>0, AppendProperties
      <4> QED BY <2>6, <3>1, <3>2, <4>1
    <3>4. CASE \E k \in DOMAIN modals : modals' = RemoveAt(modals, k)
      BY <1>0, <3>1, <3>4, RemoveLeft DEF LeftOver
    <3>5. CASE modals' = modals
      BY <3>1, <3>5
    <3>6. \/ modals' = modals
          \/ \E m \in Modals :
               /\ modals' = Append(modals, m) /\ m.of = e.to
               /\ m.text = "registered"
                    => e.slot = "receiveData_Register" /\ e.ok
          \/ \E k \in DOMAIN modals : modals' = RemoveAt(modals, k)
      <4> HIDE DEF e
      <4> QED BY <1>2 DEF Shown
    <3> QED BY <3>3, <3>4, <3>5, <3>6
  <2> QED BY <2>3, <2>4, <2>5, <2>6 DEF Told
<1> QED BY <1>1, <1>5, <1>6, <1>7 DEF Orderly

LEMMA StrayCloseBox ==
  ASSUME TypeOK, KindInv, Orderly, CloseBox
  PROVE  Orderly'
<1>0. /\ events \in Seq(Events) /\ modals \in Seq(Modals)
      /\ class \in [Dialog -> {"none", "regist", "regist2", "gone"}]
      /\ user \in [Dialog -> Name]
  BY DEF TypeOK
<1>1. /\ process = "up" /\ modals # <<>> /\ IsBox(Top)
      /\ requests' = requests /\ accepted' = accepted
      /\ \/ /\ modals' = Front(modals) /\ class' = class /\ user' = user
         \/ /\ Top.text = "registered" /\ Top.of \in Dialog
            /\ \E e \in All("none") :
                 /\ class' = [class EXCEPT ![e] = "regist2"]
                 /\ user' = [user EXCEPT ![e] = user[Top.of]]
                 /\ modals' = Append(Front(modals), Window(e))
                 /\ Window(e) \in Modals
  BY CloseBoxShows
<1>2. /\ Front(modals) \in Seq(Modals) /\ Top = modals[Len(modals)]
      /\ Len(modals) \in DOMAIN modals
      /\ \A j \in DOMAIN Front(modals) :
           \E k \in DOMAIN modals : Front(modals)[j] = modals[k]
  BY <1>0, <1>1, FrontLeft DEF Top, LeftOver
<1>3. \A j \in DOMAIN modals' :
        modals'[j].text = "registered"
          => \E k \in DOMAIN modals : modals'[j] = modals[k]
  <2>1. CASE modals' = Front(modals)
    BY <1>2, <2>1
  <2>2. CASE \E e \in All("none") : /\ modals' = Append(Front(modals), Window(e))
                                    /\ Window(e) \in Modals
    <3> PICK e \in All("none") : /\ modals' = Append(Front(modals), Window(e))
                                 /\ Window(e) \in Modals
      BY <2>2
    <3>1. Window(e).text # "registered"
      BY DEF Window, Modal
    <3> QED BY <1>2, <3>1, AppendProperties
  <2> QED BY <1>1, <2>1, <2>2
<1>4. \A j \in DOMAIN events' :
        events'[j].slot = "receiveData_Register" /\ events'[j].ok
          => \E k \in DOMAIN events : events'[j] = events[k]
  <2>1. CASE events' = events
    BY <2>1
  <2>2. CASE \E e \in Events : /\ e.slot = "deleteLater"
                               /\ events' = Append(events, e)
    BY <1>0, <2>2, AppendProperties
  <2> QED BY <2>1, <2>2, CloseBoxPosts
<1>5. ASSUME NEW d \in All("regist"), user'[d] = user[d] PROVE Told(d)'
  <2>1. Told(d)
    BY DEF Orderly
  <2>2. AnswersOf(d) \subseteq BoxesOf(d)
    BY DEF AnswersOf, BoxesOf, IsBox
  <2>3. AtMostOne(Registrations, To(d), AnswersOf(d))'
    BY <2>1, <2>2, OneCloseBox DEF Told
  <2> QED BY <1>1, <1>3, <1>4, <1>5, <2>1, <2>3, ToldKept
<1>6. CASE class' = class /\ user' = user
  BY <1>1, <1>5, <1>6 DEF Orderly, All
<1>7. CASE /\ Top.text = "registered" /\ Top.of \in Dialog
           /\ \E e \in All("none") :
                /\ class' = [class EXCEPT ![e] = "regist2"]
                /\ user' = [user EXCEPT ![e] = user[Top.of]]
  <2> PICK e \in All("none") :
        /\ class' = [class EXCEPT ![e] = "regist2"]
        /\ user' = [user EXCEPT ![e] = user[Top.of]]
    BY <1>7
  <2>1. Top.of \in All("regist")
    BY <1>1, <1>2, <1>7 DEF KindInv, All
  <2>2. user[Top.of] \in accepted
    BY <1>2, <1>7, <2>1 DEF Orderly, Told
  <2>3. /\ All("regist")' = All("regist")
        /\ All("regist2")' = All("regist2") \cup {e}
    BY <1>0 DEF All
  <2>4. \A d \in Dialog : user'[d] = IF d = e THEN user[Top.of] ELSE user[d]
    BY <1>0
  <2>5. \A d \in All("regist") : d \in Dialog /\ d # e
    BY DEF All
  <2>6. \A d \in All("regist2") : d \in Dialog /\ d # e
    BY DEF All
  <2>7. \A d \in All("regist2")' : user'[d] \in accepted'
    <3>1. e \in Dialog
      BY DEF All
    <3> QED BY <1>1, <2>2, <2>3, <2>4, <2>6, <3>1 DEF Orderly
  <2> QED BY <1>1, <1>5, <2>3, <2>4, <2>5, <2>7 DEF Orderly
<1> QED BY <1>1, <1>6, <1>7

\* Acts that ask nothing and change no dialog.
LEMMA StrayShown ==
  ASSUME TypeOK, Orderly, requests' = requests, events' = events, class' = class,
         user' = user, accepted' = accepted,
         \/ modals' = modals
         \/ modals # <<>> /\ modals' = Front(modals)
         \/ \E m \in Modals : /\ modals' = Append(modals, m)
                              /\ m.text \in {"window", "warning"}
  PROVE  Orderly'
<1>0. modals \in Seq(Modals)
  BY DEF TypeOK
<1>1. ASSUME NEW d \in All("regist") PROVE Told(d)'
  <2>1. Told(d)
    BY DEF Orderly
  <2>2. AtMostOne(Registrations, To(d), AnswersOf(d))'
    <3>1. \A m \in Modals :
            m.text \in {"window", "warning"} => m \notin AnswersOf(d)
      BY DEF AnswersOf
    <3> QED BY <2>1, <3>1, OneShown DEF Told
  <2>3. \A j \in DOMAIN modals' :
          modals'[j].text = "registered"
            => \E k \in DOMAIN modals : modals'[j] = modals[k]
    <3>1. CASE modals # <<>> /\ modals' = Front(modals)
      BY <1>0, <3>1, FrontLeft DEF LeftOver
    <3>2. CASE \E m \in Modals : /\ modals' = Append(modals, m)
                                 /\ m.text \in {"window", "warning"}
      BY <1>0, <3>2, AppendProperties
    <3> QED BY <3>1, <3>2
  <2> QED BY <2>1, <2>2, <2>3, ToldKept
<1> QED BY <1>1 DEF Orderly, All

LEMMA StrayStep ==
  TypeOK /\ KindInv /\ StrayInv /\ [Next]_vars => StrayInv'
<1> SUFFICES ASSUME TypeOK, KindInv, StrayInv, [Next]_vars, ~strayed'
             PROVE  Orderly'
  BY DEF StrayInv
<1>0. /\ requests \in Seq(Requests) /\ modals \in Seq(Modals)
      /\ class \in [Dialog -> {"none", "regist", "regist2", "gone"}]
      /\ user \in [Dialog -> Name]
  BY DEF TypeOK
<1>1. ASSUME Answer PROVE Orderly'
  BY <1>1, StrayAnswer, AnswerAccepts DEF StrayInv
<1>2. ASSUME Deliver PROVE Orderly'
  BY <1>2, StrayDeliver, DeliverTakes DEF StrayInv
<1>3. ASSUME CloseBox PROVE Orderly'
  BY <1>3, StrayCloseBox, CloseBoxShows DEF StrayInv
<1>4. ASSUME NEW n \in Seq(Requests), requests' = requests \o n,
             Without(n, Registrations), events' = events, modals' = modals,
             class' = class, user' = user, accepted' = accepted, Orderly
      PROVE  Orderly'
  <2>1. Without(requests, Registrations) => Without(requests', Registrations)
    BY <1>0, <1>4, ConcatFacts
  <2>2. ASSUME NEW d \in All("regist") PROVE Told(d)'
    <3>1. Told(d)
      BY <1>4 DEF Orderly
    <3>2. AtMostOne(Registrations, To(d), AnswersOf(d))'
      BY <1>4, <3>1, OneAsked DEF Told
    <3>3. \A i \in DOMAIN requests' :
            requests'[i] \in Registrations
              => \E k \in DOMAIN requests : requests'[i] = requests[k]
      BY <1>0, <1>4, ConcatElements DEF Without
    <3> QED BY <1>4, <3>1, <3>2, <3>3, ToldKept
  <2> QED BY <1>4, <2>1, <2>2 DEF Orderly, All
<1>5. ASSUME NEW u \in Name, ClickLogin(u) PROVE Orderly'
  <2> DEFINE r == Request("Login_Request", u, "")
  <2>1. /\ ~strayed /\ class' = class /\ user' = user /\ accepted' = accepted
        /\ requests' = Append(requests, r) /\ events' = events /\ modals' = modals
    BY <1>5 DEF ClickLogin, dialogs, server
  <2>2. r \in Requests /\ r \notin Registrations
    BY DEF Request, Requests, Registrations
  <2> HIDE DEF r
  <2>3. /\ <<r>> \in Seq(Requests) /\ requests' = requests \o <<r>>
        /\ Without(<<r>>, Registrations)
    BY <1>0, <2>1, <2>2, OneMore
  <2> QED BY <1>4, <2>1, <2>3 DEF StrayInv
<1>6. ASSUME NEW d \in Dialog, ClickConfirm(d) PROVE Orderly'
  <2> DEFINE r == Request("Register_Extra_Request", user[d], "filled")
  <2>1. /\ ~strayed /\ class' = class /\ user' = user /\ accepted' = accepted
        /\ requests' = Append(requests, r) /\ events' = events /\ modals' = modals
    BY <1>6 DEF ClickConfirm, dialogs
  <2>2. r \in Requests /\ r \notin Registrations
    BY <1>0 DEF Request, Requests, Registrations
  <2> HIDE DEF r
  <2>3. /\ <<r>> \in Seq(Requests) /\ requests' = requests \o <<r>>
        /\ Without(<<r>>, Registrations)
    BY <1>0, <2>1, <2>2, OneMore
  <2> QED BY <1>4, <2>1, <2>3 DEF StrayInv
<1>7. ASSUME ClickRegist PROVE Orderly'
  <2> PICK d \in Dialog : /\ NextNumber(d)
                          /\ class' = [class EXCEPT ![d] = "regist"]
                          /\ Show(Window(d))
    BY <1>7 DEF ClickRegist
  <2>1. /\ ~strayed /\ All("regist") = {} /\ requests' = requests
        /\ events' = events /\ modals' = Append(modals, Window(d))
        /\ user' = user /\ accepted' = accepted
    BY <1>7 DEF ClickRegist, Show, server
  <2>2. Orderly
    BY <2>1 DEF StrayInv
  <2>3. Window(d) \in Modals /\ Window(d).text = "window"
    BY DEF Window, Modal, Modals
  <2>4. /\ All("regist")' = {d} /\ All("regist2")' = All("regist2")
        /\ d \in All("none")
    BY <1>0, <2>1 DEF All, NextNumber
  <2>5. /\ Without(requests, Registrations) /\ Without(events, To(d))
        /\ Without(modals, BoxesOf(d))
    BY <2>1, <2>2, <2>4 DEF Orderly, KindInv
  <2>6. Without(requests', Registrations) /\ Without(events', To(d))
    BY <2>1, <2>5
  <2>7. Without(modals', BoxesOf(d))
    <3>1. Window(d) \notin BoxesOf(d)
      BY <2>3 DEF BoxesOf, IsBox
    <3> QED BY <1>0, <2>1, <2>3, <2>5, <3>1, AppendFacts
  <2>8. events' \in Seq(Events) /\ modals' \in Seq(Modals)
    BY <2>1, <2>3, AppendProperties DEF TypeOK
  <2>9. AtMostOne(Registrations, To(d), AnswersOf(d))'
    <3>1. AnswersOf(d) \subseteq BoxesOf(d)
      BY DEF AnswersOf, BoxesOf, IsBox
    <3> QED BY <2>6, <2>7, <3>1 DEF AtMostOne, Without, Single
  <2>10. Told(d)'
    <3>1. \A i \in DOMAIN events' : events'[i].to # d
      BY <2>6, <2>8 DEF Without, To
    <3>2. \A i \in DOMAIN modals' :
            ~(modals'[i].text = "registered" /\ modals'[i].of = d)
      BY <2>7, <2>8 DEF Without, BoxesOf, IsBox
    <3> QED BY <2>6, <2>9, <3>1, <3>2 DEF Told, Without
  <2> QED BY <2>1, <2>2, <2>4, <2>10 DEF Orderly
<1>8. ASSUME NEW d \in Dialog \cup {Login}, Warn(d) PROVE Orderly'
  <2>1. /\ ~strayed /\ class' = class /\ user' = user /\ accepted' = accepted
        /\ requests' = requests /\ events' = events
        /\ modals' = Append(modals, Modal(d, "warning"))
    BY <1>8 DEF Warn, Show, dialogs, server
  <2>2. Modal(d, "warning") \in Modals /\ Modal(d, "warning").text = "warning"
    BY DEF Modal, Modals
  <2> QED BY <2>1, <2>2, StrayShown DEF StrayInv
<1>9. ASSUME NEW d \in All("regist"), NEW u \in User, ClickNext(d, u)
      PROVE  Orderly'
  <2> DEFINE a == Request("Register_Request", u, "")
             b == Request("Register_Extra_Request", u, DefaultProfile)
  <2>1. /\ ~strayed /\ ~Awaits(d) /\ class' = class
        /\ user' = [user EXCEPT ![d] = u] /\ accepted' = accepted
        /\ requests' = requests \o <<a, b>> /\ events' = events /\ modals' = modals
    BY <1>9 DEF ClickNext
  <2>2. a \in Requests /\ a.who = u /\ b \in Requests /\ b \notin Registrations
    BY DEF Request, Requests, DefaultProfile, Name, Registrations
  <2> HIDE DEF a, b
  <2>3. Orderly /\ d \in Dialog
    BY <2>1 DEF StrayInv, All
  <2>4. <<a, b>> \in Seq(Requests) /\ Single(<<a, b>>, Registrations)
    BY <2>2 DEF Single
  <2>5. /\ Without(requests, Registrations) /\ Without(events, To(d))
        /\ Without(modals, BoxesOf(d))
    BY <2>1, <2>3, Awaiting
  <2>6. AtMostOne(Registrations, To(d), AnswersOf(d))'
    <3>1. Without(modals, AnswersOf(d))
      BY <2>5 DEF Without, AnswersOf, BoxesOf, IsBox
    <3>2. Told(d)
      BY <2>3 DEF Orderly
    <3> QED BY <2>1, <2>4, <2>5, <3>1, <3>2, OneAsked DEF Told
  <2>7. \A i \in DOMAIN requests' :
          requests'[i] \in Registrations => requests'[i].who = user'[d]
    <3> SUFFICES ASSUME NEW i \in DOMAIN requests', requests'[i] \in Registrations
                 PROVE  requests'[i].who = user'[d]
      OBVIOUS
    <3>1. \A k \in DOMAIN requests : requests'[i] # requests[k]
      BY <2>5 DEF Without
    <3>2. PICK k \in DOMAIN <<a, b>> : requests'[i] = <<a, b>>[k]
      BY <1>0, <2>1, <2>4, <3>1, ConcatElements
    <3>3. requests'[i] = a
      BY <2>2, <3>2
    <3> QED BY <1>0, <2>1, <2>2, <2>3, <3>3
  <2>8. Told(d)'
    <3>1. \A i \in DOMAIN events : events[i].to # d
      BY <2>5 DEF Without, To, TypeOK
    <3>2. \A i \in DOMAIN modals :
            ~(modals[i].text = "registered" /\ modals[i].of = d)
      BY <1>0, <2>5 DEF Without, BoxesOf, IsBox
    <3> QED BY <2>1, <2>6, <2>7, <3>1, <3>2 DEF Told
  <2>9. \A c \in All("regist2") : c # d /\ c \in Dialog
    BY DEF All
  <2>10. \A c \in All("regist2") : user'[c] = user[c]
    BY <1>0, <2>1, <2>9
  <2> QED BY <2>1, <2>3, <2>8, <2>10 DEF Orderly, All
<1>10. ASSUME modals # <<>>, CloseDialog PROVE Orderly'
  <2>1. /\ ~strayed /\ class' = class /\ user' = user /\ accepted' = accepted
        /\ requests' = requests /\ events' = events /\ modals' = Front(modals)
    BY <1>10 DEF CloseDialog, dialogs, server, history
  <2> QED BY <1>10, <2>1, StrayShown DEF StrayInv
<1>11. ASSUME Others \/ Leave \/ UNCHANGED vars PROVE Orderly'
  <2>1. /\ strayed' = strayed /\ class' = class /\ user' = user
        /\ accepted' = accepted /\ requests' = requests /\ events' = events
        /\ modals' = modals
    BY <1>11 DEF Others, Leave, vars, dialogs, server, history
  <2> QED BY <2>1, StrayShown DEF StrayInv
<1>12. ASSUME Input PROVE Orderly'
  <2>1. modals # <<>> /\ ~IsBox(Top)
          => Top.of \in Dialog /\ \A c : class[Top.of] = c => Top.of \in All(c)
    BY TopTypes DEF All
  <2> QED BY <1>5, <1>6, <1>7, <1>8, <1>9, <1>10, <1>11, <1>12, <2>1
          DEF Input, Name
<1> QED BY <1>1, <1>2, <1>3, <1>11, <1>12 DEF Next

\* A profile dialog is for a name that this client has registered, unless
\* somebody strayed.
THEOREM EditorCorrect == Spec => []EditsTheRegistered
<1>1. Init => KindInv /\ StrayInv
  BY DialogsAssumption
     DEF Init, KindInv, StrayInv, Orderly, Without, All, Dialog
<1>2. StrayInv => EditsTheRegistered
  BY DEF StrayInv, Orderly, EditsTheRegistered
<1> QED BY <1>1, <1>2, KindStep, StrayStep, TypeCorrect, PTL DEF Spec
=============================================================================
