--------------------------- MODULE RegistryProofs ---------------------------
(***************************************************************************)
(* Proofs about module Registry, for any set of endpoints and any number   *)
(* of accepted connections.                                                *)
(***************************************************************************)
EXTENDS Registry, SequenceFacts, FiniteSetTheorems, FunctionTheorems

-----------------------------------------------------------------------------
(* Positions *)

LEMMA Count ==
  ASSUME NEW n \in Nat PROVE IsFiniteSet(1 .. n) /\ Cardinality(1 .. n) = n
BY FS_Interval

\* An entry of the list stands at its position.
LEMMA PositionOf ==
  ASSUME NEW c, c \in InList
  PROVE  Position(c) \in DOMAIN conn_list /\ conn_list[Position(c)] = c
BY DEF InList, Position, ToSet

\* Which elements are left when one is taken out of a list without duplicates.
LEMMA RemoveAtElements ==
  ASSUME NEW S, NEW l \in Seq(S), IsInjective(l), NEW p \in 1 .. Len(l)
  PROVE  /\ DOMAIN RemoveAt(l, p) = 1 .. Len(l) - 1
         /\ ToSet(RemoveAt(l, p)) = ToSet(l) \ {l[p]}
<1> DEFINE r == RemoveAt(l, p)
           n == Len(l)
<1>1. /\ r \in Seq(S) /\ Len(r) = n - 1
      /\ \A j \in 1 .. n - 1 : r[j] = IF j < p THEN l[j] ELSE l[j + 1]
  BY RemoveAtProperties
<1>2. DOMAIN r = 1 .. n - 1 /\ DOMAIN l = 1 .. n /\ n \in Nat /\ p \in 1 .. n
  BY <1>1
<1> HIDE DEF r, n
<1>3. ASSUME NEW j \in 1 .. n - 1
      PROVE  r[j] \in ToSet(l) /\ r[j] # l[p]
  <2>1. PICK k \in 1 .. n : r[j] = l[k] /\ k # p
    BY <1>1, <1>2
  <2> QED BY <1>2, <2>1, Zenon DEF ToSet, IsInjective
<1>4. ASSUME NEW k \in 1 .. n, k # p PROVE \E j \in 1 .. n - 1 : r[j] = l[k]
  <2>1. CASE k < p
    BY <1>1, <1>2, <2>1
  <2>2. CASE k > p
    <3>1. k - 1 \in 1 .. n - 1 /\ ~(k - 1 < p) /\ (k - 1) + 1 = k
      BY <1>2, <2>2
    <3>2. r[k - 1] = l[(k - 1) + 1]
      BY <1>1, <3>1
    <3> QED BY <3>1, <3>2
  <2> QED BY <1>2, <1>4, <2>1, <2>2
<1>5. ToSet(r) = ToSet(l) \ {l[p]}
  <2>1. /\ ToSet(r) = {r[j] : j \in 1 .. n - 1}
        /\ ToSet(l) = {l[k] : k \in 1 .. n}
    BY <1>2 DEF ToSet
  <2>2. \A x : x \in ToSet(l) \ {l[p]} => \E k \in 1 .. n : k # p /\ x = l[k]
    BY <2>1
  <2> QED BY <1>3, <1>4, <2>1, <2>2
<1> QED BY <1>2, <1>5 DEF r, n

\* Elements in order are those at the positions that are kept, none twice if
\* there was none twice.
LEMMA InOrderProperties ==
  ASSUME NEW S, NEW l \in Seq(S), NEW P \in SUBSET (1 .. Len(l)),
         NEW r \in InOrder(l, P)
  PROVE  /\ r \in Seq(S) /\ Len(r) <= Len(l)
         /\ ToSet(r) = {l[i] : i \in P}
         /\ IsInjective(l) => IsInjective(r)
<1> DEFINE n == Cardinality(P)
<1>1. IsFiniteSet(P) /\ n \in Nat /\ n <= Len(l)
  <2>1. Len(l) \in Nat
    OBVIOUS
  <2>2. IsFiniteSet(1 .. Len(l)) /\ Cardinality(1 .. Len(l)) = Len(l)
    BY <2>1, Count
  <2>3. IsFiniteSet(P) /\ n <= Len(l)
    BY <2>2, FS_Subset
  <2>4. n \in Nat
    BY <2>3, FS_CardinalityType
  <2> QED BY <2>3, <2>4
<1>2. PICK o \in [1 .. n -> P] :
        /\ \A i, j \in 1 .. n : i < j => o[i] < o[j]
        /\ r = [i \in 1 .. n |-> l[o[i]]]
  BY DEF InOrder
<1> HIDE DEF n
<1>a. \A i \in 1 .. n : o[i] \in P /\ o[i] \in DOMAIN l /\ o[i] \in Int
  <2>1. \A k \in P : k \in DOMAIN l /\ k \in Int
    OBVIOUS
  <2> QED BY <2>1
<1>3. \A i, j \in 1 .. n : o[i] = o[j] => i = j
  <2> SUFFICES ASSUME NEW i \in 1 .. n, NEW j \in 1 .. n, o[i] = o[j], i # j
               PROVE  FALSE
    OBVIOUS
  <2>0. i \in Int /\ j \in Int
    OBVIOUS
  <2>1. o[i] \in Int /\ (i < j \/ j < i)
    BY <1>a, <2>0
  <2>2. o[i] < o[j] \/ o[j] < o[i]
    BY <1>2, <2>1
  <2> QED BY <2>1, <2>2
<1>4. \A k \in P : \E i \in 1 .. n : o[i] = k
  <2>1. o \in Injection(1 .. n, P)
    BY <1>3, Zenon DEF Injection, IsInjective
  <2>2. Cardinality(1 .. n) = n
    BY <1>1, Count
  <2>3. Cardinality(1 .. n) = Cardinality(P)
    BY <2>2 DEF n
  <2>4. o \in Surjection(1 .. n, P)
    BY <1>1, <2>1, <2>3, FS_Injection
  <2> QED BY <2>4, Zenon DEF Surjection
<1>5. r \in Seq(S) /\ Len(r) = n /\ DOMAIN r = 1 .. n
  <2>1. \A i \in 1 .. n : l[o[i]] \in S
    BY <1>a
  <2>2. DOMAIN r = 1 .. n /\ r \in [1 .. n -> S]
    BY <1>2, <2>1
  <2> QED BY <1>1, <2>2
<1>6. ToSet(r) = {l[i] : i \in P}
  BY <1>2, <1>4, <1>5 DEF ToSet
<1>7. ASSUME IsInjective(l) PROVE IsInjective(r)
  <2>1. \A i, j \in 1 .. n : l[o[i]] = l[o[j]] => o[i] = o[j]
    BY <1>7, <1>a, Zenon DEF IsInjective
  <2> QED BY <1>2, <1>3, <1>5, <2>1 DEF IsInjective
<1> QED BY <1>1, <1>5, <1>6, <1>7

\* A list without duplicates is as long as it has elements.
LEMMA LengthIsCardinality ==
  ASSUME NEW S, NEW l \in Seq(S), IsInjective(l)
  PROVE  IsFiniteSet(ToSet(l)) /\ Len(l) = Cardinality(ToSet(l))
<1>1. l \in Bijection(1 .. Len(l), ToSet(l))
  BY Fun_IsBij DEF IsInjective, ToSet
<1>2. IsFiniteSet(1 .. Len(l)) /\ Cardinality(1 .. Len(l)) = Len(l)
  <2>1. Len(l) \in Nat
    OBVIOUS
  <2> QED BY <2>1, Count
<1>3. ExistsBijection(1 .. Len(l), ToSet(l))
  BY <1>1 DEF ExistsBijection
<1> QED BY <1>2, <1>3, FS_Bijection

-----------------------------------------------------------------------------
(* Types, and the list *)

Connected == {c \in Conn : sock[c] # "none"}

\* ListIsExact, put so that it is inductive.
ListInv ==
  state = "running" =>
    InList = Connected /\ IsInjective(conn_list) /\ Len(conn_list) <= capacity

LEMMA ForgottenType ==
  ASSUME TypeOK, NEW i PROVE ForgetPosition(i) \subseteq Nat \ {0}
BY DEF ForgetPosition, TypeOK

LEMMA ListTypes ==
  ASSUME TypeOK
  PROVE  /\ InList \subseteq Conn
         /\ \A c \in InList :
              /\ ListWithout(c) \in Seq(Conn)
              /\ Len(ListWithout(c)) = Len(conn_list) - 1
         /\ \A P \in SUBSET DOMAIN conn_list :
              InOrder(conn_list, P) \subseteq Seq(Conn)
<1>1. conn_list \in Seq(Conn) /\ DOMAIN conn_list = 1 .. Len(conn_list)
  BY DEF TypeOK
<1>2. InList \subseteq Conn
  BY <1>1 DEF InList, ToSet
<1>3. ASSUME NEW c \in InList
      PROVE  /\ ListWithout(c) \in Seq(Conn)
             /\ Len(ListWithout(c)) = Len(conn_list) - 1
  BY <1>1, PositionOf, RemoveAtProperties DEF ListWithout
<1>4. ASSUME NEW P \in SUBSET DOMAIN conn_list
      PROVE  InOrder(conn_list, P) \subseteq Seq(Conn)
  BY <1>1, InOrderProperties
<1> QED BY <1>2, <1>3, <1>4

LEMMA SurvivorsArePositions ==
  ASSUME NEW n, NEW map, NEW old PROVE Survivors(n, map, old) \subseteq 1 .. n
BY DEF Survivors

\* The steps that end the process.
Ends == Exit \/ ReadNoRow \/ Undefined

\* The handler of a request other than a pong.
Replied(c) ==
  /\ \E to \in SUBSET Conn : Served(c, to)
  /\ rows' \in SUBSET (rows \cup {c})
  /\ UNCHANGED <<vector, history>>

LEMMA EndStates == Ends => state' # "running"
BY DEF Ends, Exit, ReadNoRow, Undefined

LEMMA ServeCases ==
  ASSUME TypeOK, NEW c \in Conn, NEW m \in Requests, Serve(c, m)
  PROVE  \/ Ends /\ UNCHANGED accepts
         \/ m = "pong" /\ Pong(c)
         \/ Replied(c)
<1>0. InList \subseteq Conn
  BY ListTypes
<1>1. Thrown => Ends /\ UNCHANGED accepts
  BY DEF Thrown, Ends
<1>2. ReadNoRow => Ends /\ UNCHANGED accepts
  BY DEF ReadNoRow, Ends
<1>3. Login(c) => Replied(c)
  BY DEF Login, Replied
<1>4. ASSUME Notify(c) PROVE Thrown \/ Replied(c)
  <2>1. ASSUME NEW to \in SUBSET Conn, Served(c, to),
               UNCHANGED <<vector, rows, history>>
        PROVE  Replied(c)
    BY <2>1 DEF Replied
  <2>2. \A d \in Answers : {c} \cup ({d} \cap InList) \in SUBSET Conn
    BY <1>0
  <2>3. {} \in SUBSET Conn /\ {c} \in SUBSET Conn /\ InList \in SUBSET Conn
    BY <1>0
  <2> HIDE DEF Replied
  <2>4. CASE \E to \in {{}, {c}, InList} :
               Served(c, to) /\ UNCHANGED <<vector, rows, history>>
    BY <2>1, <2>3, <2>4
  <2>5. CASE \E d \in Answers : /\ Served(c, {c} \cup ({d} \cap InList))
                               /\ UNCHANGED <<vector, rows, history>>
    BY <2>1, <2>2, <2>5
  <2> QED BY <1>4, <2>4, <2>5 DEF Notify
<1> QED BY <1>1, <1>2, <1>3, <1>4, Zenon DEF Serve

LEMMA ClearedTypes ==
  ASSUME Cleared, state' \in {"running", "exited", "query", "undefined"},
         database' \in {"up", "lost"}, rows' \subseteq Conn,
         accepts' \in 0 .. MaxAccepts
  PROVE  TypeOK'
<1>1. conn_list' \in Seq(Conn) /\ test_conn_map' \subseteq Nat \ {0}
  BY DEF Cleared
<1>2. /\ sock' \in [Conn -> {"none", "open", "eof", "reset"}]
      /\ read' \in [Conn -> Requests \cup {"none", "pending", "eof", "reset"}]
  BY DEF Cleared
<1> QED BY <1>1, <1>2 DEF Cleared, TypeOK

LEMMA EndsKeepTypes ==
  ASSUME TypeOK, Ends, accepts' \in 0 .. MaxAccepts PROVE TypeOK'
<1>1. Cleared /\ database' = database /\ rows' \subseteq rows
  BY DEF Ends, Exit, ReadNoRow, Undefined, Deleted, tables
<1> QED BY <1>1, ClearedTypes DEF TypeOK, Ends, Exit, ReadNoRow, Undefined

LEMMA ServeKeepsTypes ==
  ASSUME TypeOK, NEW c \in Conn, NEW m \in Requests, Serve(c, m)
  PROVE  TypeOK'
<1>1. CASE Ends /\ UNCHANGED accepts
  BY <1>1, EndsKeepTypes DEF TypeOK
<1>2. CASE Pong(c)
  BY <1>2, ForgottenType DEF Pong, Served, TypeOK
<1>3. CASE Replied(c)
  BY <1>3 DEF Replied, Served, TypeOK, vector, history
<1> QED BY <1>1, <1>2, <1>3, ServeCases

LEMMA TypeStep == TypeOK /\ ListInv /\ [Next]_vars => TypeOK'
<1> SUFFICES ASSUME TypeOK, ListInv, [Next]_vars PROVE TypeOK'
  OBVIOUS
<1>1. ASSUME NEW c \in Conn, NEW m \in Requests, PeerSends(c, m) PROVE TypeOK'
  BY <1>1 DEF PeerSends, TypeOK, vector, tables, history
<1>2. ASSUME NEW c \in Conn, PeerCloses(c) \/ PeerResets(c) \/ ReadFails(c)
      PROVE  TypeOK'
  BY <1>2 DEF PeerCloses, PeerResets, ReadFails, TypeOK, vector, tables, history
<1>3. ASSUME NEW c \in Conn, HandleAccept(c) PROVE TypeOK'
  <2>1. accepts' \in 0 .. MaxAccepts
    BY <1>3, RegistryAssumption DEF HandleAccept, TypeOK
  <2>2. CASE Exit
    BY <2>1, <2>2, EndsKeepTypes DEF Ends
  <2>3. CASE ~Exit
    <3>1. /\ conn_list' = Append(conn_list, c)
          /\ capacity' = (IF Len(conn_list) # capacity THEN capacity
                          ELSE IF capacity = 0 THEN 1 ELSE 2 * capacity)
          /\ moved' = (moved \/ (Len(conn_list) = capacity /\ test_conn_map # {}))
          /\ sock' = [sock EXCEPT ![c] = "open"]
          /\ read' = [read EXCEPT ![c] = "pending"]
          /\ asked' = asked \ {c} /\ silent' = silent \ {c}
          /\ steady' = (steady /\ Len(conn_list) # capacity)
          /\ evicted' = evicted \ {c}
          /\ UNCHANGED <<state, test_conn_map, timer, writing, database, rows>>
      BY <1>3, <2>3 DEF HandleAccept, tables
    <3>2. conn_list' \in Seq(Conn) /\ capacity' \in Nat
      BY <3>1 DEF TypeOK
    <3>3. moved' \in BOOLEAN /\ steady' \in BOOLEAN
      BY <3>1, Zenon DEF TypeOK
    <3> QED BY <2>1, <3>1, <3>2, <3>3 DEF TypeOK
  <2> QED BY <2>2, <2>3
<1>4. ASSUME NEW c \in Conn, OnRead(c), state = "running" PROVE TypeOK'
  <2>1. CASE IgnoreError(c)
    BY <2>1 DEF IgnoreError, TypeOK, vector, tables, history
  <2>2. CASE Ends /\ UNCHANGED accepts
    BY <2>2, EndsKeepTypes DEF TypeOK
  <2>3. CASE \E m \in Requests : Serve(c, m)
    BY <2>3, ServeKeepsTypes
  <2>4. CASE RemoveClient(c) /\ ~Throws(c) /\ sock[c] # "none"
    <3>0. c \in InList
      BY <1>4, <2>4 DEF ListInv, Connected
    <3>1. ListWithout(c) \in Seq(Conn)
      BY <3>0, ListTypes
    <3>2. /\ rows' \subseteq rows /\ conn_list' = ListWithout(c)
          /\ test_conn_map' = ForgetPosition(Position(c))
          /\ sock' = [sock EXCEPT ![c] = "none"]
          /\ read' = [read EXCEPT ![c] = "none"]
          /\ asked' = asked \ {c} /\ silent' = silent \ {c}
          /\ steady' = FALSE
          /\ UNCHANGED <<state, capacity, moved, timer, writing, database, accepts,
                         evicted>>
      BY <2>4 DEF RemoveClient, RowsWithout, Deleted
    <3>3. test_conn_map' \subseteq Nat \ {0}
      BY <3>2, ForgottenType
    <3> QED BY <3>1, <3>2, <3>3 DEF TypeOK
  <2>5. RemoveClient(c) /\ Throws(c) => Ends /\ UNCHANGED accepts
    BY DEF RemoveClient, Thrown, Ends
  <2>6. Undefined => Ends /\ UNCHANGED accepts
    BY DEF Undefined, Ends
  <2> QED BY <1>4, <2>1, <2>2, <2>3, <2>4, <2>5, <2>6, Zenon DEF OnRead
<1>9. ASSUME NEW c \in Conn, OnWrite(c) PROVE TypeOK'
  <2>1. CASE Undefined
    BY <2>1, EndsKeepTypes DEF Undefined, Ends, TypeOK
  <2>2. CASE ~Undefined
    BY <1>9, <2>2 DEF OnWrite, TypeOK, vector, net, tables, history
  <2> QED BY <2>1, <2>2
<1>10. CASE LoseDatabase
  BY <1>10 DEF LoseDatabase, TypeOK, vector, net, history
<1>5. CASE CheckAlive
  <2>1. InList \subseteq Conn
    BY ListTypes
  <2>2. DOMAIN conn_list \subseteq Nat \ {0}
    BY DEF TypeOK
  <2>3. test_conn_map' \subseteq Nat \ {0}
    BY <1>5, <2>2 DEF CheckAlive, Iterators, TypeOK
  <2> QED BY <1>5, <2>1, <2>3 DEF CheckAlive, TypeOK, tables
<1>6. CASE RemoveDead
  <2>1. CASE Undefined
    BY <2>1, EndsKeepTypes DEF Undefined, Ends, TypeOK
  <2>2. CASE ~Undefined
    <3> DEFINE left == Survivors(Len(conn_list), test_conn_map, moved)
               gone == InList \ {conn_list[i] : i \in left}
    <3>1. /\ timer' = "check_alive" /\ test_conn_map' = {}
          /\ conn_list' \in InOrder(conn_list, left)
          /\ sock' = [c \in Conn |-> IF c \in gone THEN "none" ELSE sock[c]]
          /\ read' = [c \in Conn |->
                        IF c \in gone /\ read[c] = "pending" THEN "none"
                        ELSE read[c]]
          /\ asked' = asked \ gone /\ evicted' = evicted \cup gone
          /\ silent' = {} /\ steady' = TRUE
          /\ UNCHANGED <<state, capacity, moved, writing, database, rows, accepts>>
      BY <1>6, <2>2 DEF RemoveDead, tables
    <3>2. left \in SUBSET DOMAIN conn_list
      BY SurvivorsArePositions DEF TypeOK
    <3>3. gone \subseteq Conn /\ conn_list' \in Seq(Conn)
      BY <3>1, <3>2, ListTypes
    <3> HIDE DEF left, gone
    <3> QED BY <3>1, <3>3 DEF TypeOK
  <2> QED BY <2>1, <2>2
<1>7. CASE Restart
  <2>1. /\ Cleared /\ state' = "running" /\ database' \in {"up", "lost"}
        /\ rows' \subseteq rows /\ accepts' = accepts
    BY <1>7 DEF Restart
  <2> QED BY <2>1, ClearedTypes DEF TypeOK
<1>8. CASE UNCHANGED vars
  BY <1>8 DEF vars, vector, net, tables, history, TypeOK
<1> QED BY <1>1, <1>2, <1>3, <1>4, <1>5, <1>6, <1>7, <1>8, <1>9, <1>10
        DEF Next, Running, Dispatch

-----------------------------------------------------------------------------
LEMMA ListKept ==
  ASSUME ListInv, state = "running", UNCHANGED <<conn_list, capacity>>,
         \A c \in Conn : sock'[c] = "none" <=> sock[c] = "none"
  PROVE  ListInv'
<1>1. Connected' = Connected /\ InList' = InList
  BY DEF Connected, InList
<1> QED BY <1>1 DEF ListInv

LEMMA ListStep == TypeOK /\ ListInv /\ [Next]_vars => ListInv'
<1> SUFFICES ASSUME TypeOK, ListInv, [Next]_vars, state' = "running"
             PROVE  ListInv'
  BY DEF ListInv
<1>0. /\ conn_list \in Seq(Conn) /\ DOMAIN conn_list = 1 .. Len(conn_list)
      /\ Len(conn_list) \in Nat /\ capacity \in Nat
      /\ DOMAIN sock = Conn
  BY DEF TypeOK
<1>1. ASSUME state = "running", NEW c \in Conn,
             \/ \E m \in Requests : PeerSends(c, m)
             \/ PeerCloses(c) \/ PeerResets(c) \/ ReadFails(c)
      PROVE  ListInv'
  BY <1>0, <1>1, ListKept DEF PeerSends, PeerCloses, PeerResets, ReadFails, vector
<1>2. ASSUME state = "running", NEW c \in Conn, HandleAccept(c) PROVE ListInv'
  <2>0. ~Exit
    BY EndStates DEF Ends
  <2>1. /\ sock[c] = "none" /\ conn_list' = Append(conn_list, c)
        /\ capacity' = (IF Len(conn_list) # capacity THEN capacity
                        ELSE IF capacity = 0 THEN 1 ELSE 2 * capacity)
        /\ sock' = [sock EXCEPT ![c] = "open"]
    BY <1>2, <2>0 DEF HandleAccept
  <2>2. c \notin InList /\ InList = Connected /\ Len(conn_list) <= capacity
        /\ IsInjective(conn_list)
    BY <1>2, <2>1 DEF ListInv, Connected
  <2>3. InList' = InList \cup {c}
    BY <1>0, <2>1 DEF InList, ToSet
  <2>4. Connected' = Connected \cup {c}
    BY <1>0, <2>1 DEF Connected
  <2>5. IsInjective(conn_list')
    BY <1>0, <2>1, <2>2, InjectiveLists DEF InList
  <2>6. Len(conn_list') <= capacity'
    <3>1. Len(Append(conn_list, c)) = Len(conn_list) + 1
      BY <1>0
    <3>2. Len(conn_list') = Len(conn_list) + 1
      BY <2>1, <3>1
    <3>3. \A n, m \in Nat :
            n <= m => n + 1 <= IF n # m THEN m ELSE IF m = 0 THEN 1 ELSE 2 * m
      OBVIOUS
    <3>4. Len(conn_list) + 1
            <= IF Len(conn_list) # capacity THEN capacity
               ELSE IF capacity = 0 THEN 1 ELSE 2 * capacity
      BY <1>0, <2>2, <3>3, Zenon
    <3> QED BY <2>1, <3>2, <3>4, Zenon
  <2> QED BY <2>2, <2>3, <2>4, <2>5, <2>6 DEF ListInv
<1>3. ASSUME state = "running", NEW c \in Conn, OnRead(c) PROVE ListInv'
  <2>1. CASE IgnoreError(c)
    BY <1>3, <2>1, ListKept DEF IgnoreError, vector
  <2>2. ~Ends
    BY EndStates
  <2>3. CASE \E m \in Requests : Serve(c, m)
    <3>1. Pong(c) \/ Replied(c)
      BY <2>2, <2>3, ServeCases
    <3> QED BY <1>3, <3>1, ListKept DEF Pong, Replied, Served, vector
  <2>4. CASE RemoveClient(c) /\ ~Throws(c) /\ sock[c] # "none"
    <3> DEFINE p == Position(c)
    <3>1. /\ conn_list' = RemoveAt(conn_list, p) /\ capacity' = capacity
          /\ sock' = [sock EXCEPT ![c] = "none"]
      BY <2>4 DEF RemoveClient, ListWithout
    <3>2. InList = Connected /\ Len(conn_list) <= capacity
          /\ IsInjective(conn_list) /\ c \in InList
      BY <1>3, <2>4 DEF ListInv, Connected
    <3>3. p \in 1 .. Len(conn_list) /\ conn_list[p] = c
      BY <1>0, <3>2, PositionOf
    <3> HIDE DEF p
    <3>4. Len(conn_list') = Len(conn_list) - 1
      BY <1>0, <3>1, <3>3, RemoveAtProperties
    <3>5. InList' = InList \ {c}
      BY <1>0, <3>1, <3>2, <3>3, RemoveAtElements DEF InList
    <3>6. Connected' = Connected \ {c}
      BY <1>0, <3>1 DEF Connected
    <3>7. IsInjective(conn_list')
      BY <1>0, <3>1, <3>2, <3>3, InjectiveLists
    <3> QED BY <1>0, <3>1, <3>2, <3>4, <3>5, <3>6, <3>7 DEF ListInv
  <2>5. ~Undefined /\ (RemoveClient(c) => ~Throws(c))
    BY <2>2 DEF RemoveClient, Thrown, Ends
  <2> QED BY <1>3, <2>1, <2>3, <2>4, <2>5, Zenon DEF OnRead
<1>8. ASSUME state = "running", NEW c \in Conn, OnWrite(c) PROVE ListInv'
  <2>1. ~Undefined
    BY EndStates DEF Ends
  <2> QED BY <1>8, <2>1, ListKept DEF OnWrite, vector, net
<1>9. CASE state = "running" /\ LoseDatabase
  BY <1>9, ListKept DEF LoseDatabase, vector, net
<1>4. CASE state = "running" /\ CheckAlive
  BY <1>4, ListKept DEF CheckAlive
<1>5. CASE state = "running" /\ RemoveDead
  <2> DEFINE left == Survivors(Len(conn_list), test_conn_map, moved)
             gone == InList \ {conn_list[i] : i \in left}
  <2>1. /\ conn_list' \in InOrder(conn_list, left) /\ capacity' = capacity
        /\ sock' = [c \in Conn |-> IF c \in gone THEN "none" ELSE sock[c]]
    BY <1>5, EndStates DEF RemoveDead, Ends
  <2>2. InList = Connected /\ Len(conn_list) <= capacity
        /\ IsInjective(conn_list)
    BY <1>5 DEF ListInv
  <2>3. left \in SUBSET (1 .. Len(conn_list))
    BY SurvivorsArePositions
  <2>4. /\ conn_list' \in Seq(Conn) /\ Len(conn_list') <= Len(conn_list)
        /\ ToSet(conn_list') = {conn_list[i] : i \in left}
        /\ IsInjective(conn_list')
    BY <1>0, <2>1, <2>2, <2>3, InOrderProperties
  <2>5. {conn_list[i] : i \in left} \subseteq InList
    BY <1>0, <2>3 DEF InList, ToSet
  <2>6. InList' = InList \ gone
    BY <2>4, <2>5 DEF InList
  <2>7. Connected' = Connected \ gone
    <3> HIDE DEF gone
    <3> QED BY <2>1 DEF Connected
  <2>8. Len(conn_list') <= capacity'
    BY <1>0, <2>1, <2>2, <2>4
  <2> QED BY <2>2, <2>4, <2>6, <2>7, <2>8 DEF ListInv
<1>6. CASE Restart
  BY <1>6 DEF Restart, Cleared, ListInv, InList, Connected, ToSet, IsInjective
<1>7. CASE UNCHANGED vars
  BY <1>7 DEF vars, vector, net, ListInv, InList, Connected
<1> QED BY <1>1, <1>2, <1>3, <1>4, <1>5, <1>6, <1>7, <1>8, <1>9
        DEF Next, Running, Dispatch

LEMMA ListInit == Init => TypeOK /\ ListInv
<1> SUFFICES ASSUME Init PROVE TypeOK /\ ListInv
  OBVIOUS
<1>1. conn_list \in Seq(Conn) /\ accepts \in 0 .. MaxAccepts
  BY RegistryAssumption DEF Init
<1>2. /\ sock \in [Conn -> {"none", "open", "eof", "reset"}]
      /\ read \in [Conn -> Requests \cup {"none", "pending", "eof", "reset"}]
  BY DEF Init
<1>3. TypeOK
  BY <1>1, <1>2 DEF Init, TypeOK
<1>4. ListInv
  BY DEF Init, ListInv, InList, Connected, ToSet, IsInjective
<1> QED BY <1>3, <1>4

\* Every variable keeps to its type.
THEOREM TypeCorrect == Spec => []TypeOK
<1>1. TypeOK /\ ListInv /\ [Next]_vars => (TypeOK /\ ListInv)'
  BY TypeStep, ListStep
<1> QED BY <1>1, ListInit, PTL DEF Spec

LEMMA Listed == Spec => []ListInv
<1>1. TypeOK /\ ListInv /\ [Next]_vars => (TypeOK /\ ListInv)'
  BY TypeStep, ListStep
<1> QED BY <1>1, ListInit, PTL DEF Spec

\* The vector holds each connection that exists once and nothing else, and has
\* the room for it.
THEOREM ListCorrect == Spec => []ListIsExact
<1>1. TypeOK /\ ListInv => ListIsExact
  <2> SUFFICES ASSUME TypeOK, ListInv, state = "running"
               PROVE  /\ InList = Connected /\ Len(conn_list) = Cardinality(InList)
                      /\ Len(conn_list) <= capacity
    BY DEF ListIsExact, Connected
  <2>1. InList = Connected /\ IsInjective(conn_list) /\ Len(conn_list) <= capacity
    BY DEF ListInv
  <2>2. Len(conn_list) = Cardinality(InList)
    BY <2>1, LengthIsCardinality DEF TypeOK, InList
  <2> QED BY <2>1, <2>2
<1> QED BY <1>1, TypeCorrect, Listed, PTL

-----------------------------------------------------------------------------
(* The rows *)

LEMMA RowsKept ==
  ASSUME StaleRowsAreEvicted, state = "running", InList \subseteq InList',
         rows' \subseteq rows \cup InList, database' = "up" => database = "up",
         evicted \ InList' \subseteq evicted'
  PROVE  StaleRowsAreEvicted'
BY DEF StaleRowsAreEvicted

LEMMA RowsStep ==
  TypeOK /\ ListInv /\ StaleRowsAreEvicted /\ [Next]_vars => StaleRowsAreEvicted'
<1> SUFFICES ASSUME TypeOK, ListInv, StaleRowsAreEvicted, [Next]_vars,
                    state' = "running"
             PROVE  StaleRowsAreEvicted'
  BY DEF StaleRowsAreEvicted
<1>0. /\ conn_list \in Seq(Conn) /\ DOMAIN conn_list = 1 .. Len(conn_list)
      /\ ~Ends
  BY EndStates DEF TypeOK
<1>1. ASSUME state = "running", NEW c \in Conn,
             \/ \E m \in Requests : PeerSends(c, m)
             \/ PeerCloses(c) \/ PeerResets(c) \/ ReadFails(c) \/ IgnoreError(c)
      PROVE  StaleRowsAreEvicted'
  BY <1>1, RowsKept DEF PeerSends, PeerCloses, PeerResets, ReadFails, IgnoreError,
     vector, tables, history, InList
<1>2. ASSUME state = "running", NEW c \in Conn, HandleAccept(c)
      PROVE  StaleRowsAreEvicted'
  <2>1. /\ conn_list' = Append(conn_list, c) /\ evicted' = evicted \ {c}
        /\ UNCHANGED <<database, rows>>
    BY <1>0, <1>2 DEF HandleAccept, Ends, tables
  <2>2. InList' = InList \cup {c}
    BY <1>0, <2>1 DEF InList, ToSet
  <2> QED BY <1>2, <2>1, <2>2, RowsKept
<1>3. ASSUME state = "running", NEW c \in Conn, OnRead(c)
      PROVE  StaleRowsAreEvicted'
  <2>1. CASE \E m \in Requests : Serve(c, m) /\ sock[c] # "none"
    <3>1. c \in InList
      BY <1>3, <2>1 DEF ListInv, Connected
    <3>2. Pong(c) \/ Replied(c)
      BY <1>0, <2>1, ServeCases
    <3> QED BY <1>3, <3>1, <3>2, RowsKept
            DEF Pong, Replied, Served, vector, history, InList
  <2>2. CASE RemoveClient(c) /\ ~Throws(c) /\ sock[c] # "none"
    <3>1. c \in InList /\ IsInjective(conn_list)
      BY <1>3, <2>2 DEF ListInv, Connected
    <3>2. Position(c) \in 1 .. Len(conn_list) /\ conn_list[Position(c)] = c
      BY <1>0, <3>1, PositionOf
    <3>3. InList' = InList \ {c}
      BY <1>0, <2>2, <3>1, <3>2, RemoveAtElements
         DEF InList, RemoveClient, ListWithout
    <3>4. /\ database = "up" => rows' = rows \ {c}
          /\ evicted' = evicted /\ database' = database
      BY <2>2 DEF RemoveClient, RowsWithout, Deleted
    <3> QED BY <1>3, <3>3, <3>4 DEF StaleRowsAreEvicted
  <2>3. ~Undefined /\ (RemoveClient(c) => ~Throws(c))
    BY <1>0 DEF RemoveClient, Thrown, Ends
  <2>4. CASE IgnoreError(c)
    BY <1>1, <1>3, <2>4
  <2> QED BY <1>3, <2>1, <2>2, <2>3, <2>4, Zenon DEF OnRead
<1>8. ASSUME state = "running", NEW c \in Conn, OnWrite(c)
      PROVE  StaleRowsAreEvicted'
  BY <1>0, <1>8, RowsKept DEF OnWrite, Ends, vector, tables, history, InList
<1>9. CASE state = "running" /\ LoseDatabase
  BY <1>9 DEF LoseDatabase, StaleRowsAreEvicted
<1>4. CASE state = "running" /\ CheckAlive
  BY <1>4, RowsKept DEF CheckAlive, tables, InList
<1>5. CASE state = "running" /\ RemoveDead
  <2> DEFINE left == Survivors(Len(conn_list), test_conn_map, moved)
             gone == InList \ {conn_list[i] : i \in left}
  <2>1. /\ conn_list' \in InOrder(conn_list, left) /\ UNCHANGED tables
        /\ evicted' = evicted \cup gone
    BY <1>0, <1>5 DEF RemoveDead, Ends
  <2>2. InList' = {conn_list[i] : i \in left}
    BY <1>0, <2>1, SurvivorsArePositions, InOrderProperties DEF InList
  <2> QED BY <1>5, <2>1, <2>2 DEF StaleRowsAreEvicted, tables
<1>6. CASE Restart
  BY <1>6 DEF Restart, StaleRowsAreEvicted
<1>7. CASE UNCHANGED vars
  BY <1>7 DEF vars, vector, tables, history, StaleRowsAreEvicted, InList
<1> QED BY <1>1, <1>2, <1>3, <1>4, <1>5, <1>6, <1>7, <1>8, <1>9
        DEF Next, Running, Dispatch

\* While the database is there, a row of OnlineUser without a connection is one
\* that remove_dead left.
THEOREM RowsCorrect == Spec => []StaleRowsAreEvicted
<1>1. Init => StaleRowsAreEvicted
  BY DEF Init, StaleRowsAreEvicted
<1> QED BY <1>1, RowsStep, TypeCorrect, Listed, PTL DEF Spec

-----------------------------------------------------------------------------
(* The window between the pings and remove_dead *)

\* The keys are exact while the window is steady, empty outside of windows, and
\* the connections pinged are still in the list.
WindowInv ==
  /\ KeysAreUnanswered
  /\ state = "running" =>
       /\ timer = "check_alive" => test_conn_map = {}
       /\ timer = "remove_dead" /\ steady => moved = FALSE
       /\ silent \subseteq InList

windowVars == <<timer, vector, silent, steady>>

LEMMA WindowKept ==
  ASSUME WindowInv, state = "running", UNCHANGED windowVars
  PROVE  WindowInv'
BY DEF WindowInv, KeysAreUnanswered, windowVars, vector, InList

LEMMA WindowAccept ==
  ASSUME TypeOK, ListInv, WindowInv, state = "running", state' = "running",
         NEW c \in Conn, HandleAccept(c)
  PROVE  WindowInv'
<1>0. conn_list \in Seq(Conn) /\ DOMAIN conn_list = 1 .. Len(conn_list)
  BY DEF TypeOK
<1>1. /\ sock[c] = "none" /\ conn_list' = Append(conn_list, c)
      /\ moved' = (moved \/ (Len(conn_list) = capacity /\ test_conn_map # {}))
      /\ silent' = silent \ {c}
      /\ steady' = (steady /\ Len(conn_list) # capacity)
      /\ UNCHANGED <<test_conn_map, timer>>
  BY EndStates DEF HandleAccept, Ends
<1>2. c \notin InList
  BY <1>1 DEF ListInv, Connected
<1>3. /\ DOMAIN conn_list' = 1 .. Len(conn_list) + 1
      /\ \A i \in DOMAIN conn_list : conn_list'[i] = conn_list[i]
      /\ conn_list'[Len(conn_list) + 1] = c
      /\ InList' = InList \cup {c}
  BY <1>0, <1>1 DEF InList, ToSet
<1>4. silent' \subseteq InList'
  BY <1>1, <1>3 DEF WindowInv
<1>5. ASSUME timer' = "remove_dead", steady'
      PROVE  /\ moved' = FALSE
             /\ test_conn_map' = {i \in DOMAIN conn_list' :
                                    conn_list'[i] \in silent'}
  <2>1. /\ moved' = FALSE
        /\ test_conn_map = {i \in DOMAIN conn_list : conn_list[i] \in silent}
    BY <1>1, <1>5 DEF WindowInv, KeysAreUnanswered
  <2>2. \A i \in DOMAIN conn_list : conn_list[i] # c
    BY <1>2 DEF InList, ToSet
  <2>3. \A i : i \in DOMAIN conn_list' <=>
                i \in DOMAIN conn_list \/ i = Len(conn_list) + 1
    BY <1>0, <1>3
  <2> QED BY <1>1, <1>3, <2>1, <2>2, <2>3
<1>6. timer' = "check_alive" => test_conn_map' = {}
  BY <1>1 DEF WindowInv
<1> QED BY <1>4, <1>5, <1>6 DEF WindowInv, KeysAreUnanswered

LEMMA WindowPong ==
  ASSUME TypeOK, ListInv, WindowInv, state = "running", NEW c \in Conn,
         sock[c] # "none", Pong(c)
  PROVE  WindowInv'
<1>1. /\ test_conn_map' = ForgetPosition(Position(c)) /\ silent' = silent \ {c}
      /\ UNCHANGED <<state, conn_list, moved, timer, steady>>
  BY DEF Pong, Served
<1>2. c \in InList /\ IsInjective(conn_list)
  BY DEF ListInv, Connected
<1>3. Position(c) \in DOMAIN conn_list /\ conn_list[Position(c)] = c
  BY <1>2, PositionOf
<1>4. \A i \in DOMAIN conn_list : conn_list[i] = c <=> i = Position(c)
  BY <1>2, <1>3, Zenon DEF IsInjective
<1>5. ASSUME timer = "remove_dead", steady
      PROVE  test_conn_map' = {i \in DOMAIN conn_list : conn_list[i] \in silent'}
  <2>1. /\ moved = FALSE
        /\ test_conn_map = {i \in DOMAIN conn_list : conn_list[i] \in silent}
    BY <1>5 DEF WindowInv, KeysAreUnanswered
  <2>2. test_conn_map' = test_conn_map \ {Position(c)}
    BY <1>1, <2>1 DEF ForgetPosition
  <2> HIDE DEF Position
  <2> QED BY <1>1, <1>4, <2>1, <2>2
<1>6. test_conn_map' \subseteq test_conn_map
  BY <1>1 DEF ForgetPosition
<1>7. InList' = InList
  BY <1>1 DEF InList
<1> QED BY <1>1, <1>5, <1>6, <1>7 DEF WindowInv, KeysAreUnanswered

LEMMA WindowRemove ==
  ASSUME TypeOK, ListInv, WindowInv, state = "running", NEW c \in Conn,
         sock[c] # "none", ~Throws(c), RemoveClient(c)
  PROVE  WindowInv'
<1>1. /\ conn_list' = RemoveAt(conn_list, Position(c)) /\ steady' = FALSE
      /\ test_conn_map' = ForgetPosition(Position(c))
      /\ silent' = silent \ {c} /\ timer' = timer
  BY DEF RemoveClient, ListWithout
<1>2. c \in InList /\ IsInjective(conn_list)
  BY DEF ListInv, Connected
<1>3. Position(c) \in 1 .. Len(conn_list) /\ conn_list[Position(c)] = c
  BY <1>2, PositionOf DEF TypeOK
<1>4. InList' = InList \ {c}
  BY <1>1, <1>2, <1>3, RemoveAtElements DEF InList, TypeOK
<1>5. test_conn_map' \subseteq test_conn_map
  BY <1>1 DEF ForgetPosition
<1> QED BY <1>1, <1>4, <1>5 DEF WindowInv, KeysAreUnanswered

LEMMA WindowStep ==
  TypeOK /\ ListInv /\ WindowInv /\ [Next]_vars => WindowInv'
<1> SUFFICES ASSUME TypeOK, ListInv, WindowInv, [Next]_vars, state' = "running"
             PROVE  WindowInv'
  BY DEF WindowInv, KeysAreUnanswered
<1>1. ASSUME state = "running", NEW c \in Conn,
             \/ \E m \in Requests : PeerSends(c, m)
             \/ PeerCloses(c) \/ PeerResets(c) \/ ReadFails(c) \/ IgnoreError(c)
      PROVE  WindowInv'
  BY <1>1, WindowKept DEF PeerSends, PeerCloses, PeerResets, ReadFails, IgnoreError,
     history, windowVars
<1>2. ASSUME state = "running", NEW c \in Conn, HandleAccept(c) PROVE WindowInv'
  BY <1>2, WindowAccept
<1>0. ~Ends
  BY EndStates
<1>3. ASSUME state = "running", NEW c \in Conn, OnRead(c) PROVE WindowInv'
  <2>1. ASSUME NEW m \in Requests, Serve(c, m), sock[c] # "none" PROVE WindowInv'
    <3>1. Pong(c) \/ Replied(c)
      BY <1>0, <2>1, ServeCases
    <3>2. CASE Pong(c)
      BY <1>3, <2>1, <3>2, WindowPong
    <3>3. CASE Replied(c)
      BY <1>3, <3>3, WindowKept DEF Replied, Served, history, windowVars
    <3> QED BY <3>1, <3>2, <3>3
  <2>2. ~Undefined /\ (RemoveClient(c) => ~Throws(c))
    BY <1>0 DEF RemoveClient, Thrown, Ends
  <2>3. CASE RemoveClient(c) /\ sock[c] # "none"
    BY <1>3, <2>2, <2>3, WindowRemove
  <2>4. CASE IgnoreError(c)
    BY <1>1, <1>3, <2>4
  <2> QED BY <1>3, <2>1, <2>2, <2>3, <2>4, Zenon DEF OnRead
<1>8. ASSUME state = "running", NEW c \in Conn, OnWrite(c) PROVE WindowInv'
  BY <1>0, <1>8, WindowKept DEF OnWrite, Ends, history, windowVars
<1>9. CASE state = "running" /\ LoseDatabase
  BY <1>9, WindowKept DEF LoseDatabase, history, windowVars
<1>4. CASE state = "running" /\ CheckAlive
  <2>1. /\ timer' = "remove_dead" /\ test_conn_map' = DOMAIN conn_list
        /\ moved' = FALSE /\ silent' = InList /\ conn_list' = conn_list
    BY <1>4 DEF CheckAlive, Iterators, WindowInv
  <2>2. DOMAIN conn_list = {i \in DOMAIN conn_list : conn_list[i] \in InList}
    BY DEF InList, ToSet
  <2> QED BY <2>1, <2>2 DEF WindowInv, KeysAreUnanswered, InList
<1>5. CASE state = "running" /\ RemoveDead
  <2>1. timer' = "check_alive" /\ test_conn_map' = {} /\ silent' = {}
    BY <1>0, <1>5 DEF RemoveDead, Ends
  <2> QED BY <2>1 DEF WindowInv, KeysAreUnanswered
<1>6. CASE Restart
  BY <1>6 DEF Restart, Cleared, WindowInv, KeysAreUnanswered
<1>7. CASE UNCHANGED vars
  BY <1>7 DEF vars, vector, history, WindowInv, KeysAreUnanswered, InList
<1> QED BY <1>1, <1>2, <1>3, <1>4, <1>5, <1>6, <1>7, <1>8, <1>9
        DEF Next, Running, Dispatch

LEMMA Windows == Spec => []WindowInv
<1>1. Init => WindowInv
  BY DEF Init, WindowInv, KeysAreUnanswered
<1> QED BY <1>1, WindowStep, TypeCorrect, Listed, PTL DEF Spec

\* While nobody leaves and the vector does not move, the keys of test_conn_map
\* are the connections that have not answered.
THEOREM KeysCorrect == Spec => []KeysAreUnanswered
<1>1. WindowInv => KeysAreUnanswered
  BY DEF WindowInv
<1> QED BY <1>1, Windows, PTL

-----------------------------------------------------------------------------
(* What remove_dead does *)

\* The register leads to undefined behaviour only by a completion for a connection
\* that is gone, or by what remove_dead has to erase: in a steady window, that is
\* somebody's silence.
THEOREM RaceCorrect == Spec => UndefinedNeedsRace
<1> DEFINE Gone == \E c \in Conn :
                     sock[c] = "none"
                     /\ (read[c] \in Requests \cup {"eof"} \/ c \in writing)
           Erases == timer = "remove_dead" /\ (steady => silent # {})
<1>1. ASSUME TypeOK, WindowInv, Next, state = "running", state' = "undefined"
      PROVE  Gone \/ Erases
  <2>0. ~Exit /\ ~ReadNoRow
    BY <1>1 DEF Exit, ReadNoRow
  <2>1. ASSUME NEW c \in Conn,
               \/ \E m \in Requests : PeerSends(c, m)
               \/ PeerCloses(c) \/ PeerResets(c) \/ ReadFails(c) \/ HandleAccept(c)
        PROVE  FALSE
    BY <1>1, <2>0, <2>1
       DEF PeerSends, PeerCloses, PeerResets, ReadFails, HandleAccept
  <2>2. ~LoseDatabase /\ ~CheckAlive /\ ~Restart
    BY <1>1 DEF LoseDatabase, CheckAlive, Restart
  <2>3. ASSUME NEW c \in Conn, OnRead(c) PROVE Gone
    <3>1. ~IgnoreError(c) /\ ~RemoveClient(c)
      BY <1>1, <2>0 DEF IgnoreError, RemoveClient, Thrown
    <3>2. ASSUME NEW m \in Requests PROVE ~Serve(c, m)
      <4>1. ~Thrown /\ ~Pong(c) /\ ~Login(c)
        BY <1>1, <2>0 DEF Thrown, Pong, Login, Served
      <4>2. ~Notify(c)
        BY <1>1, <4>1 DEF Notify, Served
      <4> QED BY <2>0, <4>1, <4>2, Zenon DEF Serve
    <3> QED BY <2>3, <3>1, <3>2, Zenon DEF OnRead
  <2>4. ASSUME NEW c \in Conn, OnWrite(c) PROVE Gone
    BY <1>1, <2>4 DEF OnWrite
  <2>5. CASE RemoveDead
    <3>1. timer = "remove_dead" /\ test_conn_map # {}
      BY <1>1, <2>5 DEF RemoveDead
    <3>2. steady => silent # {}
      BY <1>1, <3>1 DEF WindowInv, KeysAreUnanswered
    <3> QED BY <3>1, <3>2
  <2> HIDE DEF Gone, Erases
  <2> QED BY <1>1, <2>1, <2>2, <2>3, <2>4, <2>5, Zenon DEF Next, Running, Dispatch
<1>2. TypeOK /\ WindowInv /\ [Next]_vars
        => [state = "running" /\ state' = "undefined" => Gone \/ Erases]_vars
  BY <1>1
<1> QED BY <1>2, TypeCorrect, Windows, PTL DEF Spec, UndefinedNeedsRace

\* With no key or one, the loop erases just what stands there.
LEMMA SingleErasure ==
  ASSUME NEW n \in Nat
  PROVE  /\ Survivors(n, {}, FALSE) = 1 .. n
         /\ \A i \in 1 .. n : Survivors(n, {i}, FALSE) = (1 .. n) \ {i}
<1>1. IsFiniteSet(1 .. n) /\ Cardinality(1 .. n) = n
  BY Count
<1>2. ASSUME NEW S \in SUBSET (1 .. n), NEW j \in S
      PROVE  Cardinality({k \in S : k <= j}) <= Cardinality(S)
  BY <1>1, FS_Subset
<1>3. Survivors(n, {}, FALSE) = 1 .. n
  <2>1. Hit({}) = {} /\ Cardinality({}) = 0
    BY FS_EmptySet DEF Hit
  <2>2. \A j \in 1 .. n : Cardinality({k \in 1 .. n : k <= j}) <= n - 0
    BY <1>1, <1>2
  <2> QED BY <2>1, <2>2 DEF Survivors
<1>4. ASSUME NEW i \in 1 .. n
      PROVE  Survivors(n, {i}, FALSE) = (1 .. n) \ {i}
  <2>1. Cardinality({k \in {i} : k < i}) = 0 /\ Cardinality({i}) = 1
    <3>1. {k \in {i} : k < i} = {}
      OBVIOUS
    <3> QED BY <3>1, FS_EmptySet, FS_Singleton
  <2>2. Hit({i}) = {i}
    BY <2>1 DEF Hit
  <2>3. Cardinality((1 .. n) \ {i}) = n - 1
    BY <1>1, FS_RemoveElement
  <2>4. \A j \in (1 .. n) \ {i} :
          Cardinality({k \in (1 .. n) \ {i} : k <= j}) <= n - 1
    BY <1>2, <2>3
  <2> QED BY <2>1, <2>2, <2>4 DEF Survivors
<1> QED BY <1>3, <1>4

\* In a window in which nobody leaves, with one silent connection at most,
\* remove_dead drops the silent connection and no other.
THEOREM EvictionCorrect == Spec => EvictsTheSilent
<1>1. ASSUME TypeOK, ListInv, WindowInv, Next, CloseWindow, steady,
             Cardinality(silent) <= 1
      PROVE  evicted' \ evicted \subseteq silent /\ InList' = InList \ silent
  <2> DEFINE left == Survivors(Len(conn_list), test_conn_map, moved)
             gone == InList \ {conn_list[i] : i \in left}
  <2>0. /\ conn_list \in Seq(Conn) /\ DOMAIN conn_list = 1 .. Len(conn_list)
        /\ Len(conn_list) \in Nat /\ state = "running" /\ timer = "remove_dead"
    BY <1>1 DEF TypeOK, CloseWindow
  <2>1. RemoveDead /\ ~Undefined
    <3>1. timer # timer' /\ state' = "running" /\ ~Ends
      BY <1>1, EndStates DEF CloseWindow
    <3>2. ASSUME NEW c \in Conn PROVE ~OnRead(c) /\ ~OnWrite(c)
      <4>1. ~IgnoreError(c) /\ ~Undefined /\ ~RemoveClient(c)
        BY <3>1 DEF IgnoreError, RemoveClient, Thrown, Ends
      <4>2. \A m \in Requests : ~Serve(c, m)
        BY <1>1, <3>1, ServeCases DEF Pong, Replied, Served
      <4>3. ~OnWrite(c)
        BY <3>1, <4>1 DEF OnWrite
      <4> QED BY <4>1, <4>2, <4>3, Zenon DEF OnRead
    <3>3. ASSUME NEW c \in Conn
          PROVE  /\ ~HandleAccept(c) /\ ~PeerCloses(c) /\ ~PeerResets(c)
                 /\ ~ReadFails(c) /\ \A m \in Requests : ~PeerSends(c, m)
      BY <3>1 DEF HandleAccept, Ends, PeerCloses, PeerResets, ReadFails, PeerSends
    <3>4. ~CheckAlive /\ ~Restart /\ ~LoseDatabase
      BY <2>0, <3>1 DEF CheckAlive, Restart, LoseDatabase
    <3> QED BY <1>1, <3>1, <3>2, <3>3, <3>4
            DEF Next, Running, Dispatch, Ends
  <2>2. conn_list' \in InOrder(conn_list, left) /\ evicted' = evicted \cup gone
    BY <2>1 DEF RemoveDead
  <2>3. InList' = {conn_list[i] : i \in left}
    BY <2>0, <2>2, SurvivorsArePositions, InOrderProperties DEF InList
  <2>4. /\ moved = FALSE /\ IsInjective(conn_list) /\ silent \subseteq InList
        /\ test_conn_map = {i \in DOMAIN conn_list : conn_list[i] \in silent}
    BY <1>1, <2>0 DEF WindowInv, KeysAreUnanswered, ListInv
  <2>5. InList = {conn_list[i] : i \in 1 .. Len(conn_list)}
    BY <2>0 DEF InList, ToSet
  <2>6. silent = {} \/ \E c : silent = {c}
    <3>1. IsFiniteSet(InList)
      BY <2>0, <2>4, LengthIsCardinality DEF InList
    <3>2. IsFiniteSet(silent)
      BY <2>4, <3>1, FS_Subset
    <3>3. Cardinality(silent) = 0 \/ Cardinality(silent) = 1
      BY <1>1, <3>2, FS_CardinalityType
    <3> QED BY <3>2, <3>3, FS_EmptySet, FS_Singleton
  <2>7. CASE silent = {}
    <3>1. test_conn_map = {}
      BY <2>4, <2>7
    <3>2. left = 1 .. Len(conn_list)
      BY <2>0, <2>4, <3>1, SingleErasure
    <3> QED BY <2>2, <2>3, <2>5, <2>7, <3>2
  <2>8. ASSUME NEW c, silent = {c}
        PROVE  evicted' \ evicted \subseteq silent /\ InList' = InList \ silent
    <3>1. PICK i \in 1 .. Len(conn_list) : conn_list[i] = c
      BY <2>4, <2>5, <2>8
    <3>2. \A j \in 1 .. Len(conn_list) : conn_list[j] = c <=> j = i
      BY <2>0, <2>4, <3>1, Zenon DEF IsInjective
    <3>3. test_conn_map = {i}
      BY <2>0, <2>4, <2>8, <3>2
    <3>4. left = (1 .. Len(conn_list)) \ {i}
      BY <2>0, <2>4, <3>3, SingleErasure
    <3>5. InList' = InList \ {c}
      BY <2>3, <2>5, <3>2, <3>4
    <3> QED BY <2>2, <2>3, <2>8, <3>5
  <2> QED BY <2>6, <2>7, <2>8
<1>2. TypeOK /\ ListInv /\ WindowInv /\ [Next]_vars
        => [CloseWindow /\ steady /\ Cardinality(silent) <= 1
              => evicted' \ evicted \subseteq silent
                 /\ InList' = InList \ silent]_vars
  BY <1>1
<1> QED BY <1>2, TypeCorrect, Listed, Windows, PTL DEF Spec, EvictsTheSilent

=============================================================================
