-------------------------- MODULE ChatServerProofs --------------------------
(***************************************************************************)
(* Proofs about module ChatServer, for every set of users and endpoints    *)
(* and every bound on the rows.                                            *)
(***************************************************************************)
EXTENDS ChatServer, SequenceTheorems, TLAPS

\* A row of OnlineUser names a connection that its user has logged in on,
\* unless that connection is gone and its rows were left behind.
RowsHaveLogins ==
  \A u \in User, c \in Conn :
    <<u, c>> \in online => u \in loggedIn[c] \/ c \in orphaned

Inv ==
  /\ TypeOK
  /\ FriendsAreMutual
  /\ OneApplication
  /\ RowsHaveLogins

-----------------------------------------------------------------------------
(* Rows of Relation and application *)

\* What an insert and a delete do to a table, row by row.
LEMMA TableRows ==
  ASSUME NEW S, NEW table \in [Pair -> S], NEW row \in Pair
  PROVE  /\ Insert(table, row) = [p \in Pair |-> IF p = row THEN table[p] + 1
                                                 ELSE table[p]]
         /\ Delete(table, row) = [p \in Pair |-> IF p = row THEN 0
                                                 ELSE table[p]]
  BY DEF Insert, Delete

\* Relation after both inserts, of a pair of different users.
LEMMA BefriendedRows ==
  ASSUME TypeOK, NEW u \in User, NEW v \in User \ {u},
         relation[<<u, v>>] < MaxRows, relation[<<v, u>>] < MaxRows
  PROVE  /\ Befriended(u, v) \in [Pair -> 0 .. MaxRows]
         /\ \A p \in Pair :
              Befriended(u, v)[p] = IF p \in {<<u, v>>, <<v, u>>}
                                    THEN relation[p] + 1 ELSE relation[p]
<1>1. <<u, v>> \in Pair /\ <<v, u>> \in Pair /\ <<u, v>> # <<v, u>>
  BY DEF Pair
<1>2. relation \in [Pair -> 0 .. MaxRows] /\ MaxRows \in Nat
  BY ChatServerAssumption DEF TypeOK
<1> DEFINE first == [p \in Pair |-> IF p = <<v, u>> THEN relation[p] + 1
                                    ELSE relation[p]]
<1>3. Insert(relation, <<v, u>>) = first
  BY <1>1, <1>2 DEF Insert
<1>4. first \in [Pair -> 0 .. MaxRows]
  BY <1>1, <1>2
<1>5. Befriended(u, v) = [p \in Pair |-> IF p = <<u, v>> THEN first[p] + 1
                                         ELSE first[p]]
  <2> HIDE DEF first
  <2>1. Insert(first, <<u, v>>) = [p \in Pair |-> IF p = <<u, v>>
                                                 THEN first[p] + 1
                                                 ELSE first[p]]
    BY <1>1, <1>4, TableRows
  <2> QED BY <1>3, <2>1 DEF Befriended
<1> QED BY <1>1, <1>2, <1>5

\* Relation after both deletes.
LEMMA UnfriendedRows ==
  ASSUME TypeOK, NEW u \in User, NEW v \in User
  PROVE  /\ Unfriended(u, v) \in [Pair -> 0 .. MaxRows]
         /\ \A p \in Pair :
              Unfriended(u, v)[p] = IF p \in {<<u, v>>, <<v, u>>} THEN 0
                                    ELSE relation[p]
<1>1. <<u, v>> \in Pair /\ <<v, u>> \in Pair
  BY DEF Pair
<1>2. relation \in [Pair -> 0 .. MaxRows] /\ MaxRows \in Nat
  BY ChatServerAssumption DEF TypeOK
<1> DEFINE first == [p \in Pair |-> IF p = <<u, v>> THEN 0 ELSE relation[p]]
<1>3. Delete(relation, <<u, v>>) = first
  BY <1>1, <1>2 DEF Delete
<1>4. first \in [Pair -> 0 .. MaxRows]
  BY <1>1, <1>2
<1>5. Unfriended(u, v) = [p \in Pair |-> IF p = <<v, u>> THEN 0 ELSE first[p]]
  <2> HIDE DEF first
  <2>1. Delete(first, <<v, u>>) = [p \in Pair |-> IF p = <<v, u>> THEN 0
                                                 ELSE first[p]]
    BY <1>1, <1>4, TableRows
  <2> QED BY <1>3, <2>1 DEF Unfriended
<1> QED BY <1>1, <1>2, <1>5

-----------------------------------------------------------------------------
(* What each change of a table keeps of the invariant *)

Friendships ==
  relation \in [Pair -> 0 .. MaxRows] /\ cut \subseteq SUBSET User
Applications == application \in [Pair -> Nat] /\ OneApplication

LEMMA PairFacts ==
  ASSUME TypeOK, NEW u \in User, NEW v \in User
  PROVE  /\ <<u, v>> \in Pair /\ <<v, u>> \in Pair /\ {u, v} \in SUBSET User
         /\ relation \in [Pair -> 0 .. MaxRows] /\ MaxRows \in Nat
         /\ application \in [Pair -> Nat] /\ cut \subseteq SUBSET User
  BY ChatServerAssumption DEF TypeOK, Pair

\* Both deletes.
LEMMA DeletingBoth ==
  ASSUME Inv, NEW u \in User, NEW v \in User,
         relation' = Unfriended(u, v), cut' = cut \ {{u, v}}
  PROVE  Friendships' /\ FriendsAreMutual'
<1>0. TypeOK /\ <<u, v>> \in Pair /\ <<v, u>> \in Pair
  BY DEF Inv, Pair
<1>1. /\ relation' \in [Pair -> 0 .. MaxRows]
      /\ \A p \in Pair : relation'[p] = IF p \in {<<u, v>>, <<v, u>>} THEN 0
                                        ELSE relation[p]
  BY <1>0, UnfriendedRows
<1>2. Friendships'
  BY <1>0, <1>1 DEF Friendships, TypeOK
<1>3. FriendsAreMutual'
  <2> SUFFICES ASSUME NEW x \in User, NEW y \in User, {x, y} \notin cut'
               PROVE  relation'[<<x, y>>] = relation'[<<y, x>>]
    BY DEF FriendsAreMutual
  <2>1. CASE {x, y} = {u, v}
    BY <1>1, <2>1 DEF Pair
  <2>2. CASE {x, y} # {u, v}
    BY <1>1, <2>2 DEF Inv, FriendsAreMutual, Pair
  <2> QED BY <2>1, <2>2
<1> QED BY <1>2, <1>3

\* Both inserts.
LEMMA InsertingBoth ==
  ASSUME Inv, NEW u \in User, NEW v \in User \ {u},
         relation[<<u, v>>] < MaxRows, relation[<<v, u>>] < MaxRows,
         relation' = Befriended(u, v), cut' = cut
  PROVE  Friendships' /\ FriendsAreMutual'
<1>0. TypeOK /\ <<u, v>> \in Pair /\ <<v, u>> \in Pair
  BY DEF Inv, Pair
<1>1. /\ relation' \in [Pair -> 0 .. MaxRows]
      /\ \A p \in Pair : relation'[p] = IF p \in {<<u, v>>, <<v, u>>}
                                        THEN relation[p] + 1 ELSE relation[p]
  BY <1>0, BefriendedRows
<1> QED BY <1>0, <1>1 DEF Inv, TypeOK, Friendships, FriendsAreMutual, Pair

\* One of the two only, so that the pair is cut.
LEMMA ChangingOne ==
  ASSUME Inv, NEW u \in User, NEW v \in User, cut' = cut \cup {{u, v}},
         \/ relation' = Delete(relation, <<u, v>>)
         \/ relation[<<v, u>>] < MaxRows /\ relation' = Insert(relation, <<v, u>>)
  PROVE  Friendships' /\ FriendsAreMutual'
<1>0. /\ <<u, v>> \in Pair /\ <<v, u>> \in Pair /\ {u, v} \in SUBSET User
      /\ relation \in [Pair -> 0 .. MaxRows] /\ MaxRows \in Nat
      /\ cut \subseteq SUBSET User
  BY PairFacts DEF Inv
<1>1. CASE relation' = Delete(relation, <<u, v>>)
  <2>1. relation' = [p \in Pair |-> IF p = <<u, v>> THEN 0 ELSE relation[p]]
    BY <1>0, <1>1 DEF Delete
  <2> QED BY <1>0, <2>1 DEF Inv, Friendships, FriendsAreMutual, Pair
<1>2. CASE /\ relation[<<v, u>>] < MaxRows
           /\ relation' = Insert(relation, <<v, u>>)
  <2>1. relation' = [p \in Pair |-> IF p = <<v, u>> THEN relation[p] + 1
                                    ELSE relation[p]]
    <3>1. Insert(relation, <<v, u>>) =
            [p \in Pair |-> IF p = <<v, u>> THEN relation[p] + 1
                            ELSE relation[p]]
      BY <1>0 DEF Insert
    <3>2. relation' = Insert(relation, <<v, u>>)
      BY <1>2
    <3> QED BY <3>1, <3>2
  <2> QED BY <1>0, <1>2, <2>1 DEF Inv, Friendships, FriendsAreMutual, Pair
<1> QED BY <1>1, <1>2

\* An application is entered only when there is none.
LEMMA Applying ==
  ASSUME Inv, NEW u \in User, NEW v \in User, CanApply(u, v),
         application' = Insert(application, <<u, v>>)
  PROVE  Applications'
<1>0. <<u, v>> \in Pair /\ application \in [Pair -> Nat]
  BY PairFacts DEF Inv
<1>1. application' = [p \in Pair |-> IF p = <<u, v>> THEN application[p] + 1
                                     ELSE application[p]]
  BY <1>0, TableRows
<1>2. application[<<u, v>>] = 0
  BY <1>0 DEF CanApply, Inv, OneApplication
<1> QED BY <1>0, <1>1, <1>2 DEF Inv, Applications, OneApplication

LEMMA Answering ==
  ASSUME Inv, NEW u \in User, NEW v \in User,
         application' = Delete(application, <<v, u>>)
  PROVE  Applications'
<1>0. <<v, u>> \in Pair /\ application \in [Pair -> Nat]
  BY PairFacts DEF Inv
<1>1. application' = [p \in Pair |-> IF p = <<v, u>> THEN 0
                                     ELSE application[p]]
  BY <1>0, TableRows
<1> QED BY <1>0, <1>1 DEF Inv, Applications, OneApplication

\* A request cut short.
LEMMA Cutting ==
  ASSUME Inv, NEW u \in User, NEW v \in User,
         \/ CutDelete(u, v)
         \/ CutAnswer(u, v)
         \/ relation[<<v, u>>] < MaxRows /\ CutAgree(u, v)
  PROVE  /\ Friendships' /\ FriendsAreMutual' /\ Applications'
         /\ (befriended \subseteq Pair)'
<1>0. <<v, u>> \in Pair /\ befriended \subseteq Pair
  BY DEF Inv, TypeOK, Pair
<1>1. CASE CutDelete(u, v)
  <2>1. Friendships' /\ FriendsAreMutual'
    BY <1>1, ChangingOne DEF CutDelete
  <2>2. Applications' /\ (befriended \subseteq Pair)'
    BY <1>0, <1>1 DEF CutDelete, Inv, TypeOK, Applications, OneApplication
  <2> QED BY <2>1, <2>2
<1>2. CASE CutAnswer(u, v)
  <2>1. Applications'
    BY <1>2, Answering DEF CutAnswer
  <2>2. Friendships' /\ FriendsAreMutual' /\ (befriended \subseteq Pair)'
    BY <1>0, <1>2 DEF CutAnswer, Inv, TypeOK, Friendships, FriendsAreMutual
  <2> QED BY <2>1, <2>2
<1>3. CASE relation[<<v, u>>] < MaxRows /\ CutAgree(u, v)
  <2>1. Applications'
    BY <1>3, Answering DEF CutAgree
  <2>2. Friendships' /\ FriendsAreMutual'
    BY <1>3, ChangingOne DEF CutAgree
  <2>3. (befriended \subseteq Pair)'
    BY <1>0, <1>3 DEF CutAgree
  <2> QED BY <2>1, <2>2, <2>3
<1> QED BY <1>1, <1>2, <1>3

-----------------------------------------------------------------------------
(* The invariant *)

LEMMA InvInit == Init => Inv
  BY ChatServerAssumption
  DEF Init, Inv, TypeOK, FriendsAreMutual, OneApplication, RowsHaveLogins, Pair

\* Connections and restarts.
LEMMA InvConnections ==
  ASSUME Inv, UNCHANGED database, NEW c \in Conn,
         Connect(c) \/ RemoveClient(c) \/ Evict(c)
  PROVE  Inv'
<1> USE DEF Inv, TypeOK
<1>1. CASE Connect(c)
  BY <1>1 DEF Connect, tables, history, FriendsAreMutual, OneApplication,
              RowsHaveLogins
<1>2. CASE RemoveClient(c)
  <2>1. TypeOK'
    BY <1>2 DEF RemoveClient, OnlineWithout
  <2>2. FriendsAreMutual' /\ OneApplication'
    BY <1>2 DEF RemoveClient, FriendsAreMutual, OneApplication
  <2>3. RowsHaveLogins'
    BY <1>2 DEF RemoveClient, OnlineWithout, RowsHaveLogins
  <2> QED BY <2>1, <2>2, <2>3
<1>3. CASE Evict(c)
  <2>1. TypeOK'
    BY <1>3 DEF Evict, tables
  <2>2. FriendsAreMutual' /\ OneApplication'
    BY <1>3 DEF Evict, tables, FriendsAreMutual, OneApplication
  <2>3. RowsHaveLogins'
    BY <1>3 DEF Evict, tables, RowsHaveLogins
  <2> QED BY <2>1, <2>2, <2>3
<1> QED BY <1>1, <1>2, <1>3

LEMMA InvRestart == Inv /\ Restart => Inv'
<1> SUFFICES ASSUME Inv, Restart PROVE Inv'
  OBVIOUS
<1>1. TypeOK'
  <2>1. orphaned' \subseteq Conn /\ database' \in {"up", "lost"}
    BY DEF Restart, Rowed
  <2>2. online' \subseteq registered' \X Conn
    BY DEF Inv, TypeOK, Restart
  <2> QED BY <2>1, <2>2 DEF Inv, TypeOK, Restart
<1>2. FriendsAreMutual' /\ OneApplication'
  BY DEF Inv, Restart, FriendsAreMutual, OneApplication
<1>3. RowsHaveLogins'
  BY DEF Restart, Rowed, RowsHaveLogins
<1> QED BY <1>1, <1>2, <1>3 DEF Inv

LEMMA InvGuest ==
  ASSUME Inv, UNCHANGED database, NEW c \in Conn, Guest(c)
  PROVE  Inv'
<1> USE DEF Inv, TypeOK
<1> PICK u \in User : \/ Register(c, u) \/ RegisterExtra(c, u)
                      \/ \E right \in BOOLEAN : Login(c, u, right)
  BY DEF Guest
<1>1. CASE Register(c, u)
  BY <1>1 DEF Register, history, FriendsAreMutual, OneApplication,
              RowsHaveLogins
<1>2. CASE RegisterExtra(c, u)
  BY <1>2 DEF RegisterExtra, tables, history, FriendsAreMutual,
              OneApplication, RowsHaveLogins
<1>3. ASSUME NEW right \in BOOLEAN, Login(c, u, right) PROVE Inv'
  <2>1. TypeOK'
    BY <1>3 DEF Login, Authentic
  <2>2. FriendsAreMutual' /\ OneApplication'
    BY <1>3 DEF Login, FriendsAreMutual, OneApplication
  <2>3. RowsHaveLogins'
    BY <1>3 DEF Login, Authentic, RowsHaveLogins
  <2> QED BY <2>1, <2>2, <2>3
<1> QED BY <1>1, <1>2, <1>3

\* What is left to show when only the friends' tables change.
LEMMA InvTables ==
  ASSUME Inv, Friendships', FriendsAreMutual', Applications',
         (applied \subseteq Pair)', (befriended \subseteq Pair)',
         state' \in {state, "killed", "AgreeApplication", "query"},
         database' \in {"up", "lost"},
         UNCHANGED <<conns, registered, online, loggedIn, orphaned, chats>>
  PROVE  Inv'
<1>1. TypeOK'
  BY DEF Inv, TypeOK, Friendships, Applications
<1>2. RowsHaveLogins'
  BY DEF Inv, RowsHaveLogins
<1> QED BY <1>1, <1>2 DEF Inv, Applications

\* The requests that change the friends' tables.
LEMMA InvFriends ==
  ASSUME Inv, UNCHANGED database,
         NEW c \in Conn, NEW u \in loggedIn[c], NEW v \in User \ {u},
         \/ AddFriend(c, u, v)
         \/ DeleteFriend(c, u, v)
         \/ /\ ShownApplicant(u, v)
            /\ \E yes \in BOOLEAN : AgreeApplication(c, u, v, yes)
  PROVE  Inv'
<1>0. /\ u \in User /\ <<u, v>> \in Pair /\ <<v, u>> \in Pair
      /\ Friendships /\ FriendsAreMutual /\ Applications
      /\ applied \subseteq Pair /\ befriended \subseteq Pair
      /\ database' \in {"up", "lost"}
  BY DEF Inv, TypeOK, Pair, Friendships, Applications
<1>1. CASE AddFriend(c, u, v)
  <2>1. Applications' /\ (applied \subseteq Pair)'
    <3>1. CASE CanApply(u, v)
      BY <1>0, <1>1, <3>1, Applying DEF AddFriend
    <3>2. CASE ~CanApply(u, v)
      BY <1>0, <1>1, <3>2 DEF AddFriend, Applications, OneApplication
    <3> QED BY <3>1, <3>2
  <2>2. /\ UNCHANGED <<state, conns, registered, relation, online, loggedIn,
                       orphaned, chats, befriended, cut>>
    BY <1>1 DEF AddFriend
  <2>3. Friendships' /\ FriendsAreMutual'
    BY <1>0, <2>2 DEF Friendships, FriendsAreMutual
  <2> QED BY <1>0, <2>1, <2>2, <2>3, InvTables
<1>2. CASE DeleteFriend(c, u, v)
  <2>1. Friendships' /\ FriendsAreMutual'
    BY <1>0, <1>2, DeletingBoth DEF DeleteFriend
  <2>2. UNCHANGED <<state, conns, registered, application, online, loggedIn,
                    orphaned, chats, applied, befriended>>
    BY <1>2 DEF DeleteFriend
  <2>3. Applications'
    BY <1>0, <2>2 DEF Applications, OneApplication
  <2> QED BY <1>0, <2>1, <2>2, <2>3, InvTables
<1>3. ASSUME ShownApplicant(u, v), NEW yes \in BOOLEAN,
             AgreeApplication(c, u, v, yes)
      PROVE  Inv'
  <2>1. Applications'
    BY <1>0, <1>3, Answering DEF AgreeApplication
  <2>2. UNCHANGED <<conns, registered, online, loggedIn, orphaned, chats,
                    applied, cut>>
    BY <1>3 DEF AgreeApplication
  <2>3. CASE yes
    <3>1. /\ relation' = Befriended(u, v)
          /\ befriended' = befriended \cup {<<u, v>>, <<v, u>>}
          /\ state' \in {state, "AgreeApplication"}
      BY <1>3, <2>3 DEF AgreeApplication
    <3>2. Friendships' /\ FriendsAreMutual'
      BY <1>0, <1>3, <2>2, <3>1, InsertingBoth DEF ShownApplicant
    <3>3. (befriended \subseteq Pair)'
      BY <1>0, <3>1
    <3> QED BY <1>0, <2>1, <2>2, <3>1, <3>2, <3>3, InvTables
  <2>4. CASE ~yes
    <3>1. UNCHANGED <<state, relation, befriended>>
      BY <1>3, <2>4 DEF AgreeApplication
    <3>2. Friendships' /\ FriendsAreMutual'
      BY <1>0, <2>2, <3>1 DEF Friendships, FriendsAreMutual
    <3> QED BY <1>0, <2>1, <2>2, <3>1, <3>2, InvTables
  <2> QED BY <2>3, <2>4
<1> QED BY <1>1, <1>2, <1>3

LEMMA InvMember ==
  ASSUME Inv, UNCHANGED database,
         NEW c \in Conn, NEW u \in loggedIn[c], Member(c, u)
  PROVE  Inv'
<1> USE DEF Inv
<1>1. u \in User
  BY DEF TypeOK
<1>2. CASE FriendList(c, u) \/ CheckApplication(c, u) \/ PublicMessage(c, u)
  <2>1. UNCHANGED <<state, conns, tables, history>>
    BY <1>2 DEF FriendList, CheckApplication, PublicMessage, Ask
  <2> QED BY <2>1 DEF tables, history, TypeOK, FriendsAreMutual, OneApplication,
                      RowsHaveLogins
<1>3. ASSUME NEW v \in User \ {u}, CheckOnline(c, u, v) PROVE Inv'
  BY <1>3 DEF CheckOnline, tables, TypeOK, FriendsAreMutual, OneApplication,
              RowsHaveLogins
<1>4. ASSUME NEW v \in User \ {u}, PrivateMessage(c, u, v) PROVE Inv'
  <2>1. /\ UNCHANGED <<conns, tables, loggedIn, orphaned, applied, befriended,
                      cut>>
        /\ state' \in {state, "PrivateMessage"}
        /\ chats' \in [Conn -> SUBSET User]
    <3>1. CASE RowsOf(v) = {}
      BY <1>4, <3>1 DEF PrivateMessage, history, TypeOK
    <3>2. CASE RowsOf(v) # {}
      <4>1. /\ \E notice \in Notices(v, Packet("PrivateMessage_Return", v, u)) :
                 chats' = [d \in Conn |-> IF \E i \in DOMAIN notice :
                                                  notice[i][1] = d
                                         THEN chats[d] \cup {u} ELSE chats[d]]
            /\ UNCHANGED <<state, conns, tables, loggedIn, orphaned, applied,
                           befriended, cut>>
        BY <1>4, <3>2, Zenon DEF PrivateMessage
      <4>2. chats' \in [Conn -> SUBSET User]
        BY <1>1, <4>1 DEF TypeOK
      <4> QED BY <4>1, <4>2
    <3> QED BY <3>1, <3>2
  <2> QED BY <2>1 DEF tables, TypeOK, FriendsAreMutual, OneApplication,
                      RowsHaveLogins
<1> QED BY <1>2, <1>3, <1>4, InvFriends DEF Member

\* Steps that change nothing but what is sent, how the server is and whether it
\* has its database.
LEMMA InvSends ==
  ASSUME Inv, state' \in {state, "killed", "query"}, database' \in {"up", "lost"},
         UNCHANGED <<conns, tables, history>>
  PROVE  Inv'
  BY DEF tables, history, Inv, TypeOK, FriendsAreMutual, OneApplication,
         RowsHaveLogins

LEMMA InvUnserved ==
  ASSUME Inv, UNCHANGED database, NEW c \in Conn,
         GuestUnserved(c) \/ \E u \in loggedIn[c] : MemberUnserved(c, u)
  PROVE  Inv'
<1>1. database' \in {"up", "lost"}
  BY DEF Inv, TypeOK
<1>2. CASE GuestUnserved(c)
  BY <1>1, <1>2, InvSends DEF GuestUnserved, NoRows
<1>3. ASSUME NEW u \in loggedIn[c], MemberUnserved(c, u) PROVE Inv'
  <2>1. UNCHANGED <<conns, tables, history>> /\ state' \in {state, "query"}
    BY <1>3, Zenon DEF MemberUnserved, PublicMessage, NoRows, ApplyUnserved,
                       DeleteUnserved, AgreeUnserved
  <2> QED BY <1>1, <2>1, InvSends
<1> QED BY <1>2, <1>3

\* A request that loses the database halfway.
LEMMA InvInterrupted ==
  ASSUME Inv, database' = "lost",
         NEW c \in Conn, NEW u \in loggedIn[c], NEW v \in User \ {u},
         MemberInterrupted(c, u, v)
  PROVE  Inv'
<1>0. /\ u \in User /\ <<u, v>> \in Pair /\ <<v, u>> \in Pair
      /\ Friendships /\ FriendsAreMutual /\ Applications
      /\ applied \subseteq Pair /\ befriended \subseteq Pair
  BY DEF Inv, TypeOK, Pair, Friendships, Applications
<1>1. UNCHANGED <<conns, registered, online, loggedIn, orphaned, chats>>
  BY DEF MemberInterrupted
<1>2. state' \in {state, "query"}
  BY DEF MemberInterrupted, DeleteUnserved, AgreeUnserved, ApplyUnserved, NoRows
<1>3. CASE /\ \/ CutDelete(u, v) \/ CutAnswer(u, v)
              \/ relation[<<v, u>>] < MaxRows /\ CutAgree(u, v)
           /\ applied' = applied
  BY <1>0, <1>1, <1>2, <1>3, Cutting, InvTables
<1>4. CASE /\ relation' = Unfriended(u, v) /\ cut' = cut \ {{u, v}}
           /\ application' = application /\ befriended' = befriended
           /\ applied' = applied
  <2>1. Friendships' /\ FriendsAreMutual'
    BY <1>0, <1>4, DeletingBoth
  <2>2. Applications'
    BY <1>0, <1>4 DEF Applications, OneApplication
  <2> QED BY <1>0, <1>1, <1>2, <1>4, <2>1, <2>2, InvTables
<1>5. CASE /\ ShownApplicant(u, v)
           /\ application' = Delete(application, <<v, u>>)
           /\ relation' = Befriended(u, v)
           /\ befriended' = befriended \cup {<<u, v>>, <<v, u>>}
           /\ cut' = cut /\ applied' = applied
  <2>1. Friendships' /\ FriendsAreMutual'
    BY <1>0, <1>5, InsertingBoth DEF ShownApplicant
  <2>2. Applications'
    BY <1>0, <1>5, Answering
  <2>3. (befriended \subseteq Pair)' /\ (applied \subseteq Pair)'
    BY <1>0, <1>5
  <2> QED BY <1>1, <1>2, <2>1, <2>2, <2>3, InvTables
<1>6. CASE /\ CanApply(u, v)
           /\ application' = Insert(application, <<u, v>>)
           /\ applied' = applied \cup {<<u, v>>}
           /\ relation' = relation /\ befriended' = befriended /\ cut' = cut
  <2>1. Applications'
    BY <1>0, <1>6, Applying
  <2>2. Friendships' /\ FriendsAreMutual'
    BY <1>0, <1>6 DEF Friendships, FriendsAreMutual
  <2>3. (befriended \subseteq Pair)' /\ (applied \subseteq Pair)'
    BY <1>0, <1>6
  <2> QED BY <1>1, <1>2, <2>1, <2>2, <2>3, InvTables
<1>7. \/ /\ applied' = applied
         /\ \/ CutDelete(u, v)
            \/ /\ relation' = Unfriended(u, v) /\ cut' = cut \ {{u, v}}
               /\ application' = application /\ befriended' = befriended
      \/ /\ applied' = applied /\ ShownApplicant(u, v)
         /\ \/ CutAnswer(u, v) \/ CutAgree(u, v)
            \/ /\ application' = Delete(application, <<v, u>>)
               /\ relation' = Befriended(u, v)
               /\ befriended' = befriended \cup {<<u, v>>, <<v, u>>}
               /\ cut' = cut
      \/ /\ CanApply(u, v)
         /\ application' = Insert(application, <<u, v>>)
         /\ applied' = applied \cup {<<u, v>>}
         /\ relation' = relation /\ befriended' = befriended /\ cut' = cut
  BY DEF MemberInterrupted
<1>8. ShownApplicant(u, v) => relation[<<v, u>>] < MaxRows
  BY DEF ShownApplicant
<1> QED BY <1>3, <1>4, <1>5, <1>6, <1>7, <1>8

LEMMA InvLose == Inv /\ Lose => Inv'
<1> SUFFICES ASSUME Inv, Lose PROVE Inv'
  OBVIOUS
<1>0. database' = "lost" /\ conns \subseteq Conn
  BY DEF Lose, Inv, TypeOK
<1>1. CASE UNCHANGED <<state, conns, tables, history>>
  BY <1>0, <1>1, InvSends
<1>2. ASSUME NEW c \in conns, NEW u \in User, LoginUnrecorded(c, u) PROVE Inv'
  <2>1. TypeOK'
    BY <1>0, <1>2 DEF LoginUnrecorded, tables, Inv, TypeOK
  <2>2. FriendsAreMutual' /\ OneApplication'
    BY <1>2 DEF LoginUnrecorded, tables, Inv, FriendsAreMutual, OneApplication
  <2>3. RowsHaveLogins'
    BY <1>0, <1>2 DEF LoginUnrecorded, tables, Inv, TypeOK, RowsHaveLogins
  <2> QED BY <2>1, <2>2, <2>3 DEF Inv
<1>3. ASSUME NEW c \in conns, NEW u \in loggedIn[c], NEW v \in User \ {u},
             MemberInterrupted(c, u, v)
      PROVE  Inv'
  BY <1>0, <1>3, InvInterrupted
<1> QED BY <1>1, <1>2, <1>3 DEF Lose

LEMMA InvKill ==
  ASSUME Inv, UNCHANGED database, Kill \/ KillHalfway
  PROVE  Inv'
<1>0. /\ conns \subseteq Conn /\ \A c \in Conn : loggedIn[c] \subseteq User
      /\ database' \in {"up", "lost"} /\ applied \subseteq Pair
  BY DEF Inv, TypeOK
<1>1. CASE Kill
  BY <1>0, <1>1, InvSends DEF Kill
<1>2. CASE KillHalfway
  <2>1. /\ state' = "killed"
        /\ UNCHANGED <<conns, registered, online, loggedIn, orphaned, chats,
                       applied>>
        /\ \E c \in conns : \E u \in loggedIn[c] : \E v \in User \ {u} :
             HalfDone(u, v)
    BY <1>2 DEF KillHalfway
  <2>2. PICK u \in User, v \in User : HalfDone(u, v)
    BY <1>0, <2>1
  <2>3. /\ Friendships' /\ FriendsAreMutual' /\ Applications'
        /\ (befriended \subseteq Pair)'
    BY <2>2, Cutting DEF HalfDone, ShownApplicant
  <2> QED BY <1>0, <2>1, <2>3, InvTables
<1> QED BY <1>1, <1>2

LEMMA InvStep == Inv /\ [Next]_vars => Inv'
<1> SUFFICES ASSUME Inv, [Next]_vars PROVE Inv'
  OBVIOUS
<1>1. conns \subseteq Conn
  BY DEF Inv, TypeOK
<1>2. CASE \E c \in Conn : Running(Connect(c) \/ Evict(c))
                          \/ Served(RemoveClient(c))
  BY <1>2, InvConnections DEF Running, Served
<1>3. CASE \E c \in conns : Served(Guest(c)) \/ Unserved(GuestUnserved(c))
  BY <1>1, <1>3, InvGuest, InvUnserved DEF Running, Served, Unserved
<1>4. CASE \E c \in conns : \E u \in loggedIn[c] :
             Served(Member(c, u)) \/ Unserved(MemberUnserved(c, u))
  BY <1>1, <1>4, InvMember, InvUnserved DEF Running, Served, Unserved
<1>5. CASE Running(Kill) \/ Served(KillHalfway)
  BY <1>5, InvKill DEF Running, Served
<1>6. CASE Lose
  BY <1>6, InvLose
<1>7. CASE Restart
  BY <1>7, InvRestart
<1>8. CASE UNCHANGED vars
  BY <1>8 DEF vars, tables, history, Inv, TypeOK, FriendsAreMutual,
              OneApplication, RowsHaveLogins
<1> QED BY <1>2, <1>3, <1>4, <1>5, <1>6, <1>7, <1>8 DEF Next

LEMMA InvAlways == Spec => []Inv
  BY InvInit, InvStep, PTL DEF Spec

-----------------------------------------------------------------------------
(* Who is sent what *)

Personal == {"PrivateMessage_Return", "UpdateApplication", "UpdateFriendList"}

\* What SentToTheUser asks of one send.
Right(send) ==
  send[2].type \in Personal =>
    send[2].to \in loggedIn[send[1]] \/ send[1] \in orphaned

AllRight(s) == \A i \in DOMAIN s : Right(s[i])

\* Two sends, one after the other.
LEMMA TwoInOrder ==
  ASSUME NEW first, NEW second
  PROVE  <<first>> \o <<second>> = <<first, second>>
<1> DEFINE S == {first, second}
           s == <<first>>
           t == <<second>>
<1>1. /\ s \in Seq(S) /\ t \in Seq(S)
      /\ Len(s) = 1 /\ Len(t) = 1 /\ s[1] = first /\ t[1] = second
  OBVIOUS
<1> HIDE DEF S, s, t
<1>2. /\ s \o t \in Seq(S) /\ Len(s \o t) = Len(s) + Len(t)
      /\ \A i \in 1 .. Len(s) + Len(t) :
           (s \o t)[i] = IF i <= Len(s) THEN s[i] ELSE t[i - Len(s)]
  BY <1>1, ConcatProperties
<1> DEFINE st == s \o t
<1>3. /\ st \in Seq(S) /\ Len(st) = 2 /\ st[1] = first /\ st[2] = second
  BY <1>1, <1>2
<1> HIDE DEF st
<1>4. st = <<first, second>>
  BY <1>3
<1> QED BY <1>4 DEF s, t, st

LEMMA OneRight ==
  ASSUME NEW send, Right(send)
  PROVE  AllRight(<<send>>)
  BY DEF AllRight

\* A notice looked up in OnlineUser, alone or next to the answer to the sender.
LEMMA NoticeRight ==
  ASSUME Inv, NEW v \in User, NEW packet, packet.to = v,
         NEW notice \in Notices(v, packet), NEW answer, Right(answer)
  PROVE  AllRight(notice \o <<answer>>) /\ AllRight(<<answer>> \o notice)
<1>1. CASE notice = <<>>
  <2>1. notice \o <<answer>> = <<answer>> /\ <<answer>> \o notice = <<answer>>
    BY <1>1
  <2> QED BY <2>1, OneRight
<1>2. CASE notice # <<>>
  <2>1. PICK c \in RowsOf(v) : notice = SendAt(c, packet)
    BY <1>2 DEF Notices
  <2>2. notice = <<<<c, packet>>>>
    BY <1>2, <2>1 DEF SendAt
  <2>3. Right(<<c, packet>>)
    BY <2>1 DEF RowsOf, Right, Inv, RowsHaveLogins
  <2> DEFINE send == <<c, packet>>
  <2>4. Right(send) /\ notice = <<send>>
    BY <2>2, <2>3
  <2> HIDE DEF send
  <2>5. notice \o <<answer>> = <<send, answer>>
        /\ <<answer>> \o notice = <<answer, send>>
    BY <2>4, TwoInOrder
  <2> QED BY <2>4, <2>5 DEF AllRight
<1> QED BY <1>1, <1>2

LEMMA SendsRight == Inv /\ [Next]_vars => AllRight(sends') \/ UNCHANGED vars
<1> SUFFICES ASSUME Inv, Next PROVE AllRight(sends')
  OBVIOUS
<1>0. AllRight(<<>>)
  BY DEF AllRight
<1>1. conns \subseteq Conn /\ \A c \in Conn : loggedIn[c] \subseteq User
  BY DEF Inv, TypeOK
<1>2. ASSUME NEW c \in Conn, Connect(c) \/ RemoveClient(c) \/ Evict(c)
      PROVE  AllRight(sends')
  BY <1>0, <1>2 DEF Connect, RemoveClient, Evict
<1>3. ASSUME NEW c \in Conn, Guest(c) PROVE AllRight(sends')
  <2>1. PICK u \in User : \/ Register(c, u) \/ RegisterExtra(c, u)
                          \/ \E right \in BOOLEAN : Login(c, u, right)
    BY <1>3 DEF Guest
  <2>2. PICK type \in {"Register_Return", "Register_Extra_Return",
                       "Login_Return"} :
          \E arg : sends' = <<<<c, Packet(type, u, arg)>>>>
    BY <2>1 DEF Register, RegisterExtra, Login
  <2>3. PICK arg : sends' = <<<<c, Packet(type, u, arg)>>>>
    BY <2>2
  <2>4. Right(<<c, Packet(type, u, arg)>>)
    BY DEF Right, Packet, Personal
  <2> QED BY <2>3, <2>4, OneRight
<1>4. ASSUME NEW c \in Conn, NEW u \in loggedIn[c], Member(c, u)
      PROVE  AllRight(sends')
  <2>0. u \in User
    BY <1>1
  <2>1. CASE FriendList(c, u)
    BY <2>1, OneRight DEF FriendList, Ask, Right, Packet, Personal
  <2>2. CASE CheckApplication(c, u)
    BY <2>2, OneRight DEF CheckApplication, Ask, Right, Packet, Personal
  <2>3. CASE PublicMessage(c, u)
    BY <2>3 DEF PublicMessage, AllRight, Right, Packet, Personal
  <2>4. ASSUME NEW v \in User \ {u}, CheckOnline(c, u, v)
        PROVE  AllRight(sends')
    BY <2>4, OneRight DEF CheckOnline, Right, Packet, Personal
  <2>5. ASSUME NEW v \in User \ {u}, PrivateMessage(c, u, v)
        PROVE  AllRight(sends')
    <3>1. CASE RowsOf(v) = {}
      BY <1>0, <2>5, <3>1 DEF PrivateMessage
    <3>2. CASE RowsOf(v) # {}
      <4> DEFINE answer == <<c, Packet("PrivateMessage_Return", u, u)>>
                 packet == Packet("PrivateMessage_Return", v, u)
      <4>1. Right(answer) /\ packet.to = v
        BY DEF Right, Packet
      <4>2. PICK notice \in Notices(v, packet) : sends' = notice \o <<answer>>
        BY <2>5, <3>2, Zenon DEF PrivateMessage
      <4> HIDE DEF answer, packet
      <4> QED BY <4>1, <4>2, NoticeRight
    <3> QED BY <3>1, <3>2
  <2>6. ASSUME NEW v \in User \ {u}, AddFriend(c, u, v)
        PROVE  AllRight(sends')
    <3> DEFINE answer == <<c, Packet("AddFriend_Return", u, v \in registered)>>
               packet == Packet("UpdateApplication", v, TRUE)
    <3>1. Right(answer) /\ packet.to = v
      BY DEF Right, Packet, Personal
    <3>2. PICK notice \in Notices(v, packet) : sends' = <<answer>> \o notice
      BY <2>6, Zenon DEF AddFriend
    <3> HIDE DEF answer, packet
    <3> QED BY <3>1, <3>2, NoticeRight
  <2>7. ASSUME NEW v \in User \ {u}, DeleteFriend(c, u, v)
        PROVE  AllRight(sends')
    <3> DEFINE answer == <<c, Packet("DeleteFriend_Return", u, v)>>
               packet == Packet("UpdateFriendList", v, u)
    <3>1. Right(answer) /\ packet.to = v
      BY DEF Right, Packet, Personal
    <3>2. PICK notice \in Notices(v, packet) : sends' = notice \o <<answer>>
      BY <2>7, Zenon DEF DeleteFriend
    <3> HIDE DEF answer, packet
    <3> QED BY <3>1, <3>2, NoticeRight
  <2>8. ASSUME NEW v \in User \ {u}, NEW yes \in BOOLEAN,
               AgreeApplication(c, u, v, yes)
        PROVE  AllRight(sends')
    <3> DEFINE answer == <<c, Packet("AgreeApplication_Return", u, v)>>
               packet == Packet("UpdateFriendList", v, v)
    <3>1. Right(answer) /\ packet.to = v
      BY DEF Right, Packet, Personal
    <3>2. \/ sends' = <<>> \/ sends' = <<answer>>
          \/ \E notice \in Notices(v, packet) : sends' = <<answer>> \o notice
      BY <2>8, Zenon DEF AgreeApplication
    <3> HIDE DEF answer, packet
    <3> QED BY <1>0, <3>1, <3>2, OneRight, NoticeRight
  <2> QED BY <1>4, <2>1, <2>2, <2>3, <2>4, <2>5, <2>6, <2>7, <2>8 DEF Member
<1>5. ASSUME NEW c \in Conn, GuestUnserved(c) PROVE AllRight(sends')
  <2>1. PICK u \in User, type \in {"Register_Return", "Register_Extra_Return",
                                  "Login_Return"}, arg \in BOOLEAN :
          sends' = <<<<c, Packet(type, u, arg)>>>> \/ sends' = <<>>
    BY <1>5 DEF GuestUnserved, NoRows
  <2>2. Right(<<c, Packet(type, u, arg)>>)
    BY DEF Right, Packet, Personal
  <2> QED BY <1>0, <2>1, <2>2, OneRight
<1>6. ASSUME NEW c \in Conn, NEW u \in User, NEW v \in User,
             \/ \E yes \in BOOLEAN : ApplyUnserved(c, u, yes)
             \/ DeleteUnserved(c, u, v) \/ AgreeUnserved(c, u, v)
      PROVE  AllRight(sends')
  <2>1. \/ sends' = <<>>
        \/ \E yes \in BOOLEAN :
             sends' = <<<<c, Packet("AddFriend_Return", u, yes)>>>>
        \/ sends' = <<<<c, Packet("DeleteFriend_Return", u, v)>>>>
        \/ sends' = <<<<c, Packet("AgreeApplication_Return", u, v)>>>>
    BY <1>6 DEF ApplyUnserved, DeleteUnserved, AgreeUnserved, NoRows
  <2>2. \A yes : Right(<<c, Packet("AddFriend_Return", u, yes)>>)
    BY DEF Right, Packet, Personal
  <2>3. /\ Right(<<c, Packet("DeleteFriend_Return", u, v)>>)
        /\ Right(<<c, Packet("AgreeApplication_Return", u, v)>>)
    BY DEF Right, Packet, Personal
  <2> QED BY <1>0, <2>1, <2>2, <2>3, OneRight
<1>7. ASSUME NEW c \in Conn, NEW u \in User, MemberUnserved(c, u)
      PROVE  AllRight(sends')
  <2>1. CASE PublicMessage(c, u)
    BY <2>1 DEF PublicMessage, AllRight, Right, Packet, Personal
  <2>2. CASE \/ NoRows(<<<<c, Packet("FriendList_Return", u, {})>>>>)
             \/ NoRows(<<<<c, Packet("CheckApplication_Return", u, {})>>>>)
             \/ NoRows(<<<<c, Packet("CheckOnline_Return", u, FALSE)>>>>)
             \/ sends' = <<>>
    <3>1. /\ Right(<<c, Packet("FriendList_Return", u, {})>>)
          /\ Right(<<c, Packet("CheckApplication_Return", u, {})>>)
          /\ Right(<<c, Packet("CheckOnline_Return", u, FALSE)>>)
      BY DEF Right, Packet, Personal
    <3> QED BY <1>0, <2>2, <3>1, OneRight DEF NoRows
  <2> QED BY <1>6, <1>7, <2>1, <2>2 DEF MemberUnserved
<1>8. CASE Lose
  <2>1. CASE sends' = <<>>
    BY <1>0, <2>1
  <2>2. ASSUME NEW c \in Conn, NEW u \in User, LoginUnrecorded(c, u)
        PROVE  AllRight(sends')
    BY <2>2, OneRight DEF LoginUnrecorded, Right, Packet, Personal
  <2>3. ASSUME NEW c \in Conn, NEW u \in User, NEW v \in User,
               MemberInterrupted(c, u, v)
        PROVE  AllRight(sends')
    BY <1>6, <2>3 DEF MemberInterrupted
  <2> QED BY <1>1, <1>8, <2>1, <2>2, <2>3 DEF Lose
<1>9. ASSUME Kill \/ KillHalfway \/ Restart PROVE AllRight(sends')
  BY <1>0, <1>9 DEF Kill, KillHalfway, Restart
<1> QED
  BY <1>1, <1>2, <1>3, <1>4, <1>5, <1>7, <1>8, <1>9
  DEF Next, Running, Served, Unserved

-----------------------------------------------------------------------------
(* Who is told of a change of friends *)

\* As long as the database is there, who is logged in on a connection has the
\* row of OnlineUser that says so.
LoginsHaveRows ==
  database = "up" =>
    \A u \in User, c \in Conn : u \in loggedIn[c] => <<u, c>> \in online

LEMMA RowsInit == Init => LoginsHaveRows
  BY DEF Init, LoginsHaveRows

\* Requests that leave OnlineUser and the logins as they are.
SameLogins == UNCHANGED <<database, online, loggedIn>>

LEMMA RowsStep == Inv /\ LoginsHaveRows /\ [Next]_vars => LoginsHaveRows'
<1> SUFFICES ASSUME Inv, LoginsHaveRows, [Next]_vars PROVE LoginsHaveRows'
  OBVIOUS
<1>1. loggedIn \in [Conn -> SUBSET registered] /\ conns \subseteq Conn
  BY DEF Inv, TypeOK
<1>2. ASSUME SameLogins PROVE LoginsHaveRows'
  BY <1>2 DEF LoginsHaveRows, SameLogins
<1>3. ASSUME database' = "lost" PROVE LoginsHaveRows'
  BY <1>3 DEF LoginsHaveRows
<1>4. ASSUME NEW c \in Conn, UNCHANGED database,
             Connect(c) \/ Evict(c) \/ RemoveClient(c)
      PROVE  LoginsHaveRows'
  <2>1. CASE Connect(c)
    BY <1>2, <1>4, <2>1 DEF Connect, tables, history, SameLogins
  <2>2. CASE Evict(c) \/ RemoveClient(c)
    <3>1. /\ loggedIn' = [loggedIn EXCEPT ![c] = {}]
          /\ \A row \in online : row[2] # c => row \in online'
      BY <2>2 DEF Evict, RemoveClient, OnlineWithout, tables
    <3>2. ASSUME NEW u \in User, NEW d \in Conn, u \in loggedIn'[d],
                 database = "up"
          PROVE  <<u, d>> \in online'
      <4>1. d # c /\ u \in loggedIn[d]
        BY <1>1, <3>1, <3>2
      <4>2. <<u, d>> \in online
        BY <3>2, <4>1 DEF LoginsHaveRows
      <4> QED BY <3>1, <4>1, <4>2
    <3> QED BY <1>4, <3>2 DEF LoginsHaveRows
  <2> QED BY <1>4, <2>1, <2>2
<1>5. ASSUME NEW c \in Conn, UNCHANGED database, Guest(c) PROVE LoginsHaveRows'
  <2>1. CASE \E u \in User : Register(c, u) \/ RegisterExtra(c, u)
    BY <1>2, <1>5, <2>1
       DEF Register, RegisterExtra, tables, history, SameLogins
  <2>2. ASSUME NEW u \in User, NEW right \in BOOLEAN, Login(c, u, right)
        PROVE  LoginsHaveRows'
    <3>1. CASE Authentic(u, right)
      <4>1. /\ online' = online \cup {<<u, c>>}
            /\ loggedIn' = [loggedIn EXCEPT ![c] = @ \cup {u}]
        BY <2>2, <3>1 DEF Login
      <4>2. \A x \in User, d \in Conn :
              x \in loggedIn'[d] => x \in loggedIn[d] \/ (x = u /\ d = c)
        BY <1>1, <4>1
      <4> QED BY <1>5, <4>1, <4>2 DEF LoginsHaveRows
    <3>2. CASE ~Authentic(u, right)
      BY <1>2, <1>5, <2>2, <3>2 DEF Login, SameLogins
    <3> QED BY <3>1, <3>2
  <2> QED BY <1>5, <2>1, <2>2 DEF Guest
<1>6. ASSUME NEW c \in Conn, NEW u \in User, UNCHANGED database, Member(c, u)
      PROVE  LoginsHaveRows'
  <2>1. UNCHANGED <<online, loggedIn>>
    BY <1>6 DEF Member, FriendList, CheckApplication, PublicMessage, Ask,
         AddFriend, CheckOnline, DeleteFriend, PrivateMessage,
         AgreeApplication, tables, history
  <2> QED BY <1>2, <1>6, <2>1 DEF SameLogins
<1>7. ASSUME UNCHANGED database, Kill \/ KillHalfway PROVE LoginsHaveRows'
  <2>1. UNCHANGED <<online, loggedIn>>
    BY <1>7 DEF Kill, KillHalfway, tables, history
  <2> QED BY <1>2, <1>7, <2>1 DEF SameLogins
<1>8. ASSUME Restart PROVE LoginsHaveRows'
  BY <1>8 DEF Restart, LoginsHaveRows
<1>9. CASE UNCHANGED vars
  BY <1>2, <1>9 DEF vars, tables, history, SameLogins
<1>10. \A c \in Conn : loggedIn[c] \subseteq User
  BY DEF Inv, TypeOK
<1> QED
  BY <1>1, <1>3, <1>4, <1>5, <1>6, <1>7, <1>8, <1>9, <1>10
     DEF Next, Running, Served, Unserved, Lose

\* What is sent in s tells user u to get the list of friends.
Telling == {"UpdateFriendList", "DeleteFriend_Return", "AgreeApplication_Return"}
Tells(s, u) ==
  \E i \in DOMAIN s : s[i][1] \in RowsOf(u) /\ s[i][2].type \in Telling

\* The notice to user v and the answer that goes out with it.
LEMMA BothTold ==
  ASSUME NEW u, NEW v, NEW c, c \in RowsOf(u), NEW packet, NEW answer,
         packet.type \in Telling, answer.type \in Telling,
         NEW notice \in Notices(v, packet)
  PROVE  /\ Tells(notice \o <<<<c, answer>>>>, u)
         /\ Tells(<<<<c, answer>>>> \o notice, u)
         /\ RowsOf(v) # {} /\ RowsOf(v) \subseteq conns
              => /\ Tells(notice \o <<<<c, answer>>>>, v)
                 /\ Tells(<<<<c, answer>>>> \o notice, v)
<1> DEFINE send == <<c, answer>>
<1>1. send[1] \in RowsOf(u) /\ send[2].type \in Telling
  OBVIOUS
<1>2. CASE notice = <<>>
  <2>1. notice \o <<send>> = <<send>> /\ <<send>> \o notice = <<send>>
    BY <1>2
  <2>2. ~(RowsOf(v) # {} /\ RowsOf(v) \subseteq conns)
    BY <1>2 DEF Notices, SendAt
  <2> HIDE DEF send
  <2>3. Tells(<<send>>, u)
    BY <1>1 DEF Tells
  <2> QED BY <2>1, <2>2, <2>3 DEF send
<1>3. CASE notice # <<>>
  <2>1. PICK d \in RowsOf(v) : notice = SendAt(d, packet)
    BY <1>3 DEF Notices
  <2> DEFINE told == <<d, packet>>
  <2>2. notice = <<told>>
    BY <1>3, <2>1 DEF SendAt
  <2>3. told[1] \in RowsOf(v) /\ told[2].type \in Telling
    BY <2>1
  <2> HIDE DEF told, send
  <2>4. notice \o <<send>> = <<told, send>> /\ <<send>> \o notice = <<send, told>>
    BY <2>2, TwoInOrder
  <2>5. /\ Tells(<<told, send>>, u) /\ Tells(<<send, told>>, u)
        /\ Tells(<<told, send>>, v) /\ Tells(<<send, told>>, v)
    BY <1>1, <2>3 DEF Tells
  <2> QED BY <2>4, <2>5 DEF send
<1> QED BY <1>2, <1>3

\* A request that changes the friends of u changes those of the sender and of
\* one other, and both are told.
LEMMA MemberTells ==
  ASSUME Inv, LoginsHaveRows, database = "up", NEW c \in Conn,
         NEW x \in loggedIn[c], Member(c, x), state = "running",
         state' = "running", NEW u \in User, NEW v \in User,
         relation'[<<u, v>>] # relation[<<u, v>>],
         RowsOf(u) # {}, RowsOf(u) \subseteq conns
  PROVE  Tells(sends', u)
<1>1. x \in User
  BY DEF Inv, TypeOK
<1>2. c \in RowsOf(x)
  BY <1>1 DEF LoginsHaveRows, RowsOf
<1>3. PICK y \in User \ {x} :
        \/ DeleteFriend(c, x, y)
        \/ /\ ShownApplicant(x, y)
           /\ \E yes \in BOOLEAN : AgreeApplication(c, x, y, yes)
  BY DEF Member, FriendList, CheckApplication, PublicMessage, Ask, AddFriend,
         CheckOnline, PrivateMessage, tables
<1>4. u = x \/ u = y
  <2>1. <<u, v>> \in Pair
    BY DEF Pair
  <2>2. <<u, v>> \in {<<x, y>>, <<y, x>>}
    <3>1. CASE DeleteFriend(c, x, y)
      BY <1>1, <2>1, <3>1, UnfriendedRows DEF DeleteFriend, Inv
    <3>2. ASSUME ShownApplicant(x, y), NEW yes \in BOOLEAN,
                 AgreeApplication(c, x, y, yes)
          PROVE  <<u, v>> \in {<<x, y>>, <<y, x>>}
      <4>1. relation' = Befriended(x, y)
        BY <3>2 DEF AgreeApplication
      <4> QED
        BY <1>1, <2>1, <3>2, <4>1, BefriendedRows DEF ShownApplicant, Inv
    <3> QED BY <1>3, <3>1, <3>2
  <2> QED BY <2>2
<1>5. CASE DeleteFriend(c, x, y)
  <2> DEFINE answer == Packet("DeleteFriend_Return", x, y)
             packet == Packet("UpdateFriendList", y, x)
  <2>1. PICK notice \in Notices(y, packet) : sends' = notice \o <<<<c, answer>>>>
    BY <1>5, Zenon DEF DeleteFriend
  <2>2. packet.type \in Telling /\ answer.type \in Telling
    BY DEF Packet, Telling
  <2> HIDE DEF answer, packet
  <2> QED BY <1>2, <1>4, <2>1, <2>2, BothTold
<1>6. ASSUME NEW yes \in BOOLEAN, AgreeApplication(c, x, y, yes)
      PROVE  Tells(sends', u)
  <2> DEFINE answer == Packet("AgreeApplication_Return", x, y)
             packet == Packet("UpdateFriendList", y, y)
  <2>1. yes
    BY <1>6 DEF AgreeApplication
  <2>2. RowsOf(y) # {}
    BY <1>6, <2>1 DEF AgreeApplication
  <2>3. PICK notice \in Notices(y, packet) : sends' = <<<<c, answer>>>> \o notice
    BY <1>6, <2>1, <2>2, Zenon DEF AgreeApplication
  <2>4. packet.type \in Telling /\ answer.type \in Telling
    BY DEF Packet, Telling
  <2> HIDE DEF answer, packet
  <2> QED BY <1>2, <1>4, <2>3, <2>4, BothTold
<1> QED BY <1>3, <1>5, <1>6

\* Other steps of a server that runs and has the database change no friends.
LEMMA OnlyMembers ==
  ASSUME Next, state = "running", state' = "running", database' = "up",
         relation' # relation
  PROVE  /\ database = "up"
         /\ \E c \in conns : \E x \in loggedIn[c] : Member(c, x)
<1>1. ASSUME NEW c \in Conn, Connect(c) \/ Evict(c) \/ RemoveClient(c)
      PROVE  FALSE
  BY <1>1 DEF Connect, Evict, RemoveClient, tables
<1>2. ASSUME NEW c, Guest(c) PROVE FALSE
  BY <1>2 DEF Guest, Register, RegisterExtra, Login, tables
<1>3. ASSUME Kill \/ KillHalfway \/ Restart \/ Lose PROVE FALSE
  BY <1>3 DEF Kill, KillHalfway, Restart, Lose
<1> QED BY <1>1, <1>2, <1>3 DEF Next, Running, Served, Unserved

-----------------------------------------------------------------------------
(* The theorems *)

\* Type correctness of the tables and the histories.
THEOREM ChatServerTypes == Spec => []TypeOK
<1>1. Inv => TypeOK
  BY DEF Inv
<1> QED BY <1>1, InvAlways, PTL

\* Friendship is mutual whatever the requests, crossing or repeated, except
\* between users whose request was cut short, by a kill or for want of the
\* database.
THEOREM FriendsStayMutual == Spec => []FriendsAreMutual
<1>1. Inv => FriendsAreMutual
  BY DEF Inv
<1> QED BY <1>1, InvAlways, PTL

\* Nobody has two applications of one user to answer.
THEOREM NeverTwoApplications == Spec => []OneApplication
<1>1. Inv => OneApplication
  BY DEF Inv
<1> QED BY <1>1, InvAlways, PTL

\* What is sent to a user by way of OnlineUser goes to a connection that this
\* user has logged in on, or to an endpoint whose rows were left behind.
THEOREM PersonalPacketsArriveRight == Spec => SentToTheUser
<1>1. Inv /\ [Next]_vars =>
        [\A i \in DOMAIN sends' :
           LET c == sends'[i][1]
               packet == sends'[i][2]
           IN packet.type \in {"PrivateMessage_Return", "UpdateApplication",
                               "UpdateFriendList"}
                => packet.to \in loggedIn[c] \/ c \in orphaned]_vars
  BY SendsRight DEF AllRight, Right, Personal
<1> QED BY <1>1, InvAlways, PTL DEF Spec, SentToTheUser

\* A change of friends that is made is told to both sides, as far as they are
\* connected: the sender by the answer, since a login that the database has
\* recorded has its row, and the other by the notice.
THEOREM ChangesAreTold == Spec => FriendsAreTold
<1>1. Inv /\ LoginsHaveRows /\ [Next]_vars =>
        [state = "running" /\ state' = "running" /\ database' = "up" =>
           \A u, v \in User :
             /\ relation'[<<u, v>>] # relation[<<u, v>>]
             /\ RowsOf(u) # {} /\ RowsOf(u) \subseteq conns
             => \E i \in DOMAIN sends' :
                  /\ sends'[i][1] \in RowsOf(u)
                  /\ sends'[i][2].type \in
                       {"UpdateFriendList", "DeleteFriend_Return",
                        "AgreeApplication_Return"}]_vars
  <2> SUFFICES ASSUME Inv, LoginsHaveRows, Next, state = "running",
                      state' = "running", database' = "up",
                      NEW u \in User, NEW v \in User,
                      relation'[<<u, v>>] # relation[<<u, v>>],
                      RowsOf(u) # {}, RowsOf(u) \subseteq conns
               PROVE  Tells(sends', u)
    BY DEF Tells, Telling
  <2>1. conns \subseteq Conn
    BY DEF Inv, TypeOK
  <2> QED BY <2>1, OnlyMembers, MemberTells
<1> QED
  BY <1>1, InvAlways, RowsInit, RowsStep, InvInit, InvStep, PTL
     DEF Spec, FriendsAreTold
=============================================================================
