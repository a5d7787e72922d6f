----------------------------- MODULE ChatServer -----------------------------
(***************************************************************************)
(* What the server's Handler does with each request: the tables it reads   *)
(* and changes, and the packets it sends to whom.                          *)
(*                                                                         *)
(* A handler runs to its end on the one thread of io_context, so it is one *)
(* action; but the tables are changed by one autocommitted statement after *)
(* another, and the process may be killed between two of them.  The tables *)
(* survive that, except OnlineUser, which the next server empties.         *)
(* The connection to the database may be lost too, before any statement.   *)
(* Nothing connects again and nothing checks: every later statement fails, *)
(* and a query that fails returns rows that nobody has written.            *)
(*                                                                         *)
(* The clients are seen from the server: each request is one that a client *)
(* can send after what it has been told, perhaps long ago.  How packets    *)
(* travel is in Framing and WriteQueue, how connections end in Registry.   *)
(***************************************************************************)
EXTENDS Naturals, Sequences, FiniteSets

CONSTANTS
  User,           \* user names
  Conn,           \* endpoints that clients connect from
  MaxRows         \* bound: copies of one row in Relation

ASSUME ChatServerAssumption == MaxRows \in Nat

VARIABLES
  state,          \* "running", "killed", or the handler whose undefined
                  \* behaviour ended it, or "query" if it was to read a row
                  \* that nobody has written
  database,       \* the connection to it: "up" or "lost"
  conns,          \* conn_list
  registered,     \* table User
  relation,       \* table Relation: copies of each row <<user1, user2>>
  application,    \* table application: the same
  online,         \* table OnlineUser: rows <<user, endpoint>>
  sends,          \* the sends of the last step, in order: <<endpoint, packet>>
  loggedIn,       \* users logged in on each connection (history)
  orphaned,       \* endpoints whose rows were left behind (history)
  chats,          \* users each client may have opened a chat with (history)
  applied,        \* applications ever made (history)
  befriended,     \* pairs that ever were in Relation (history)
  cut             \* pairs {u, v} that a handler cut short left half changed,
                  \* until they are unfriended (history)

tables  == <<registered, relation, application, online>>
history == <<loggedIn, orphaned, chats, applied, befriended, cut>>
vars    == <<state, database, conns, tables, sends, history>>

Pair == User \X User

Init ==
  /\ state = "running" /\ database = "up" /\ conns = {}
  /\ registered = {} /\ online = {}
  /\ relation = [p \in Pair |-> 0] /\ application = [p \in Pair |-> 0]
  /\ sends = <<>>
  /\ loggedIn = [c \in Conn |-> {}] /\ orphaned = {}
  /\ chats = [c \in Conn |-> {}]
  /\ applied = {} /\ befriended = {} /\ cut = {}

-----------------------------------------------------------------------------
(* Packets and rows *)

Packet(type, to, arg) == [type |-> type, to |-> to, arg |-> arg]

\* "select IP, port from OnlineUser natural join User": endpoints of a user.
RowsOf(u) == {c \in Conn : <<u, c>> \in online}

\* The loop over conn_list: the connection at the endpoint, if there is one.
SendAt(c, packet) == IF c \in conns THEN <<<<c, packet>>>> ELSE <<>>

\* What is sent to user u on behalf of the handlers that use row 0 of the
\* answer, which may be any of them, and check that there is one.
Notices_Silent(u, packet) == {<<>>}

Notices(u, packet) ==
  IF RowsOf(u) = {} THEN {<<>>} ELSE {SendAt(c, packet) : c \in RowsOf(u)}

Insert(table, row) == [table EXCEPT ![row] = @ + 1]
Delete(table, row) == [table EXCEPT ![row] = 0]

-----------------------------------------------------------------------------
(* Connections, seen from here *)

Connect(c) ==
  /\ c \notin conns
  /\ conns' = conns \cup {c}
  /\ sends' = <<>>
  /\ UNCHANGED <<state, tables, history>>

OnlineWithout_Kept(c) == online

\* Rows left after those of an endpoint are deleted.
OnlineWithout(c) == {row \in online : row[2] # c}

\* RemoveClient
RemoveClient(c) ==
  /\ c \in conns /\ conns' = conns \ {c}
  /\ online' = OnlineWithout(c)
  /\ loggedIn' = [loggedIn EXCEPT ![c] = {}]
  /\ chats' = [chats EXCEPT ![c] = {}]
  /\ orphaned' = orphaned \ {c}
  /\ sends' = <<>>
  /\ UNCHANGED <<state, registered, relation, application, applied, befriended,
                 cut>>

\* remove_dead, or RemoveClient without the database: the connection goes, its
\* rows stay.
Evict(c) ==
  /\ c \in conns /\ conns' = conns \ {c}
  /\ loggedIn' = [loggedIn EXCEPT ![c] = {}]
  /\ chats' = [chats EXCEPT ![c] = {}]
  /\ orphaned' = IF \E u \in User : <<u, c>> \in online THEN orphaned \cup {c}
                 ELSE orphaned
  /\ sends' = <<>>
  /\ UNCHANGED <<state, tables, applied, befriended, cut>>

-----------------------------------------------------------------------------
(* Accounts *)

Register(c, u) ==
  /\ registered' = registered \cup {u}
  /\ sends' = <<<<c, Packet("Register_Return", u, u \notin registered)>>>>
  /\ UNCHANGED <<state, conns, relation, application, online, history>>

\* An update that matches no row is no error: the answer is always yes.
RegisterExtra(c, u) ==
  /\ sends' = <<<<c, Packet("Register_Extra_Return", u, TRUE)>>>>
  /\ UNCHANGED <<state, conns, tables, history>>

Authentic_Unknown(u, right) == right

\* right: is the password that of the account.
Authentic(u, right) == u \in registered /\ right

\* Nothing asks whether u is logged in already.
Login(c, u, right) ==
  LET ok == Authentic(u, right)
  IN /\ online' = IF ok THEN online \cup {<<u, c>>} ELSE online
     /\ loggedIn' = IF ok THEN [loggedIn EXCEPT ![c] = @ \cup {u}] ELSE loggedIn
     /\ sends' = <<<<c, Packet("Login_Return", u, ok)>>>>
     /\ UNCHANGED <<state, conns, registered, relation, application,
                    orphaned, chats, applied, befriended, cut>>

-----------------------------------------------------------------------------
(* Questions *)

FriendsOf(u) == {v \in User : relation[<<u, v>>] > 0}

Ask(c, packet) ==
  /\ sends' = <<<<c, packet>>>>
  /\ UNCHANGED <<state, conns, tables, history>>

FriendList(c, u) == Ask(c, Packet("FriendList_Return", u, FriendsOf(u)))

CheckApplication(c, u) ==
  Ask(c, Packet("CheckApplication_Return", u,
                {v \in User : application[<<v, u>>] > 0}))

\* A client that is told yes opens a chat.
CheckOnline(c, u, v) ==
  /\ sends' = <<<<c, Packet("CheckOnline_Return", u, RowsOf(v) # {})>>>>
  /\ chats' = IF RowsOf(v) # {} THEN [chats EXCEPT ![c] = @ \cup {v}] ELSE chats
  /\ UNCHANGED <<state, conns, tables, loggedIn, orphaned, applied, befriended,
                 cut>>

-----------------------------------------------------------------------------
(* Messages *)

\* Every connection gets it, logged in or not, the sender's too.
PublicMessage(c, u) ==
  /\ \E order \in [1 .. Cardinality(conns) -> conns] :
       /\ \A d \in conns : \E i \in DOMAIN order : order[i] = d
       /\ sends' = [i \in DOMAIN order |->
                      <<order[i], Packet("PublicMessage_Return", u, {})>>]
  /\ UNCHANGED <<state, conns, tables, history>>

\* A client that gets one opens a chat too.
\* The handler reads row 0 of the answer without looking whether there is one.
PrivateMessage(c, u, v) ==
  IF RowsOf(v) = {}
  THEN /\ state' = "PrivateMessage" /\ sends' = <<>>
       /\ UNCHANGED <<conns, tables, history>>
  ELSE /\ \E notice \in Notices(v, Packet("PrivateMessage_Return", v, u)) :
            /\ sends' =
                 notice \o <<<<c, Packet("PrivateMessage_Return", u, u)>>>>
            /\ chats' = [d \in Conn |-> IF \E i \in DOMAIN notice :
                                             notice[i][1] = d
                                        THEN chats[d] \cup {u} ELSE chats[d]]
       /\ UNCHANGED <<state, conns, tables, loggedIn, orphaned, applied,
                      befriended, cut>>

-----------------------------------------------------------------------------
(* Friends *)

CanApply_Always(u, v) == v \in registered

\* A second application is answered like the first, but not entered.
CanApply(u, v) == v \in registered /\ application[<<u, v>>] # 1

AddFriend(c, u, v) ==
  /\ IF CanApply(u, v)
     THEN /\ application' = Insert(application, <<u, v>>)
          /\ applied' = applied \cup {<<u, v>>}
     ELSE UNCHANGED <<application, applied>>
  /\ \E notice \in Notices(v, Packet("UpdateApplication", v, TRUE)) :
       sends' = <<<<c, Packet("AddFriend_Return", u, v \in registered)>>>>
                  \o notice
  /\ UNCHANGED <<state, conns, registered, relation, online, loggedIn, orphaned,
                 chats, befriended, cut>>

Unfriended_OneWay(u, v) == Delete(relation, <<u, v>>)

\* Relation after both deletes.
Unfriended(u, v) == Delete(Delete(relation, <<u, v>>), <<v, u>>)

DeleteFriend(c, u, v) ==
  /\ relation' = Unfriended(u, v) /\ cut' = cut \ {{u, v}}
  /\ \E notice \in Notices(v, Packet("UpdateFriendList", v, u)) :
       sends' = notice \o <<<<c, Packet("DeleteFriend_Return", u, v)>>>>
  /\ UNCHANGED <<state, conns, registered, application, online, loggedIn,
                 orphaned, chats, applied, befriended>>

\* Relation after both inserts: v applied, u agrees.
Befriended(u, v) == Insert(Insert(relation, <<v, u>>), <<u, v>>)

\* A yes is not checked against the applications.  The applicant is looked for
\* as in PrivateMessage, when everything else has been done.
AgreeApplication(c, u, v, yes) ==
  /\ application' = Delete(application, <<v, u>>)
  /\ IF yes
     THEN LET answer == <<<<c, Packet("AgreeApplication_Return", u, v)>>>>
          IN /\ relation' = Befriended(u, v)
             /\ befriended' = befriended \cup {<<u, v>>, <<v, u>>}
             /\ IF RowsOf(v) = {}
                THEN state' = "AgreeApplication" /\ sends' = answer
                ELSE /\ \E notice \in
                             Notices(v, Packet("UpdateFriendList", v, v)) :
                          sends' = answer \o notice
                     /\ UNCHANGED state
     ELSE sends' = <<>> /\ UNCHANGED <<state, relation, befriended>>
  /\ UNCHANGED <<conns, registered, online, loggedIn, orphaned, chats,
                 applied, cut>>

-----------------------------------------------------------------------------
(* Requests half done *)

\* DeleteFriend after its first delete.
CutDelete(u, v) ==
  /\ relation' = Delete(relation, <<u, v>>)
  /\ cut' = cut \cup {{u, v}}
  /\ UNCHANGED <<application, befriended>>

\* AgreeApplication after its first insert.
CutAgree(u, v) ==
  /\ application' = Delete(application, <<v, u>>)
  /\ relation' = Insert(relation, <<v, u>>)
  /\ befriended' = befriended \cup {<<v, u>>}
  /\ cut' = cut \cup {{u, v}}

\* The same after its delete: the application is lost.
CutAnswer(u, v) ==
  /\ application' = Delete(application, <<v, u>>)
  /\ UNCHANGED <<relation, befriended, cut>>

\* Which requests of the main window of u these may be: it asks about and
\* deletes friends it has been shown, writes in chats it has opened, and answers
\* applications it has been shown, all of which may not be there any more.
ShownFriend(u, v) == <<u, v>> \in befriended
ShownApplicant(u, v) ==
  <<v, u>> \in applied /\ relation[<<u, v>>] < MaxRows
                       /\ relation[<<v, u>>] < MaxRows

HalfDone(u, v) ==
  \/ ShownFriend(u, v) /\ CutDelete(u, v)
  \/ ShownApplicant(u, v) /\ (CutAnswer(u, v) \/ CutAgree(u, v))

-----------------------------------------------------------------------------
(* The database is lost *)

\* A query that failed: as if there were no rows, or row 0 is read.
NoRows(answer) ==
  \/ sends' = answer /\ UNCHANGED state
  \/ sends' = <<>> /\ state' = "query"

\* AddFriend answers before its last query.
ApplyUnserved(c, u, yes) ==
  /\ sends' = <<<<c, Packet("AddFriend_Return", u, yes)>>>>
  /\ state' \in {state, "query"}

\* The end of DeleteFriend and of AgreeApplication, which reads row 0 anyway.
DeleteUnserved(c, u, v) ==
  NoRows(<<<<c, Packet("DeleteFriend_Return", u, v)>>>>)
AgreeUnserved(c, u, v) ==
  /\ sends' = <<<<c, Packet("AgreeApplication_Return", u, v)>>>>
  /\ state' = "query"

GuestUnserved(c) ==
  /\ \E u \in User :
       \/ \E yes \in BOOLEAN :
            /\ sends' = <<<<c, Packet("Register_Return", u, yes)>>>>
            /\ UNCHANGED state
       \/ /\ sends' = <<<<c, Packet("Register_Extra_Return", u, FALSE)>>>>
          /\ UNCHANGED state
       \/ NoRows(<<<<c, Packet("Login_Return", u, FALSE)>>>>)
  /\ UNCHANGED <<conns, tables, history>>

MemberUnserved(c, u) ==
  \/ PublicMessage(c, u)
  \/ /\ \/ NoRows(<<<<c, Packet("FriendList_Return", u, {})>>>>)
        \/ NoRows(<<<<c, Packet("CheckApplication_Return", u, {})>>>>)
        \/ \E v \in User \ {u} :
             \/ \E yes \in BOOLEAN : ApplyUnserved(c, u, yes)
             \/ /\ ShownFriend(u, v)
                /\ \/ NoRows(<<<<c, Packet("CheckOnline_Return", u, FALSE)>>>>)
                   \/ DeleteUnserved(c, u, v)
             \/ v \in chats[c] /\ sends' = <<>> /\ state' = "query"
             \/ /\ ShownApplicant(u, v)
                /\ \/ AgreeUnserved(c, u, v)
                   \/ sends' = <<>> /\ UNCHANGED state
     /\ UNCHANGED <<conns, tables, history>>

\* Login loses it between its query and its insert: the answer is yes.
LoginUnrecorded(c, u) ==
  /\ u \in registered
  /\ loggedIn' = [loggedIn EXCEPT ![c] = @ \cup {u}]
  /\ sends' = <<<<c, Packet("Login_Return", u, TRUE)>>>>
  /\ UNCHANGED <<state, conns, tables, orphaned, chats, applied, befriended, cut>>

\* A request of the main window of u loses it after its first change, at least.
MemberInterrupted(c, u, v) ==
  /\ \/ /\ ShownFriend(u, v) /\ DeleteUnserved(c, u, v)
        /\ \/ CutDelete(u, v)
           \/ /\ relation' = Unfriended(u, v) /\ cut' = cut \ {{u, v}}
              /\ UNCHANGED <<application, befriended>>
        /\ UNCHANGED applied
     \/ /\ ShownApplicant(u, v) /\ AgreeUnserved(c, u, v)
        /\ \/ CutAnswer(u, v) \/ CutAgree(u, v)
           \/ /\ application' = Delete(application, <<v, u>>)
              /\ relation' = Befriended(u, v)
              /\ befriended' = befriended \cup {<<u, v>>, <<v, u>>}
              /\ UNCHANGED cut
        /\ UNCHANGED applied
     \/ /\ CanApply(u, v) /\ ApplyUnserved(c, u, TRUE)
        /\ application' = Insert(application, <<u, v>>)
        /\ applied' = applied \cup {<<u, v>>}
        /\ UNCHANGED <<relation, befriended, cut>>
  /\ UNCHANGED <<conns, registered, online, loggedIn, orphaned, chats>>

\* Lost in a handler or between two.
Lose ==
  /\ state = "running" /\ database = "up" /\ database' = "lost"
  /\ \/ sends' = <<>> /\ UNCHANGED <<state, conns, tables, history>>
     \/ \E c \in conns, u \in User : LoginUnrecorded(c, u)
     \/ \E c \in conns : \E u \in loggedIn[c] : \E v \in User \ {u} :
          MemberInterrupted(c, u, v)

-----------------------------------------------------------------------------
(* The end of the server *)

\* Killed between two requests, or between two statements of one that the main
\* window of u has sent; nothing has been sent in return.
Kill ==
  /\ state' = "killed" /\ sends' = <<>>
  /\ UNCHANGED <<conns, tables, history>>

KillHalfway ==
  /\ state' = "killed" /\ sends' = <<>>
  /\ \E c \in conns : \E u \in loggedIn[c] : \E v \in User \ {u} : HalfDone(u, v)
  /\ UNCHANGED <<conns, registered, online, loggedIn, orphaned, chats, applied>>

\* Endpoints with rows.
Rowed == {c \in Conn : \E u \in User : <<u, c>> \in online}

\* Server(): nobody is connected, and OnlineUser is emptied, unless there is no
\* connection to the database, which the constructor does not check.
Restart ==
  /\ state # "running" /\ state' = "running"
  /\ conns' = {} /\ sends' = <<>>
  /\ \/ database' = "up" /\ online' = {} /\ orphaned' = {}
     \/ database' = "lost" /\ orphaned' = Rowed /\ UNCHANGED online
  /\ loggedIn' = [c \in Conn |-> {}]
  /\ chats' = [c \in Conn |-> {}]
  /\ UNCHANGED <<registered, relation, application, applied, befriended, cut>>

-----------------------------------------------------------------------------
Running(A)  == state = "running" /\ UNCHANGED database /\ A
Served(A)   == database = "up" /\ Running(A)
Unserved(A) == database = "lost" /\ Running(A)

\* Requests that need no login.
Guest(c) ==
  \E u \in User : \/ Register(c, u) \/ RegisterExtra(c, u)
                  \/ \E right \in BOOLEAN : Login(c, u, right)

\* Requests of the main window of user u.
Member(c, u) ==
  \/ FriendList(c, u) \/ CheckApplication(c, u) \/ PublicMessage(c, u)
  \/ \E v \in User \ {u} :
       \/ AddFriend(c, u, v)
       \/ ShownFriend(u, v) /\ (CheckOnline(c, u, v) \/ DeleteFriend(c, u, v))
       \/ v \in chats[c] /\ PrivateMessage(c, u, v)
       \/ /\ ShownApplicant(u, v)
          /\ \E yes \in BOOLEAN : AgreeApplication(c, u, v, yes)

Next ==
  \/ \E c \in Conn : Running(Connect(c) \/ Evict(c)) \/ Served(RemoveClient(c))
  \/ \E c \in conns : Served(Guest(c)) \/ Unserved(GuestUnserved(c))
  \/ \E c \in conns : \E u \in loggedIn[c] :
       Served(Member(c, u)) \/ Unserved(MemberUnserved(c, u))
  \/ Lose
  \/ Running(Kill) \/ Served(KillHalfway)
  \/ Restart

Spec == Init /\ [][Next]_vars

-----------------------------------------------------------------------------
(* Properties *)

TypeOK ==
  /\ state \in {"running", "killed", "PrivateMessage", "AgreeApplication",
               "query"}
  /\ database \in {"up", "lost"}
  /\ conns \subseteq Conn /\ registered \subseteq User
  /\ relation \in [Pair -> 0 .. MaxRows] /\ application \in [Pair -> Nat]
  /\ online \subseteq registered \X Conn
  /\ loggedIn \in [Conn -> SUBSET registered] /\ orphaned \subseteq Conn
  /\ chats \in [Conn -> SUBSET User]
  /\ applied \subseteq Pair /\ befriended \subseteq Pair
  /\ cut \subseteq SUBSET User

\* Friendship is mutual in table Relation, copies of rows included, even when
\* the server has died in AgreeApplication's last loop; but not between users
\* whose request was cut short, by a kill or for want of the database, until one
\* of them deletes the other.
FriendsAreMutual ==
  \A u, v \in User :
    {u, v} \notin cut => relation[<<u, v>>] = relation[<<v, u>>]

\* However often somebody applies, there is one row to answer.
OneApplication == \A p \in Pair : application[p] <= 1

\* A packet for a user, found through OnlineUser, goes to a connection that this
\* user has logged in on, although rows name endpoints, and endpoints come
\* back: a row is left behind only by an eviction or without a database.
SentToTheUser ==
  [][\A i \in DOMAIN sends' :
       LET c == sends'[i][1]
           packet == sends'[i][2]
       IN packet.type \in {"PrivateMessage_Return", "UpdateApplication",
                           "UpdateFriendList"}
            => packet.to \in loggedIn[c] \/ c \in orphaned]_vars

\* When the friends of a user who is connected change, one of that user's
\* clients is told to get the new list, by whichever side the change was made,
\* unless the database was lost on the way.
FriendsAreTold ==
  [][state = "running" /\ state' = "running" /\ database' = "up" =>
       \A u, v \in User :
         /\ relation'[<<u, v>>] # relation[<<u, v>>]
         /\ RowsOf(u) # {} /\ RowsOf(u) \subseteq conns
         => \E i \in DOMAIN sends' :
              /\ sends'[i][1] \in RowsOf(u)
              /\ sends'[i][2].type \in
                   {"UpdateFriendList", "DeleteFriend_Return",
                    "AgreeApplication_Return"}]_vars

\* What mainwindow.h says of receiveData_checkonline: it tells whether the
\* other user is online, and if so one can chat.
CheckedChatWorks == state # "PrivateMessage"
=============================================================================
