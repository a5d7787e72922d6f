-------------------------- MODULE MainWindowProofs --------------------------
(***************************************************************************)
(* Proofs about module MainWindow, for any set of other users and for any  *)
(* values of the bounds.                                                   *)
(***************************************************************************)
EXTENDS MainWindow, SequenceFacts, FiniteSetTheorems

-----------------------------------------------------------------------------
(* Types *)

\* A chat that is taken off the list has a page to take off the stack.
TypeInv == TypeOK /\ Len(chatlist) <= Len(pages)

\* Requests and signals as the slots and the server make them.
LEMMA QueueTypes ==
  /\ \A type \in {"FriendList_Request", "CheckApplication_Request"},
        yes \in BOOLEAN : Request(type, Me, yes) \in Requests
  /\ \A type \in {"CheckOnline_Request", "PrivateMessage_Request",
                  "AddFriend_Request", "DeleteFriend_Request",
                  "AgreeApplication_Request"},
        v \in Peer, yes \in BOOLEAN : Request(type, v, yes) \in Requests
  /\ \A slot \in {"newfriend", "update", "update2"}, yes \in BOOLEAN :
       Signal(slot, Me, yes) \in Signals
  /\ \A slot \in {"addfriend", "addapplication", "checkonline", "private",
                  "deletefriend", "update"},
        v \in Peer, yes \in BOOLEAN : Signal(slot, v, yes) \in Signals
BY DEF Request, Requests, Signal, Signals

\* What they hold: only requests and signals about the user's own lists do not
\* name another user.
LEMMA QueueFields ==
  /\ \A r \in Requests :
       /\ r.yes \in BOOLEAN
       /\ r.type \notin {"FriendList_Request", "CheckApplication_Request"}
            => r.who \in Peer
  /\ \A s \in Signals :
       /\ s.yes \in BOOLEAN
       /\ s.slot \in {"newfriend", "update", "update2"} \/ s.who \in Peer
BY DEF Requests, Signals

LEMMA FirstRequestsType == FirstRequests \in Seq(Requests)
<1> DEFINE a == Request("FriendList_Request", Me, FALSE)
           b == Request("CheckApplication_Request", Me, FALSE)
<1>1. a \in Requests /\ b \in Requests
  BY QueueTypes
<1>2. FirstRequests = <<a, b>>
  BY DEF FirstRequests
<1> HIDE DEF a, b
<1> QED BY <1>1, <1>2

LEMMA TypeInit == Init => TypeInv
<1> SUFFICES ASSUME Init PROVE TypeInv
  OBVIOUS
<1>1. FirstRequests \in Seq(Requests)
  BY FirstRequestsType
<1>2. relation \in [Peer -> Nat] /\ Friends \subseteq Peer
  BY DEF Init, Friends
<1>3. ListsOK /\ ChatsOK /\ Len(chatlist) <= Len(pages)
  BY DEF Init, ListsOK, ChatsOK
<1>4. QueuesOK
  BY <1>1 DEF Init, QueuesOK
<1>5. ServerOK
  BY <1>2 DEF Init, ServerOK
<1> QED BY <1>3, <1>4, <1>5 DEF Init, TypeInv, TypeOK

\* Each request that is sent is one.
LEMMA SendTypes ==
  ASSUME QueuesOK, NEW type, NEW who, NEW yes, Send(type, who, yes),
         Request(type, who, yes) \in Requests
  PROVE  toServer' \in Seq(Requests)
BY DEF QueuesOK, Send

LEMMA RefreshTypes ==
  ASSUME TypeInv, NEW newRow, Refresh(newRow)
  PROVE  /\ friendlist' = <<>> /\ row' = newRow /\ toServer' \in Seq(Requests)
         /\ crossed' \in BOOLEAN
<1>1. toServer' \in Seq(Requests)
  BY QueueTypes, SendTypes DEF Refresh, TypeInv, TypeOK
<1>2. crossed' \in BOOLEAN
  BY Zenon DEF Refresh, FriendListUnderWay, UnderWay
<1> QED BY <1>1, <1>2 DEF Refresh

\* The type of the chats, with the pages.
ChatsInv == ChatsOK /\ Len(chatlist) <= Len(pages)

LEMMA OpenChatTypes ==
  ASSUME ChatsInv, NEW v \in Peer, OpenChat(v)
  PROVE  ChatsInv'
BY DEF ChatsInv, ChatsOK, OpenChat

LEMMA CloseChatTypes ==
  ASSUME ChatsInv, NEW v, CloseChat(v)
  PROVE  ChatsInv'
<1>1. CASE v \in ToSet(chatlist)
  <2> DEFINE i == PlaceOf(v)
             n == Len(chatlist)
  <2>1. i \in 1 .. n /\ n \in Nat
    BY <1>1 DEF PlaceOf, ToSet, ChatsInv, ChatsOK
  <2>2. i \in 1 .. Len(pages)
    BY <2>1 DEF ChatsInv, ChatsOK
  <2>3. /\ chatlist' = RemoveAt(chatlist, i)
        /\ chatRow' = RowAfterTaking(chatRow, i, n)
        /\ pages' = RemoveAt(pages, i)
    BY <1>1 DEF CloseChat, PageOf
  <2>4. chatRow \in 0 .. n
    BY DEF ChatsInv, ChatsOK
  <2>5. Len(pages) \in Nat /\ n <= Len(pages)
    BY DEF ChatsInv, ChatsOK
  <2> HIDE DEF i
  <2>6. /\ chatlist' \in Seq(Peer) /\ Len(chatlist') = n - 1
        /\ pages' \in Seq(Peer) /\ Len(pages') = Len(pages) - 1
    BY <2>1, <2>2, <2>3, RemoveAtProperties DEF ChatsInv, ChatsOK
  <2> HIDE DEF n
  <2>7. chatRow' \in 0 .. n - 1
    BY <2>1, <2>3, <2>4 DEF RowAfterTaking
  <2> QED BY <2>1, <2>5, <2>6, <2>7 DEF ChatsInv, ChatsOK
<1>2. CASE v \notin ToSet(chatlist)
  BY <1>2 DEF CloseChat, chats, ChatsInv, ChatsOK
<1> QED BY <1>1, <1>2

\* What remains of the types, and all of them but the server's.
WidgetsOK ==
  /\ window \in {"up", "ended"} /\ tab \in {"friends", "applications"}
  /\ acting \in BOOLEAN /\ answering \in BOOLEAN /\ question \in BOOLEAN
  /\ asked \in Peer \cup {Me}
  /\ crossed \in BOOLEAN /\ reopened \in BOOLEAN
  /\ appsCrossed \in BOOLEAN /\ several \in BOOLEAN

WindowInv == ListsOK /\ ChatsInv /\ QueuesOK /\ WidgetsOK

LEMMA PartsOfTypeInv ==
  /\ TypeInv => WindowInv /\ ServerOK
  /\ WindowInv' /\ ServerOK' => TypeInv'
BY DEF TypeInv, TypeOK, WindowInv, WidgetsOK, ChatsInv

LEMMA FreshTypes ==
  ASSUME Fresh
  PROVE  /\ ListsOK' /\ ChatsInv'
         /\ tab' = "friends" /\ acting' = FALSE /\ answering' = FALSE
         /\ question' = FALSE /\ asked' = Me /\ crossed' = FALSE
         /\ reopened' = FALSE /\ appsCrossed' = FALSE /\ several' = FALSE
<1>1. <<>> \in Seq(Peer) /\ Len(<<>>) = 0
  OBVIOUS
<1> QED BY <1>1 DEF Fresh, ListsOK, ChatsInv, ChatsOK

LEMMA EndsTypes == Ends => WindowInv'
<1> SUFFICES ASSUME Ends PROVE WindowInv'
  OBVIOUS
<1>1. Fresh /\ window' = "ended"
  BY DEF Ends
<1>2. QueuesOK'
  BY DEF Ends, QueuesOK
<1>3. WidgetsOK'
  BY <1>1, FreshTypes DEF WidgetsOK
<1> QED BY <1>1, <1>2, <1>3, FreshTypes DEF WindowInv

LEMMA HandledTypes ==
  ASSUME QueuesOK, signals # <<>>, Handled
  PROVE  signals' \in Seq(Signals) /\ window' = window
BY DEF QueuesOK, Handled

\* The slots for signals keep the types.
LEMMA DeliverTypes == TypeInv /\ Deliver => TypeInv'
<1> SUFFICES ASSUME TypeInv, Deliver PROVE TypeInv'
  OBVIOUS
<1>0. WindowInv /\ ListsOK /\ ChatsInv /\ QueuesOK /\ ServerOK /\ WidgetsOK
  BY PartsOfTypeInv DEF WindowInv
<1> DEFINE s == Head(signals)
<1>1. /\ window = "up" /\ signals # <<>> /\ UNCHANGED <<server, told>>
      /\ \/ s.slot = "addfriend"      /\ ReceiveAddFriend(s.who)
         \/ s.slot = "addapplication" /\ ReceiveAddApplication(s.who)
         \/ s.slot = "checkonline"    /\ ReceiveCheckOnline(s.yes)
         \/ s.slot = "private"        /\ ReceivePrivate(s.who, s.yes)
         \/ s.slot = "newfriend"      /\ ReceiveNewFriend
         \/ s.slot = "deletefriend"   /\ ReceiveDeleteFriend(s.who)
         \/ s.slot = "update"         /\ ReceiveUpdate(s.who, s.yes)
         \/ s.slot = "update2"        /\ ReceiveUpdate2
  BY DEF Deliver
<1>2. s \in Signals
  BY <1>0, <1>1 DEF QueuesOK
<1>3. s.slot \in {"addfriend", "addapplication", "private"} => s.who \in Peer
  BY <1>2, QueueFields
<1> HIDE DEF s
<1>4. ServerOK'
  BY <1>0, <1>1 DEF ServerOK, server, told
<1>5. WindowInv'
  <2>1. CASE s.slot = "addfriend" /\ ReceiveAddFriend(s.who)
    <3>1. Handled /\ s.who \in Peer
      BY <1>3, <2>1 DEF ReceiveAddFriend
    <3>2. signals' \in Seq(Signals) /\ window' = window
      BY <1>0, <1>1, <3>1, HandledTypes
    <3>3. ListsOK'
      BY <1>0, <2>1, <3>1 DEF ReceiveAddFriend, ListsOK
    <3> QED
      BY <1>0, <2>1, <3>2, <3>3
         DEF ReceiveAddFriend, WindowInv, WidgetsOK, QueuesOK, ChatsInv,
             ChatsOK, chats, widgets, history
  <2>2. CASE s.slot = "addapplication" /\ ReceiveAddApplication(s.who)
    <3>1. Handled /\ s.who \in Peer
      BY <1>3, <2>2 DEF ReceiveAddApplication
    <3>2. signals' \in Seq(Signals) /\ window' = window
      BY <1>0, <1>1, <3>1, HandledTypes
    <3>3. ListsOK'
      BY <1>0, <2>2, <3>1 DEF ReceiveAddApplication, ListsOK
    <3> QED
      BY <1>0, <2>2, <3>2, <3>3
         DEF ReceiveAddApplication, WindowInv, WidgetsOK, QueuesOK, ChatsInv,
             ChatsOK, chats, widgets, history
  <2>3. CASE s.slot = "checkonline" /\ ReceiveCheckOnline(s.yes)
    <3>1. CASE ~s.yes
      <4>1. Handled
        BY <2>3, <3>1 DEF ReceiveCheckOnline
      <4>2. signals' \in Seq(Signals) /\ window' = window
        BY <1>0, <1>1, <4>1, HandledTypes
      <4> QED
        BY <1>0, <2>3, <3>1, <4>2
           DEF ReceiveCheckOnline, WindowInv, WidgetsOK, QueuesOK, ListsOK,
               ChatsInv, ChatsOK, lists, chats, widgets, history
    <3>2. CASE s.yes /\ row \notin DOMAIN friendlist
      BY <2>3, <3>2, EndsTypes DEF ReceiveCheckOnline
    <3>3. CASE s.yes /\ row \in DOMAIN friendlist
      <4> DEFINE one == friendlist[row]
      <4>1. /\ IF one \in ToSet(chatlist)
               THEN /\ chatRow' = PlaceOf(one)
                    /\ pages' = Append(pages, one)
                    /\ reopened' = TRUE
                    /\ UNCHANGED chatlist
               ELSE OpenChat(one)
            /\ Handled
            /\ UNCHANGED <<lists, widgets, toServer, asked, crossed,
                           appsCrossed, several>>
        BY <2>3, <3>3 DEF ReceiveCheckOnline
      <4>2. one \in Peer
        BY <1>0, <3>3 DEF ListsOK
      <4> HIDE DEF one
      <4>3. ChatsInv' /\ reopened' \in BOOLEAN
        <5>1. CASE one \in ToSet(chatlist)
          <6>1. PlaceOf(one) \in 1 .. Len(chatlist)
            BY <1>0, <5>1 DEF PlaceOf, ToSet, ChatsInv, ChatsOK
          <6>2. /\ chatRow' = PlaceOf(one) /\ pages' = Append(pages, one)
                /\ chatlist' = chatlist /\ reopened' = TRUE
            BY <4>1, <5>1
          <6>3. /\ chatlist \in Seq(Peer) /\ pages \in Seq(Peer)
                /\ Len(chatlist) <= Len(pages)
            BY <1>0 DEF ChatsInv, ChatsOK
          <6>4. /\ pages' \in Seq(Peer) /\ Len(pages') = Len(pages) + 1
                /\ Len(pages) \in Nat /\ Len(chatlist) \in Nat
            BY <4>2, <6>2, <6>3
          <6>5. Len(chatlist') <= Len(pages')
            BY <6>2, <6>3, <6>4
          <6>6. chatRow' \in 0 .. Len(chatlist')
            BY <6>1, <6>2, <6>4
          <6> QED BY <6>2, <6>3, <6>4, <6>5, <6>6 DEF ChatsInv, ChatsOK
        <5>2. CASE one \notin ToSet(chatlist)
          <6>1. OpenChat(one)
            BY <4>1, <5>2
          <6> QED BY <1>0, <4>2, <6>1, OpenChatTypes DEF OpenChat, WidgetsOK
        <5> QED BY <5>1, <5>2
      <4>4. signals' \in Seq(Signals) /\ window' = window
        BY <1>0, <1>1, <4>1, HandledTypes
      <4> QED
        BY <1>0, <4>1, <4>3, <4>4
           DEF WindowInv, WidgetsOK, QueuesOK, ListsOK, lists, widgets
    <3> QED BY <3>1, <3>2, <3>3
  <2>4. CASE s.slot = "private" /\ ReceivePrivate(s.who, s.yes)
    <3>1. s.who \in Peer
      BY <1>3, <2>4
    <3>2. CASE /\ ~s.yes /\ s.who \notin ToSet(chatlist) /\ OpenChat(s.who)
               /\ Handled
               /\ UNCHANGED <<lists, widgets, toServer, asked, crossed,
                              appsCrossed, several>>
      <4>1. ChatsInv' /\ reopened' = reopened
        BY <1>0, <3>1, <3>2, OpenChatTypes DEF OpenChat
      <4>2. signals' \in Seq(Signals) /\ window' = window
        BY <1>0, <1>1, <3>2, HandledTypes
      <4> QED
        BY <1>0, <3>2, <4>1, <4>2
           DEF WindowInv, WidgetsOK, QueuesOK, ListsOK, lists, widgets
    <3>3. CASE /\ Handled
               /\ UNCHANGED <<lists, chats, widgets, toServer, history>>
      <4>1. signals' \in Seq(Signals) /\ window' = window
        BY <1>0, <1>1, <3>3, HandledTypes
      <4> QED
        BY <1>0, <3>3, <4>1
           DEF WindowInv, WidgetsOK, QueuesOK, ListsOK, ChatsInv, ChatsOK,
               lists, chats, widgets, history
    <3>4. CASE Ends
      BY <3>4, EndsTypes
    <3> QED BY <2>4, <3>2, <3>3, <3>4 DEF ReceivePrivate
  <2>5. CASE s.slot = "newfriend" /\ ReceiveNewFriend
    <3>1. CASE appRow = 0
      BY <2>5, <3>1, EndsTypes DEF ReceiveNewFriend
    <3>2. CASE appRow # 0
      <4>1. /\ Refresh(-1)
            /\ applicationlist' = RemoveAt(applicationlist, appRow)
            /\ appRow' = 0 /\ answering' = FALSE
            /\ Handled
            /\ UNCHANGED <<chats, tab, acting, question, asked, reopened,
                           appsCrossed, several>>
        BY <2>5, <3>2 DEF ReceiveNewFriend
      <4>2. signals' \in Seq(Signals) /\ window' = window
        BY <1>0, <1>1, <4>1, HandledTypes
      <4>3. /\ friendlist' = <<>> /\ row' = -1 /\ toServer' \in Seq(Requests)
            /\ crossed' \in BOOLEAN
        BY <4>1, RefreshTypes
      <4>4. appRow \in 1 .. Len(applicationlist)
        BY <1>0, <3>2 DEF ListsOK
      <4>5. applicationlist' \in Seq(Peer)
        BY <1>0, <4>1, <4>4, RemoveAtProperties DEF ListsOK
      <4>6. ListsOK'
        BY <4>1, <4>3, <4>5 DEF ListsOK
      <4> QED
        BY <1>0, <4>1, <4>2, <4>3, <4>6
           DEF WindowInv, WidgetsOK, QueuesOK, ChatsInv, ChatsOK, chats
    <3> QED BY <3>1, <3>2
  <2>6. CASE s.slot = "deletefriend" /\ ReceiveDeleteFriend(s.who)
    <3>1. /\ CloseChat(s.who) /\ Refresh(0) /\ acting' = FALSE /\ Handled
          /\ UNCHANGED <<applicationlist, appRow, tab, answering, question,
                         asked, reopened, appsCrossed, several>>
      BY <2>6 DEF ReceiveDeleteFriend
    <3>2. signals' \in Seq(Signals) /\ window' = window
      BY <1>0, <1>1, <3>1, HandledTypes
    <3>3. /\ friendlist' = <<>> /\ row' = 0 /\ toServer' \in Seq(Requests)
          /\ crossed' \in BOOLEAN
      BY <3>1, RefreshTypes
    <3>4. ChatsInv'
      BY <1>0, <3>1, CloseChatTypes
    <3>5. ListsOK'
      BY <1>0, <3>1, <3>3 DEF ListsOK
    <3> QED
      BY <1>0, <3>1, <3>2, <3>3, <3>4, <3>5 DEF WindowInv, WidgetsOK, QueuesOK
  <2>7. CASE s.slot = "update" /\ ReceiveUpdate(s.who, s.yes)
    <3>1. /\ IF s.yes THEN UNCHANGED chats ELSE CloseChat(s.who)
          /\ Refresh(-1) /\ Handled
          /\ UNCHANGED <<applicationlist, appRow, widgets, asked, reopened,
                         appsCrossed, several>>
      BY <2>7 DEF ReceiveUpdate
    <3>2. signals' \in Seq(Signals) /\ window' = window
      BY <1>0, <1>1, <3>1, HandledTypes
    <3>3. /\ friendlist' = <<>> /\ row' = -1 /\ toServer' \in Seq(Requests)
          /\ crossed' \in BOOLEAN
      BY <3>1, RefreshTypes
    <3>4. CASE s.yes
      BY <1>0, <3>1, <3>2, <3>3, <3>4
         DEF WindowInv, WidgetsOK, QueuesOK, ListsOK, ChatsInv, ChatsOK, chats,
             widgets
    <3>5. CASE ~s.yes
      <4>1. ChatsInv'
        BY <1>0, <3>1, <3>5, CloseChatTypes
      <4>2. ListsOK'
        BY <1>0, <3>1, <3>3 DEF ListsOK
      <4> QED
        BY <1>0, <3>1, <3>2, <3>3, <4>1, <4>2
           DEF WindowInv, WidgetsOK, QueuesOK, widgets
    <3> QED BY <3>4, <3>5
  <2>8. CASE s.slot = "update2" /\ ReceiveUpdate2
    <3>1. /\ applicationlist' = <<>> /\ appRow' = 0
          /\ Send("CheckApplication_Request", Me, FALSE)
          /\ Handled
          /\ UNCHANGED <<friendlist, row, chats, widgets, asked, crossed,
                         reopened, several>>
      BY <2>8 DEF ReceiveUpdate2
    <3>4. appsCrossed' \in BOOLEAN
      BY <2>8, Zenon DEF ReceiveUpdate2, UnderWay
    <3>2. signals' \in Seq(Signals) /\ window' = window
      BY <1>0, <1>1, <3>1, HandledTypes
    <3>3. toServer' \in Seq(Requests)
      BY <1>0, <3>1, SendTypes, QueueTypes
    <3> QED
      BY <1>0, <3>1, <3>2, <3>3, <3>4
         DEF WindowInv, WidgetsOK, QueuesOK, ListsOK, ChatsInv, ChatsOK, chats,
             widgets
  <2> QED BY <1>1, <2>1, <2>2, <2>3, <2>4, <2>5, <2>6, <2>7, <2>8
<1> QED BY <1>4, <1>5, PartsOfTypeInv

\* Requests about a friend, an applicant or a chat.
LEMMA SendPeerTypes ==
  ASSUME QueuesOK, NEW v \in Peer, NEW yes \in BOOLEAN,
         NEW type \in {"CheckOnline_Request", "PrivateMessage_Request",
                       "AddFriend_Request", "DeleteFriend_Request",
                       "AgreeApplication_Request"},
         Send(type, v, yes)
  PROVE  toServer' \in Seq(Requests)
BY QueueTypes, SendTypes

\* The acts of the user keep the types.
LEMMA UserTypes == TypeInv /\ User => TypeInv'
<1> SUFFICES ASSUME TypeInv, User PROVE TypeInv'
  OBVIOUS
<1>0. WindowInv /\ ListsOK /\ ChatsInv /\ QueuesOK /\ ServerOK /\ WidgetsOK
  BY PartsOfTypeInv DEF WindowInv
<1>1. ServerOK'
  BY <1>0 DEF User, ServerOK, server, told
<1> USE DEF WindowInv, WidgetsOK, ChatsInv, ChatsOK, ListsOK, QueuesOK
<1>2. ASSUME NEW i \in 0 .. Len(friendlist), ClickFriend(i) PROVE WindowInv'
  BY <1>0, <1>2 DEF ClickFriend, process, chats, history
<1>3. ASSUME NEW i \in 0 .. Len(friendlist), KeyFriend(i) PROVE WindowInv'
  BY <1>0, <1>3 DEF KeyFriend, process, chats, widgets, history
<1>4. ASSUME NEW i \in DOMAIN applicationlist, ClickApplication(i)
      PROVE  WindowInv'
  BY <1>0, <1>4 DEF ClickApplication, process, chats, history
<1>5. ASSUME NEW i \in DOMAIN applicationlist, KeyApplication(i)
      PROVE  WindowInv'
  BY <1>0, <1>5 DEF KeyApplication, process, chats, widgets, history
<1>6. ASSUME ChangeTab PROVE WindowInv'
  <2>1. acting' \in BOOLEAN /\ answering' \in BOOLEAN
    BY <1>0, <1>6, Zenon DEF ChangeTab
  <2> QED BY <1>0, <1>6, <2>1 DEF ChangeTab, process, lists, chats, history
<1>7. ASSUME NEW i \in DOMAIN chatlist, SelectChat(i) PROVE WindowInv'
  BY <1>0, <1>7 DEF SelectChat, process, lists, widgets, history
<1>8. ASSUME Write PROVE WindowInv'
  <2>1. CASE chatRow = 0
    BY <1>8, <2>1, EndsTypes DEF Write
  <2>2. CASE chatRow # 0
    <3>1. chatlist[chatRow] \in Peer
      BY <1>0, <2>2
    <3>2. toServer' \in Seq(Requests)
      BY <1>0, <1>8, <2>2, <3>1, SendPeerTypes DEF Write
    <3> QED
      BY <1>0, <1>8, <2>2, <3>2
         DEF Write, process, lists, chats, widgets, history
  <2> QED BY <2>1, <2>2
<1>9. ASSUME Chat PROVE WindowInv'
  <2>1. CASE row \notin DOMAIN friendlist
    BY <1>9, <2>1, EndsTypes DEF Chat
  <2>2. CASE row \in DOMAIN friendlist
    <3>1. friendlist[row] \in Peer
      BY <1>0, <2>2
    <3>2. toServer' \in Seq(Requests)
      BY <1>0, <1>9, <2>2, <3>1, SendPeerTypes DEF Chat
    <3> QED
      BY <1>0, <1>9, <2>2, <3>2
         DEF Chat, process, lists, chats, widgets, history
  <2> QED BY <2>1, <2>2
<1>10. ASSUME Delete PROVE WindowInv'
  <2>1. asked' \in Peer \cup {Me}
    BY <1>0, <1>10 DEF Delete
  <2> QED BY <1>0, <1>10, <2>1 DEF Delete, process, lists, chats
<1>11. ASSUME NEW yes \in BOOLEAN, AnswerQuestion(yes) PROVE WindowInv'
  <2>1. CASE yes /\ row \notin DOMAIN friendlist
    BY <1>11, <2>1, EndsTypes DEF AnswerQuestion
  <2>2. CASE yes /\ row \in DOMAIN friendlist
    <3>1. friendlist[row] \in Peer
      BY <1>0, <2>2
    <3>2. toServer' \in Seq(Requests)
      BY <1>0, <1>11, <2>2, <3>1, SendPeerTypes DEF AnswerQuestion
    <3> QED
      BY <1>0, <1>11, <2>2, <3>2 DEF AnswerQuestion, process, lists, chats
  <2>3. CASE ~yes
    BY <1>0, <1>11, <2>3 DEF AnswerQuestion, process, lists, chats
  <2> QED BY <2>1, <2>2, <2>3
<1>12. ASSUME NEW v \in Peer, Apply(v) PROVE WindowInv'
  <2>1. toServer' \in Seq(Requests)
    BY <1>0, <1>12, SendPeerTypes DEF Apply
  <2> QED
    BY <1>0, <1>12, <2>1 DEF Apply, process, lists, chats, widgets, history
<1>13. ASSUME Accept PROVE WindowInv'
  <2>1. CASE appRow = 0
    BY <1>13, <2>1, EndsTypes DEF Accept
  <2>2. CASE appRow # 0
    <3>1. applicationlist[appRow] \in Peer
      BY <1>0, <2>2
    <3>2. toServer' \in Seq(Requests)
      BY <1>0, <1>13, <2>2, <3>1, SendPeerTypes DEF Accept
    <3> QED
      BY <1>0, <1>13, <2>2, <3>2
         DEF Accept, process, lists, chats, widgets, history
  <2> QED BY <2>1, <2>2
<1>14. ASSUME Reject PROVE WindowInv'
  <2>1. CASE appRow = 0
    BY <1>14, <2>1, EndsTypes DEF Reject
  <2>2. CASE appRow # 0
    <3>1. appRow \in 1 .. Len(applicationlist)
      BY <1>0, <2>2
    <3>2. applicationlist[appRow] \in Peer
      BY <1>0, <3>1
    <3>3. toServer' \in Seq(Requests)
      BY <1>0, <1>14, <2>2, <3>2, SendPeerTypes DEF Reject
    <3>4. applicationlist' = RemoveAt(applicationlist, appRow)
      BY <1>14, <2>2 DEF Reject
    <3>5. applicationlist' \in Seq(Peer)
      BY <1>0, <3>1, <3>4, RemoveAtProperties
    <3>6. /\ appRow' = 0 /\ answering' = FALSE
          /\ UNCHANGED <<process, friendlist, row, chats, tab, acting, question,
                         history>>
      BY <1>14, <2>2 DEF Reject
    <3>7. ListsOK'
      BY <1>0, <3>5, <3>6
    <3>8. ChatsInv' /\ QueuesOK'
      BY <1>0, <3>3, <3>6 DEF process, chats
    <3>9. WidgetsOK'
      BY <1>0, <3>6 DEF process, history
    <3> QED BY <3>7, <3>8, <3>9
  <2> QED BY <2>1, <2>2
<1>15. ASSUME OpenFile PROVE WindowInv'
  BY <1>15, EndsTypes DEF OpenFile
<1> QED
  BY <1>1, <1>2, <1>3, <1>4, <1>5, <1>6, <1>7, <1>8, <1>9, <1>10, <1>11,
     <1>12, <1>13, <1>14, <1>15, PartsOfTypeInv, Zenon DEF User

LEMMA RelaunchTypes == TypeInv /\ Relaunch => TypeInv'
<1> SUFFICES ASSUME TypeInv, Relaunch PROVE TypeInv'
  OBVIOUS
<1>0. WindowInv /\ ListsOK /\ ChatsInv /\ QueuesOK /\ ServerOK /\ WidgetsOK
  BY PartsOfTypeInv DEF WindowInv
<1>1. ServerOK' /\ QueuesOK'
  BY <1>0, FirstRequestsType DEF Relaunch, server, told, ServerOK, QueuesOK
<1>2. ListsOK' /\ ChatsInv' /\ WidgetsOK'
  BY <1>0, FreshTypes DEF Relaunch, WidgetsOK
<1> QED BY <1>1, <1>2, PartsOfTypeInv DEF WindowInv

LEMMA Singleton ==
  ASSUME NEW S, NEW x \in S
  PROVE  /\ <<x>> \in Seq(S) /\ Len(<<x>>) = 1 /\ <<x>>[1] = x
OBVIOUS

LEMMA FunctionIsSeq ==
  ASSUME NEW S, NEW n \in Nat, NEW f \in [1 .. n -> S]
  PROVE  f \in Seq(S) /\ Len(f) = n
OBVIOUS

\* The signals for a list of friends, or for one applicant n times.
LEMMA SignalsTypes ==
  /\ \A n \in Nat : \A list \in [1 .. n -> Peer] :
       FriendSignals(list) \in Seq(Signals)
  /\ \A v \in Peer : ApplicationSignals(v, Cardinality(application))
                       \in Seq(Signals) \/ ~(application \subseteq Peer)
<1>1. ASSUME NEW n \in Nat, NEW list \in [1 .. n -> Peer]
      PROVE  FriendSignals(list) \in Seq(Signals)
  <2>1. \A i \in 1 .. n : Signal("addfriend", list[i], FALSE) \in Signals
    BY QueueTypes
  <2>2. FriendSignals(list)
          = [i \in 1 .. n |-> Signal("addfriend", list[i], FALSE)]
    BY DEF FriendSignals
  <2>3. FriendSignals(list) \in [1 .. n -> Signals]
    BY <2>1, <2>2
  <2> QED BY <2>3, FunctionIsSeq
<1>2. ASSUME NEW v \in Peer, application \subseteq Peer
      PROVE  ApplicationSignals(v, Cardinality(application)) \in Seq(Signals)
  <2>1. Cardinality(application) \in Nat
    BY <1>2, MainWindowAssumption, FS_Subset, FS_CardinalityType
  <2>2. Signal("addapplication", v, FALSE) \in Signals
    BY QueueTypes
  <2> DEFINE n == Cardinality(application)
             x == Signal("addapplication", v, FALSE)
  <2>3. ApplicationSignals(v, n) = [i \in 1 .. n |-> x]
    BY DEF ApplicationSignals
  <2> HIDE DEF n, x
  <2>4. ApplicationSignals(v, n) \in [1 .. n -> Signals]
    BY <2>2, <2>3 DEF x
  <2>5. ApplicationSignals(v, n) \in Seq(Signals)
    BY <2>1, <2>4, FunctionIsSeq DEF n
  <2> QED BY <2>5 DEF n
<1> QED BY <1>1, <1>2

LEMMA TellTypes ==
  ASSUME QueuesOK, NEW new \in Seq(Signals), Tell(new)
  PROVE  signals' \in Seq(Signals)
BY DEF QueuesOK, Tell

LEMMA TellOneTypes ==
  ASSUME QueuesOK, NEW v \in Peer, NEW yes \in BOOLEAN,
         NEW slot \in {"checkonline", "private", "deletefriend", "update"},
         Tell(<<Signal(slot, v, yes)>>)
  PROVE  signals' \in Seq(Signals)
<1>1. Signal(slot, v, yes) \in Signals
  BY QueueTypes
<1>2. <<Signal(slot, v, yes)>> \in Seq(Signals)
  BY <1>1
<1> QED BY <1>2, TellTypes

\* The notices, and the answer to a yes.
LEMMA Notices ==
  /\ Made \in Signals /\ Made.slot = "update"
  /\ \A v \in Peer : Unmade(v) \in Signals /\ Unmade(v).slot = "update"
  /\ /\ Signal("update2", Me, TRUE) \in Signals
     /\ Signal("update2", Me, TRUE).slot = "update2"
  /\ /\ Signal("newfriend", Me, TRUE) \in Signals
     /\ Signal("newfriend", Me, TRUE).slot = "newfriend"
BY DEF Made, Unmade, Signal, Signals

LEMMA NoticeTypes ==
  ASSUME QueuesOK, NEW x \in Signals, Tell(<<x>>)
  PROVE  signals' \in Seq(Signals)
<1>1. <<x>> \in Seq(Signals)
  BY Singleton
<1> QED BY <1>1, TellTypes

LEMMA RelationTypes ==
  ASSUME ServerOK, NEW v \in Peer
  PROVE  /\ Befriended(v) => relation' \in [Peer -> Nat]
         /\ Unfriended(v) => relation' \in [Peer -> Nat]
BY DEF ServerOK, Befriended, Unfriended

\* What the server and the others do keeps the types: the window is as it was.
LEMMA AnswerTypes == TypeInv /\ Answer => TypeInv'
<1> SUFFICES ASSUME TypeInv, Answer PROVE TypeInv'
  OBVIOUS
<1>0. WindowInv /\ ListsOK /\ ChatsInv /\ QueuesOK /\ ServerOK /\ WidgetsOK
  BY PartsOfTypeInv DEF WindowInv
<1> DEFINE r == Head(toServer)
<1>1. r \in Requests /\ toServer' \in Seq(Requests)
  BY <1>0 DEF Answer, QueuesOK
<1>2. ListsOK' /\ ChatsInv' /\ WidgetsOK'
  <2>1. several' = IF r.type = "CheckApplication_Request"
                   THEN Cardinality(application) > 1 ELSE several
    BY DEF Answer
  <2>2. (Cardinality(application) > 1) \in BOOLEAN
    OBVIOUS
  <2>3. several' \in BOOLEAN
    BY <1>0, <2>1, <2>2, Zenon DEF WidgetsOK
  <2>4. /\ UNCHANGED <<window, lists, chats, widgets>>
        /\ asked' = asked /\ crossed' = crossed /\ reopened' = reopened
        /\ appsCrossed' = appsCrossed
    BY DEF Answer
  <2>5. ListsOK' /\ ChatsInv'
    BY <1>0, <2>4 DEF lists, chats, ListsOK, ChatsInv, ChatsOK
  <2>6. WidgetsOK'
    BY <1>0, <2>3, <2>4 DEF widgets, WidgetsOK
  <2> QED BY <2>5, <2>6
<1>3. signals' \in Seq(Signals) /\ ServerOK'
  <2>0. untold' \in BOOLEAN /\ appsUntold' \in BOOLEAN
    <3>1. /\ untold' = (untold /\ (crossed \/ r.type # "FriendList_Request"))
          /\ appsUntold' = (appsUntold
                             /\ (appsCrossed \/ r.type # "CheckApplication_Request"))
      BY DEF Answer
    <3> QED BY <3>1, Zenon
  <2>1. CASE r.type = "FriendList_Request"
    <3>1. UNCHANGED server
          /\ \E list \in FriendRows : Tell(FriendSignals(list))
      BY <2>1 DEF Answer
    <3>2. PICK list \in FriendRows : Tell(FriendSignals(list))
      BY <3>1
    <3>3. PICK n \in 0 .. MaxRows : list \in [1 .. n -> Peer]
      BY DEF FriendRows
    <3>4. FriendSignals(list) \in Seq(Signals)
      BY MainWindowAssumption, <3>3, SignalsTypes
    <3> QED BY <1>0, <2>0, <3>1, <3>2, <3>4, TellTypes DEF server, ServerOK
  <2>2. CASE r.type = "CheckApplication_Request"
    <3>1. /\ UNCHANGED server
          /\ \/ \E v \in application :
                  Tell(ApplicationSignals(v, Cardinality(application)))
             \/ UNCHANGED signals
      BY <2>2 DEF Answer
    <3>2. ASSUME NEW v \in application,
                 Tell(ApplicationSignals(v, Cardinality(application)))
          PROVE  signals' \in Seq(Signals)
      <4>1. v \in Peer /\ application \subseteq Peer
        BY <1>0 DEF ServerOK
      <4>2. ApplicationSignals(v, Cardinality(application)) \in Seq(Signals)
        BY <4>1, SignalsTypes
      <4> QED BY <1>0, <3>2, <4>2, TellTypes
    <3> QED BY <1>0, <2>0, <3>1, <3>2 DEF server, ServerOK, QueuesOK
  <2> DEFINE Other == r.type \notin {"FriendList_Request",
                                     "CheckApplication_Request"}
  <2>3. Other => r.who \in Peer
    BY <1>1, QueueFields
  <2>4. CASE r.type = "CheckOnline_Request"
    <3>1. PICK yes \in BOOLEAN : Tell(<<Signal("checkonline", r.who, yes)>>)
      BY <2>4 DEF Answer
    <3>2. r.who \in Peer /\ UNCHANGED server
      BY <2>3, <2>4 DEF Answer
    <3> HIDE DEF r
    <3> QED BY <1>0, <2>0, <3>1, <3>2, TellOneTypes DEF server, ServerOK
  <2>5. CASE r.type = "PrivateMessage_Request"
    <3>1. r.who \in Peer /\ UNCHANGED server
          /\ Tell(<<Signal("private", r.who, TRUE)>>)
      BY <2>3, <2>5 DEF Answer
    <3> HIDE DEF r
    <3> QED BY <1>0, <2>0, <3>1, TellOneTypes DEF server, ServerOK
  <2>6. CASE r.type = "AddFriend_Request"
    <3>1. UNCHANGED <<signals, relation, application>>
      BY <2>6 DEF Answer, server
    <3> HIDE DEF r
    <3> QED BY <1>0, <2>0, <3>1 DEF ServerOK, QueuesOK
  <2>7. CASE r.type = "DeleteFriend_Request"
    <3>1. r.who \in Peer /\ Unfriended(r.who)
          /\ Tell(<<Signal("deletefriend", r.who, FALSE)>>)
          /\ UNCHANGED application
      BY <2>3, <2>7 DEF Answer
    <3> HIDE DEF r
    <3>2. relation' \in [Peer -> Nat]
      BY <1>0, <3>1, RelationTypes
    <3> QED BY <1>0, <2>0, <3>1, <3>2, TellOneTypes DEF ServerOK
  <2>8. CASE r.type = "AgreeApplication_Request"
    <3>1. /\ r.who \in Peer /\ application' = application \ {r.who}
          /\ IF r.yes
             THEN Befriended(r.who) /\ Tell(<<Signal("newfriend", Me, TRUE)>>)
             ELSE UNCHANGED <<relation, signals>>
      BY <2>3, <2>8 DEF Answer
    <3> HIDE DEF r
    <3>2. CASE r.yes
      <4>1. relation' \in [Peer -> Nat]
        BY <1>0, <3>1, <3>2, RelationTypes
      <4>2. signals' \in Seq(Signals)
        BY <1>0, <3>1, <3>2, Notices, NoticeTypes
      <4> QED BY <1>0, <2>0, <3>1, <4>1, <4>2 DEF ServerOK
    <3>3. CASE ~r.yes
      BY <1>0, <2>0, <3>1, <3>3 DEF ServerOK, QueuesOK
    <3> QED BY <3>2, <3>3
  <2> QED BY <2>1, <2>2, <2>4, <2>5, <2>6, <2>7, <2>8 DEF Answer
<1>4. QueuesOK'
  BY <1>1, <1>3 DEF QueuesOK
<1> QED BY <1>2, <1>3, <1>4, PartsOfTypeInv DEF WindowInv

LEMMA OthersTypes == TypeInv /\ Others => TypeInv'
<1> SUFFICES ASSUME TypeInv, Others PROVE TypeInv'
  OBVIOUS
<1>0. WindowInv /\ ListsOK /\ ChatsInv /\ QueuesOK /\ ServerOK /\ WidgetsOK
  BY PartsOfTypeInv DEF WindowInv
<1>1. ListsOK' /\ ChatsInv' /\ WidgetsOK' /\ toServer' = toServer
  BY <1>0
     DEF Others, lists, chats, widgets, history, ListsOK, ChatsInv, ChatsOK,
         WidgetsOK
<1>2. PICK v \in Peer :
        \/ PeerAgrees(v) \/ PeerDeletes(v) \/ PeerApplies(v)
        \/ \E yes \in BOOLEAN : AnsweredElsewhere(v, yes)
        \/ PeerWrites(v) \/ Strays(v)
  BY DEF Others
<1>3. signals' \in Seq(Signals) /\ ServerOK'
  <2>0. /\ signals \in Seq(Signals) /\ relation \in [Peer -> Nat]
        /\ application \subseteq Peer
        /\ untold \in BOOLEAN /\ appsUntold \in BOOLEAN
    BY <1>0 DEF QueuesOK, ServerOK
  <2>1. ASSUME NEW x \in Signals, FriendsNotice(x)
        PROVE  /\ signals' \in Seq(Signals)
               /\ untold' \in BOOLEAN /\ appsUntold' \in BOOLEAN
    <3>1. \/ Tell(<<x>>) /\ UNCHANGED <<untold, appsUntold>>
          \/ /\ untold' = (untold \/ relation' # relation)
             /\ UNCHANGED <<signals, appsUntold>>
      BY <2>1 DEF FriendsNotice, told
    <3>2. untold' \in BOOLEAN
      BY <2>0, <3>1, Zenon
    <3> QED BY <1>0, <2>0, <3>1, <3>2, NoticeTypes
  <2>2. CASE PeerAgrees(v)
    <3>1. Befriended(v) /\ FriendsNotice(Made) /\ UNCHANGED application
      BY <2>2 DEF PeerAgrees
    <3> QED BY <1>0, <2>0, <2>1, <3>1, RelationTypes, Notices DEF ServerOK
  <2>3. CASE PeerDeletes(v)
    <3>1. Unfriended(v) /\ FriendsNotice(Unmade(v)) /\ UNCHANGED application
      BY <2>3 DEF PeerDeletes
    <3> QED BY <1>0, <2>0, <2>1, <3>1, RelationTypes, Notices DEF ServerOK
  <2>4. CASE PeerApplies(v)
    <3>1. /\ application' = application \cup {v} /\ UNCHANGED relation
          /\ \/ /\ Tell(<<Signal("update2", Me, TRUE)>>)
                /\ UNCHANGED <<untold, appsUntold>>
             \/ /\ appsUntold' = (appsUntold \/ application' # application)
                /\ UNCHANGED <<signals, untold>>
      BY <2>4 DEF PeerApplies, told
    <3>2. signals' \in Seq(Signals)
      BY <1>0, <2>0, <3>1, Notices, NoticeTypes
    <3>3. appsUntold' \in BOOLEAN
      BY <2>0, <3>1, Zenon
    <3> QED BY <2>0, <3>1, <3>2, <3>3 DEF ServerOK
  <2>5. ASSUME NEW yes \in BOOLEAN, AnsweredElsewhere(v, yes)
        PROVE  signals' \in Seq(Signals) /\ ServerOK'
    <3>1. /\ application' = application \ {v} /\ UNCHANGED signals
          /\ appsUntold' = (appsUntold \/ v \in application)
          /\ \/ Befriended(v) /\ untold' = TRUE
             \/ UNCHANGED <<relation, untold>>
      BY <2>5 DEF AnsweredElsewhere
    <3>2. appsUntold' \in BOOLEAN
      BY <3>1, Zenon
    <3> QED BY <1>0, <2>0, <3>1, <3>2, RelationTypes DEF ServerOK
  <2>6. CASE PeerWrites(v)
    <3>1. PICK own \in BOOLEAN : Tell(<<Signal("private", v, own)>>)
      BY <2>6 DEF PeerWrites
    <3>2. UNCHANGED <<relation, application, untold, appsUntold>>
      BY <2>6 DEF PeerWrites, server, told
    <3> QED BY <1>0, <2>0, <3>1, <3>2, TellOneTypes DEF ServerOK
  <2>7. CASE Strays(v)
    <3>1. PICK x \in {Made, Unmade(v), Signal("update2", Me, TRUE)} :
            Tell(<<x>>)
      BY <2>7 DEF Strays
    <3>2. UNCHANGED <<relation, application, untold, appsUntold>>
      BY <2>7 DEF Strays, server, told
    <3>3. x \in Signals
      BY <3>1, Notices
    <3> QED BY <1>0, <2>0, <3>1, <3>2, <3>3, NoticeTypes DEF ServerOK
  <2> QED BY <1>2, <2>2, <2>3, <2>4, <2>5, <2>6, <2>7
<1>4. QueuesOK'
  BY <1>0, <1>1, <1>3 DEF QueuesOK
<1> QED BY <1>1, <1>3, <1>4, PartsOfTypeInv DEF WindowInv

LEMMA TypeStep == TypeInv /\ [Next]_vars => TypeInv'
<1>1. TypeInv /\ UNCHANGED vars => TypeInv'
  BY DEF vars, process, lists, chats, widgets, server, told, history, TypeInv,
         TypeOK, ListsOK, ChatsOK, QueuesOK, ServerOK
<1> QED
  BY <1>1, DeliverTypes, UserTypes, RelaunchTypes, AnswerTypes, OthersTypes
     DEF Next

\* Whatever arrives while whatever is selected, rows, lists, pages and what is on
\* its way are well-typed: a row that is selected is in its list.
THEOREM MainWindowTypes == Spec => []TypeOK
<1>1. TypeInv => TypeOK
  BY DEF TypeInv
<1> QED BY <1>1, TypeInit, TypeStep, PTL DEF Spec

-----------------------------------------------------------------------------
(* Pages *)

LEMMA FreshPages == Fresh => PagesMatchChats'
<1>1. DOMAIN <<>> = {}
  OBVIOUS
<1> QED BY <1>1 DEF Fresh, PagesMatchChats, IsInjective

LEMMA SamePages ==
  PagesMatchChats /\ UNCHANGED <<chatlist, pages, reopened>> => PagesMatchChats'
BY DEF PagesMatchChats

LEMMA OpenChatPages ==
  ASSUME TypeInv, PagesMatchChats, NEW v \in Peer, v \notin ToSet(chatlist),
         OpenChat(v)
  PROVE  PagesMatchChats'
<1>1. chatlist \in Seq(Peer) /\ IsInjective(chatlist)
  BY DEF TypeInv, TypeOK, ChatsOK, PagesMatchChats
<1>2. IsInjective(Append(chatlist, v))
  BY <1>1, InjectiveLists
<1> QED BY <1>2 DEF OpenChat, PagesMatchChats

LEMMA CloseChatPages ==
  ASSUME TypeInv, PagesMatchChats, NEW v, CloseChat(v), reopened' = reopened
  PROVE  PagesMatchChats'
<1>1. chatlist \in Seq(Peer) /\ IsInjective(chatlist)
  BY DEF TypeInv, TypeOK, ChatsOK, PagesMatchChats
<1>2. CASE v \in ToSet(chatlist)
  <2> DEFINE i == PlaceOf(v)
  <2>1. chatlist' = RemoveAt(chatlist, i) /\ pages' = RemoveAt(pages, i)
    BY <1>2 DEF CloseChat, PageOf
  <2>2. i \in 1 .. Len(chatlist)
    BY <1>1, <1>2 DEF PlaceOf, ToSet
  <2> HIDE DEF i
  <2>3. IsInjective(RemoveAt(chatlist, i))
    BY <1>1, <2>2, InjectiveLists
  <2> QED BY <2>1, <2>3 DEF PagesMatchChats
<1>3. CASE v \notin ToSet(chatlist)
  BY <1>3, SamePages DEF CloseChat, chats
<1> QED BY <1>2, <1>3

LEMMA PagesStep ==
  TypeInv /\ PagesMatchChats /\ [Next]_vars => PagesMatchChats'
<1> SUFFICES ASSUME TypeInv, PagesMatchChats, [Next]_vars
             PROVE  PagesMatchChats'
  OBVIOUS
<1>1. CASE Deliver
  <2> DEFINE s == Head(signals)
  <2>1. s \in Signals
    BY <1>1 DEF Deliver, TypeInv, TypeOK, QueuesOK
  <2>2. s.slot = "private" => s.who \in Peer
    BY <2>1, QueueFields
  <2>3. \/ s.slot = "addfriend"      /\ ReceiveAddFriend(s.who)
        \/ s.slot = "addapplication" /\ ReceiveAddApplication(s.who)
        \/ s.slot = "checkonline"    /\ ReceiveCheckOnline(s.yes)
        \/ s.slot = "private"        /\ ReceivePrivate(s.who, s.yes)
        \/ s.slot = "newfriend"      /\ ReceiveNewFriend
        \/ s.slot = "deletefriend"   /\ ReceiveDeleteFriend(s.who)
        \/ s.slot = "update"         /\ ReceiveUpdate(s.who, s.yes)
        \/ s.slot = "update2"        /\ ReceiveUpdate2
    BY <1>1 DEF Deliver
  <2> HIDE DEF s
  <2>4. CASE s.slot = "addfriend" /\ ReceiveAddFriend(s.who)
    BY <2>4, SamePages DEF ReceiveAddFriend, chats, history
  <2>5. CASE s.slot = "addapplication" /\ ReceiveAddApplication(s.who)
    BY <2>5, SamePages DEF ReceiveAddApplication, chats, history
  <2>6. CASE s.slot = "checkonline" /\ ReceiveCheckOnline(s.yes)
    <3>1. CASE ~s.yes
      BY <2>6, <3>1, SamePages DEF ReceiveCheckOnline, chats, history
    <3>2. CASE s.yes /\ row \notin DOMAIN friendlist
      BY <2>6, <3>2, FreshPages DEF ReceiveCheckOnline, Ends
    <3>3. CASE s.yes /\ row \in DOMAIN friendlist
      <4> DEFINE one == friendlist[row]
      <4>1. IF one \in ToSet(chatlist)
            THEN reopened' = TRUE /\ UNCHANGED chatlist
            ELSE OpenChat(one)
        BY <2>6, <3>3 DEF ReceiveCheckOnline
      <4>2. one \in Peer
        BY <3>3 DEF TypeInv, TypeOK, ListsOK
      <4> HIDE DEF one
      <4>3. CASE one \in ToSet(chatlist)
        BY <4>1, <4>3 DEF PagesMatchChats
      <4>4. CASE one \notin ToSet(chatlist)
        BY <4>1, <4>2, <4>4, OpenChatPages
      <4> QED BY <4>3, <4>4
    <3> QED BY <3>1, <3>2, <3>3
  <2>7. CASE s.slot = "private" /\ ReceivePrivate(s.who, s.yes)
    <3>1. CASE s.who \notin ToSet(chatlist) /\ OpenChat(s.who)
      BY <2>2, <2>7, <3>1, OpenChatPages
    <3>2. CASE UNCHANGED <<chats, history>>
      BY <3>2, SamePages DEF chats, history
    <3>3. CASE Ends
      BY <3>3, FreshPages DEF Ends
    <3> QED BY <2>7, <3>1, <3>2, <3>3 DEF ReceivePrivate
  <2>8. CASE s.slot = "newfriend" /\ ReceiveNewFriend
    <3>1. CASE appRow = 0
      BY <2>8, <3>1, FreshPages DEF ReceiveNewFriend, Ends
    <3>2. CASE appRow # 0
      BY <2>8, <3>2, SamePages DEF ReceiveNewFriend, chats
    <3> QED BY <3>1, <3>2
  <2>9. CASE s.slot = "deletefriend" /\ ReceiveDeleteFriend(s.who)
    BY <2>9, CloseChatPages DEF ReceiveDeleteFriend
  <2>10. CASE s.slot = "update" /\ ReceiveUpdate(s.who, s.yes)
    <3>1. CASE s.yes
      BY <2>10, <3>1, SamePages DEF ReceiveUpdate, chats
    <3>2. CASE ~s.yes
      BY <2>10, <3>2, CloseChatPages DEF ReceiveUpdate
    <3> QED BY <3>1, <3>2
  <2>11. CASE s.slot = "update2" /\ ReceiveUpdate2
    BY <2>11, SamePages DEF ReceiveUpdate2, chats, history
  <2> QED
    BY <2>3, <2>4, <2>5, <2>6, <2>7, <2>8, <2>9, <2>10, <2>11
<1>2. CASE User
  <2>1. Ends \/ UNCHANGED <<chatlist, pages, reopened>>
    BY <1>2, Zenon
       DEF User, ClickFriend, KeyFriend, ClickApplication, KeyApplication,
           ChangeTab, SelectChat, Write, OpenFile, Chat, Delete, AnswerQuestion, Apply,
           Accept, Reject, chats, history, lists
  <2> QED BY <2>1, SamePages, FreshPages DEF Ends
<1>3. CASE Relaunch
  BY <1>3, FreshPages DEF Relaunch
<1>4. CASE Answer \/ Others
  BY <1>4, SamePages DEF Answer, Others, chats, history
<1>5. CASE UNCHANGED vars
  BY <1>5, SamePages DEF vars, chats, history
<1> QED BY <1>1, <1>2, <1>3, <1>4, <1>5 DEF Next

\* However chats come and go, by messages, by friends that are deleted and by
\* others that delete, each chat's page is its own until an open one is opened
\* again, and none is in the list twice.
THEOREM PagesStayWithChats == Spec => []PagesMatchChats
<1>1. Init => PagesMatchChats
  <2>1. DOMAIN <<>> = {}
    OBVIOUS
  <2> QED BY <2>1 DEF Init, PagesMatchChats, IsInjective
<1> QED BY <1>1, TypeInit, TypeStep, PagesStep, PTL DEF Spec

-----------------------------------------------------------------------------
(* The friend list *)

\* After these signals the list is asked for again.
Changing == {"update", "deletefriend", "newfriend"}

\* In the signals s: is there one after place i?
ChangeAfter(s, i) == \E j \in i + 1 .. Len(s) : s[j].slot \in Changing

\* A friend that is shown from now on without another refresh is in F.
Sound(s, F) ==
  \A i \in 1 .. Len(s) :
    s[i].slot = "addfriend" /\ ~ChangeAfter(s, i) => s[i].who \in F

\* Will v be added to the list?
Coming(s, v) ==
  \E i \in 1 .. Len(s) : s[i].slot = "addfriend" /\ s[i].who = v

\* Is the list of friends asked for in the requests q?
Requested(q) == \E i \in 1 .. Len(q) : q[i].type = "FriendList_Request"

\* As long as no change is on its way, what is shown and what comes are friends;
\* and if the list is not asked for either, they are all of them.
Listed ==
  /\ Sound(signals, Friends)
  /\ ~ChangeAfter(signals, 0) => ToSet(friendlist) \subseteq Friends
  /\ window = "up" /\ ~ChangeAfter(signals, 0) /\ ~Requested(toServer) =>
       \A v \in Friends : v \in ToSet(friendlist) \/ Coming(signals, v)

\* What of this remains when the first signal has been handled,
LEMMA TailSignals ==
  ASSUME NEW s \in Seq(Signals), s # <<>>
  PROVE  /\ \A i \in Nat : ChangeAfter(Tail(s), i) <=> ChangeAfter(s, i + 1)
         /\ \A F : Sound(s, F) => Sound(Tail(s), F)
         /\ \A v : Coming(s, v) => \/ Coming(Tail(s), v)
                                   \/ /\ Head(s).slot = "addfriend"
                                      /\ Head(s).who = v
         /\ ChangeAfter(s, 0) <=> Head(s).slot \in Changing
                                  \/ ChangeAfter(Tail(s), 0)
<1> DEFINE t == Tail(s)
           n == Len(s)
<1>1. /\ n \in Nat /\ n >= 1 /\ Len(t) = n - 1 /\ Head(s) = s[1]
      /\ \A i \in 1 .. n - 1 : t[i] = s[i + 1]
  OBVIOUS
<1> HIDE DEF t, n
<1>2. ASSUME NEW i \in Nat
      PROVE  ChangeAfter(t, i) <=> ChangeAfter(s, i + 1)
  <2>1. ASSUME NEW j \in i + 1 .. n - 1, t[j].slot \in Changing
        PROVE  \E k \in i + 2 .. n : s[k].slot \in Changing
    <3>1. j \in 1 .. n - 1 /\ j + 1 \in i + 2 .. n
      BY <1>1
    <3>2. t[j] = s[j + 1]
      BY <1>1, <3>1
    <3> QED BY <2>1, <3>1, <3>2
  <2>2. ASSUME NEW k \in i + 2 .. n, s[k].slot \in Changing
        PROVE  \E j \in i + 1 .. n - 1 : t[j].slot \in Changing
    <3>1. k - 1 \in 1 .. n - 1 /\ k - 1 \in i + 1 .. n - 1 /\ (k - 1) + 1 = k
      BY <1>1
    <3>2. t[k - 1] = s[k]
      BY <1>1, <3>1
    <3> QED BY <2>2, <3>1, <3>2
  <2>3. (i + 1) + 1 = i + 2
    OBVIOUS
  <2> QED BY <1>1, <2>1, <2>2, <2>3 DEF ChangeAfter, n
<1>3. ASSUME NEW F, Sound(s, F) PROVE Sound(t, F)
  <2> SUFFICES ASSUME NEW i \in 1 .. n - 1, t[i].slot = "addfriend",
                      ~ChangeAfter(t, i)
               PROVE  t[i].who \in F
    BY <1>1 DEF Sound
  <2>1. i \in Nat /\ i + 1 \in 1 .. n /\ t[i] = s[i + 1]
    BY <1>1
  <2>2. ~ChangeAfter(s, i + 1)
    BY <1>2, <2>1
  <2> QED BY <1>3, <2>1, <2>2 DEF Sound, n
<1>4. ASSUME NEW v, Coming(s, v)
      PROVE  Coming(t, v) \/ (Head(s).slot = "addfriend" /\ Head(s).who = v)
  <2>1. PICK i \in 1 .. n : s[i].slot = "addfriend" /\ s[i].who = v
    BY <1>4 DEF Coming, n
  <2>2. CASE i = 1
    BY <1>1, <2>1, <2>2
  <2>3. CASE i # 1
    <3>1. i - 1 \in 1 .. n - 1 /\ (i - 1) + 1 = i
      BY <1>1, <2>3
    <3>2. t[i - 1] = s[i]
      BY <1>1, <3>1
    <3> QED BY <1>1, <2>1, <3>1, <3>2 DEF Coming
  <2> QED BY <2>2, <2>3
<1>5. ChangeAfter(s, 0) <=> Head(s).slot \in Changing \/ ChangeAfter(s, 1)
  <2>1. \A j : j \in 0 + 1 .. n <=> j = 1 \/ j \in 1 + 1 .. n
    BY <1>1
  <2> QED BY <1>1, <2>1 DEF ChangeAfter, n
<1>6. ChangeAfter(t, 0) <=> ChangeAfter(s, 1)
  <2>1. 0 \in Nat /\ 0 + 1 = 1
    OBVIOUS
  <2> QED BY <1>2, <2>1
<1> QED BY <1>2, <1>3, <1>4, <1>5, <1>6 DEF t

\* and when others have been added.
LEMMA MoreSignals ==
  ASSUME NEW s \in Seq(Signals), NEW t \in Seq(Signals)
  PROVE  /\ ChangeAfter(s \o t, 0) <=> ChangeAfter(s, 0) \/ ChangeAfter(t, 0)
         /\ \A v : Coming(s, v) \/ Coming(t, v) => Coming(s \o t, v)
         /\ \A F, G : /\ Sound(s, F) /\ Sound(t, G)
                      /\ F = G \/ ChangeAfter(t, 0)
                      => Sound(s \o t, G)
<1> DEFINE m == Len(s)
           n == Len(t)
           c == s \o t
<1>1. /\ m \in Nat /\ n \in Nat /\ Len(c) = m + n
      /\ \A i \in 1 .. m + n : c[i] = IF i <= m THEN s[i] ELSE t[i - m]
  BY ConcatProperties, LenProperties
<1> HIDE DEF m, n, c
<1>2. \A i \in 1 .. m : i \in 1 .. m + n /\ c[i] = s[i]
  BY <1>1
<1>3. ASSUME NEW i \in 1 .. n PROVE m + i \in 1 .. m + n /\ c[m + i] = t[i]
  <2>1. m + i \in 1 .. m + n /\ ~(m + i <= m) /\ (m + i) - m = i
    BY <1>1
  <2> QED BY <1>1, <2>1
<1>4. ASSUME NEW i \in 0 .. m
      PROVE  ChangeAfter(c, i) <=> ChangeAfter(s, i) \/ ChangeAfter(t, 0)
  <2>1. ASSUME NEW j \in i + 1 .. m + n, c[j].slot \in Changing
        PROVE  ChangeAfter(s, i) \/ ChangeAfter(t, 0)
    <3>1. CASE j <= m
      <4>1. j \in i + 1 .. m /\ j \in 1 .. m
        BY <1>1, <3>1
      <4> QED BY <1>2, <2>1, <4>1 DEF ChangeAfter, m
    <3>2. CASE j > m
      <4>1. j - m \in 1 .. n /\ j - m \in 0 + 1 .. n /\ m + (j - m) = j
        BY <1>1, <3>2
      <4>2. c[j] = t[j - m]
        BY <1>3, <4>1
      <4> QED BY <2>1, <4>1, <4>2 DEF ChangeAfter, n
    <3>3. j <= m \/ j > m
      BY <1>1
    <3> QED BY <3>1, <3>2, <3>3
  <2>2. ASSUME NEW j \in i + 1 .. m, s[j].slot \in Changing
        PROVE  ChangeAfter(c, i)
    <3>1. j \in 1 .. m /\ j \in i + 1 .. m + n
      BY <1>1
    <3> QED BY <1>1, <1>2, <2>2, <3>1 DEF ChangeAfter
  <2>3. ASSUME NEW j \in 0 + 1 .. n, t[j].slot \in Changing
        PROVE  ChangeAfter(c, i)
    <3>1. j \in 1 .. n /\ m + j \in i + 1 .. m + n
      BY <1>1
    <3> QED BY <1>1, <1>3, <2>3, <3>1 DEF ChangeAfter
  <2> QED BY <1>1, <2>1, <2>2, <2>3 DEF ChangeAfter, m, n
<1>5. ASSUME NEW v, Coming(s, v) \/ Coming(t, v) PROVE Coming(c, v)
  <2>1. CASE Coming(s, v)
    BY <1>1, <1>2, <2>1 DEF Coming, m
  <2>2. CASE Coming(t, v)
    <3>1. PICK i \in 1 .. n : t[i].slot = "addfriend" /\ t[i].who = v
      BY <2>2 DEF Coming, n
    <3> QED BY <1>1, <1>3, <3>1 DEF Coming
  <2> QED BY <1>5, <2>1, <2>2
<1>6. ASSUME NEW F, NEW G, Sound(s, F), Sound(t, G),
             F = G \/ ChangeAfter(t, 0)
      PROVE  Sound(c, G)
  <2> SUFFICES ASSUME NEW i \in 1 .. m + n, c[i].slot = "addfriend",
                      ~ChangeAfter(c, i)
               PROVE  c[i].who \in G
    BY <1>1 DEF Sound
  <2>1. CASE i <= m
    <3>1. i \in 1 .. m /\ i \in 0 .. m
      BY <1>1, <2>1
    <3>2. ~ChangeAfter(s, i) /\ ~ChangeAfter(t, 0)
      BY <1>4, <3>1
    <3>3. c[i] = s[i]
      BY <1>2, <3>1
    <3> QED BY <1>6, <3>1, <3>2, <3>3 DEF Sound, m
  <2>2. CASE i > m
    <3> DEFINE k == i - m
    <3>1. k \in 1 .. n /\ m + k = i
      BY <1>1, <2>2
    <3>2. c[i] = t[k]
      BY <1>3, <3>1
    <3> HIDE DEF k
    <3>3. ASSUME NEW j \in k + 1 .. n, t[j].slot \in Changing PROVE FALSE
      <4>1. j \in 1 .. n /\ m + j \in i + 1 .. m + n
        BY <1>1, <3>1
      <4> QED BY <1>1, <1>3, <3>3, <4>1 DEF ChangeAfter
    <3>4. ~ChangeAfter(t, k)
      BY <3>3 DEF ChangeAfter, n
    <3> QED BY <1>6, <3>1, <3>2, <3>4 DEF Sound, n
  <2>3. i <= m \/ i > m
    BY <1>1
  <2> QED BY <2>1, <2>2, <2>3
<1>7. 0 \in 0 .. m
  BY <1>1
<1> QED BY <1>4, <1>5, <1>6, <1>7 DEF c

\* A request is added behind the others and handled before them.
LEMMA RequestedQueue ==
  ASSUME NEW q \in Seq(Requests)
  PROVE  /\ \A r \in Requests :
              /\ Requested(q) => Requested(Append(q, r))
              /\ r.type = "FriendList_Request" => Requested(Append(q, r))
         /\ q # <<>> /\ Head(q).type # "FriendList_Request" /\ Requested(q)
              => Requested(Tail(q))
<1>1. ASSUME NEW r \in Requests
      PROVE  /\ Requested(q) => Requested(Append(q, r))
             /\ r.type = "FriendList_Request" => Requested(Append(q, r))
  <2>1. /\ Len(Append(q, r)) = Len(q) + 1 /\ Len(q) \in Nat
        /\ \A i \in 1 .. Len(q) : Append(q, r)[i] = q[i]
        /\ Append(q, r)[Len(q) + 1] = r
    OBVIOUS
  <2>2. /\ \A i \in 1 .. Len(q) : i \in 1 .. Len(q) + 1
        /\ Len(q) + 1 \in 1 .. Len(q) + 1
    BY <2>1
  <2> QED BY <2>1, <2>2 DEF Requested
<1>2. ASSUME q # <<>>, Head(q).type # "FriendList_Request", Requested(q)
      PROVE  Requested(Tail(q))
  <2>1. PICK i \in 1 .. Len(q) : q[i].type = "FriendList_Request"
    BY <1>2 DEF Requested
  <2>2. i # 1 /\ Len(Tail(q)) = Len(q) - 1 /\ Len(q) \in Nat
        /\ \A j \in 1 .. Len(q) - 1 : Tail(q)[j] = q[j + 1]
    BY <1>2, <2>1
  <2>3. i - 1 \in 1 .. Len(q) - 1 /\ (i - 1) + 1 = i
    BY <2>2
  <2>4. Tail(q)[i - 1] = q[i]
    BY <2>2, <2>3
  <2> QED BY <2>1, <2>2, <2>3, <2>4 DEF Requested
<1> QED BY <1>1, <1>2

\* The signals that have no friends and no changes in them.
Plain == {"addapplication", "checkonline", "private", "update2"}

\* A step that handles no signal and changes neither the list nor what the server
\* knows; requests may be added.
LEMMA KeepsList ==
  ASSUME Listed, UNCHANGED <<signals, friendlist, relation>>,
         window' = window \/ Requested(toServer'),
         Requested(toServer) => Requested(toServer')
  PROVE  Listed'
BY DEF Listed, Sound, Coming, ChangeAfter, Friends, Changing

\* A plain signal is handled.
LEMMA PassesSignal ==
  ASSUME TypeInv, Listed, signals # <<>>, Head(signals).slot \in Plain,
         Handled, UNCHANGED <<friendlist, relation>>,
         Requested(toServer) => Requested(toServer')
  PROVE  Listed'
<1>1. signals \in Seq(Signals) /\ signals' = Tail(signals) /\ window' = window
  BY DEF TypeInv, TypeOK, QueuesOK, Handled
<1>2. Friends' = Friends
  BY DEF Friends
<1>3. Sound(signals', Friends)
  BY <1>1, TailSignals DEF Listed
<1>4. ChangeAfter(signals', 0) <=> ChangeAfter(signals, 0)
  BY <1>1, TailSignals DEF Plain, Changing
<1>5. \A v : Coming(signals, v) => Coming(signals', v)
  BY <1>1, TailSignals DEF Plain
<1> QED BY <1>1, <1>2, <1>3, <1>4, <1>5 DEF Listed

\* A friend is added to the list.
LEMMA AddsFriend ==
  ASSUME TypeInv, Listed, signals # <<>>, Head(signals).slot = "addfriend",
         ReceiveAddFriend(Head(signals).who), UNCHANGED relation
  PROVE  Listed'
<1> DEFINE who == Head(signals).who
<1>1. /\ signals \in Seq(Signals) /\ friendlist \in Seq(Peer)
      /\ signals' = Tail(signals)
      /\ UNCHANGED <<window, toServer>>
      /\ friendlist' = Append(friendlist, who)
  BY DEF TypeInv, TypeOK, QueuesOK, ListsOK, ReceiveAddFriend, Handled
<1>2. Friends' = Friends
  BY DEF Friends
<1>3. Sound(signals', Friends)
  BY <1>1, TailSignals DEF Listed
<1>4. ChangeAfter(signals', 0) <=> ChangeAfter(signals, 0)
  BY <1>1, TailSignals DEF Changing
<1>5. \A v : Coming(signals, v) => Coming(signals', v) \/ who = v
  BY <1>1, TailSignals
<1>6. ToSet(friendlist') = ToSet(friendlist) \cup {who}
  <2>1. /\ Len(friendlist') = Len(friendlist) + 1 /\ Len(friendlist) \in Nat
        /\ \A i \in 1 .. Len(friendlist) : friendlist'[i] = friendlist[i]
        /\ friendlist'[Len(friendlist) + 1] = who
        /\ DOMAIN friendlist' = 1 .. Len(friendlist) + 1
        /\ DOMAIN friendlist = 1 .. Len(friendlist)
    BY <1>1
  <2>2. \A i : i \in 1 .. Len(friendlist) + 1
                 <=> i \in 1 .. Len(friendlist) \/ i = Len(friendlist) + 1
    BY <2>1
  <2> QED BY <2>1, <2>2 DEF ToSet
<1>7. ~ChangeAfter(signals, 0) => who \in Friends
  <2>1. Len(signals) \in Nat /\ 1 \in 1 .. Len(signals)
        /\ Head(signals) = signals[1]
    BY <1>1
  <2>2. ASSUME ~ChangeAfter(signals, 0) PROVE ~ChangeAfter(signals, 1)
    <3>1. \A j \in 1 + 1 .. Len(signals) : j \in 0 + 1 .. Len(signals)
      BY <2>1
    <3> QED BY <2>2, <3>1 DEF ChangeAfter
  <2> QED BY <2>1, <2>2 DEF Listed, Sound
<1> HIDE DEF who
<1> QED BY <1>1, <1>2, <1>3, <1>4, <1>5, <1>6, <1>7 DEF Listed

\* The list is emptied and asked for.
LEMMA RefreshesList ==
  ASSUME TypeInv, Listed, signals # <<>>, Handled, NEW newRow,
         Refresh(newRow), UNCHANGED relation
  PROVE  Listed'
<1>1. signals \in Seq(Signals) /\ signals' = Tail(signals)
      /\ toServer \in Seq(Requests) /\ friendlist' = <<>>
      /\ toServer' = Append(toServer, Request("FriendList_Request", Me, FALSE))
  BY DEF TypeInv, TypeOK, QueuesOK, Handled, Refresh, Send
<1>2. Requested(toServer')
  <2>1. Request("FriendList_Request", Me, FALSE) \in Requests
        /\ Request("FriendList_Request", Me, FALSE).type = "FriendList_Request"
    BY QueueTypes DEF Request
  <2> QED BY <1>1, <2>1, RequestedQueue
<1>3. ToSet(friendlist') = {}
  BY <1>1 DEF ToSet
<1>4. Friends' = Friends /\ Sound(signals', Friends)
  BY <1>1, TailSignals DEF Listed, Friends
<1> QED BY <1>2, <1>3, <1>4 DEF Listed

\* The program is started anew, or has ended.
LEMMA EmptiesList ==
  ASSUME Listed, friendlist' = <<>>, UNCHANGED relation,
         \/ window' = "ended" /\ signals' = <<>>
         \/ Requested(toServer') /\ UNCHANGED signals
  PROVE  Listed'
<1>1. ToSet(friendlist') = {} /\ Friends' = Friends
  BY DEF ToSet, Friends
<1>2. Sound(<<>>, Friends)
  BY DEF Sound
<1> QED BY <1>1, <1>2 DEF Listed

\* A change is announced.
LEMMA AnnouncesChange ==
  ASSUME TypeInv, Listed, NEW x \in Signals, x.slot \in Changing, Tell(<<x>>)
  PROVE  Listed'
<1> DEFINE t == <<x>>
<1>1. signals \in Seq(Signals) /\ signals' = signals \o t
  BY DEF TypeInv, TypeOK, QueuesOK, Tell
<1>2. t \in Seq(Signals) /\ Len(t) = 1 /\ t[1] = x
  BY Singleton
<1> HIDE DEF t
<1>3. ChangeAfter(t, 0)
  BY <1>2 DEF ChangeAfter
<1>4. Sound(t, Friends')
  BY <1>2 DEF Sound, Changing
<1>5. Sound(signals', Friends') /\ ChangeAfter(signals', 0)
  BY <1>1, <1>2, <1>3, <1>4, MoreSignals DEF Listed
<1> QED BY <1>5 DEF Listed

\* Plain signals are sent.
LEMMA TellsPlain ==
  ASSUME TypeInv, Listed, NEW t \in Seq(Signals), Tell(t),
         \A i \in 1 .. Len(t) : t[i].slot \in Plain,
         UNCHANGED <<window, friendlist, relation>>,
         Requested(toServer) => Requested(toServer')
  PROVE  Listed'
<1>1. signals \in Seq(Signals) /\ signals' = signals \o t
  BY DEF TypeInv, TypeOK, QueuesOK, Tell
<1>2. ~ChangeAfter(t, 0)
  BY DEF ChangeAfter, Plain, Changing
<1>3. Friends' = Friends /\ Sound(t, Friends)
  BY DEF Friends, Sound, Plain
<1>4. Sound(signals', Friends)
  BY <1>1, <1>3, MoreSignals DEF Listed
<1>5. /\ ChangeAfter(signals', 0) <=> ChangeAfter(signals, 0)
      /\ \A v : Coming(signals, v) => Coming(signals', v)
  BY <1>1, <1>2, MoreSignals
<1> QED BY <1>3, <1>4, <1>5 DEF Listed

\* The list of friends is sent: it is the friends that there are.
LEMMA RowsAreFriends ==
  ASSUME ServerOK, NEW list \in FriendRows
  PROVE  \A v : v \in Friends <=> \E i \in DOMAIN list : list[i] = v
<1>1. PICK n \in 0 .. MaxRows : list \in [1 .. n -> Peer]
  BY DEF FriendRows
<1>2. \A v \in Peer : Copies(list, v) = relation[v] /\ relation[v] \in Nat
  BY DEF FriendRows, ServerOK
<1>3. ASSUME NEW v \in Peer
      PROVE  relation[v] > 0 <=> \E i \in DOMAIN list : list[i] = v
  <2> DEFINE places == {i \in DOMAIN list : list[i] = v}
  <2>1. IsFiniteSet(1 .. n) /\ places \in SUBSET (1 .. n)
    BY <1>1, MainWindowAssumption, FS_Interval
  <2>2. IsFiniteSet(places)
    BY <2>1, FS_Subset
  <2>3. Cardinality(places) = 0 <=> places = {}
    BY <2>2, FS_EmptySet
  <2>4. Cardinality(places) = relation[v] /\ relation[v] \in Nat
    BY <1>2 DEF Copies
  <2>5. relation[v] > 0 <=> places # {}
    BY <2>3, <2>4
  <2>6. places # {} <=> \E i \in DOMAIN list : list[i] = v
    OBVIOUS
  <2> QED BY <2>5, <2>6
<1>4. \A i \in DOMAIN list : list[i] \in Peer
  BY <1>1
<1> QED BY <1>3, <1>4 DEF Friends

LEMMA SendsFriends ==
  ASSUME TypeInv, Listed, NEW list \in FriendRows,
         Tell(FriendSignals(list)), UNCHANGED <<window, friendlist, relation>>
  PROVE  Listed'
<1> DEFINE t == FriendSignals(list)
<1>1. PICK n \in 0 .. MaxRows : list \in [1 .. n -> Peer]
  BY DEF FriendRows
<1>2. n \in Nat /\ t \in Seq(Signals)
  BY <1>1, MainWindowAssumption, SignalsTypes
<1>3. /\ Len(t) = n /\ DOMAIN list = 1 .. n
      /\ \A i \in 1 .. n : t[i].slot = "addfriend" /\ t[i].who = list[i]
  BY <1>1, <1>2 DEF FriendSignals, Signal
<1>4. signals \in Seq(Signals) /\ signals' = signals \o t
  BY DEF TypeInv, TypeOK, QueuesOK, Tell
<1>5. ServerOK
  BY DEF TypeInv, TypeOK
<1> HIDE DEF t
<1>6. ~ChangeAfter(t, 0)
  <2>1. \A i \in 0 + 1 .. n : i \in 1 .. n
    BY <1>2
  <2> QED BY <1>3, <2>1 DEF ChangeAfter, Changing
<1>7. \A v : v \in Friends <=> Coming(t, v)
  BY <1>3, <1>5, RowsAreFriends DEF Coming
<1>8. Sound(t, Friends) /\ Friends' = Friends
  BY <1>3, <1>7 DEF Sound, Coming, Friends
<1>9. Sound(signals', Friends)
  BY <1>2, <1>4, <1>8, MoreSignals DEF Listed
<1>10. /\ ChangeAfter(signals', 0) <=> ChangeAfter(signals, 0)
       /\ \A v \in Friends : Coming(signals', v)
  BY <1>2, <1>4, <1>6, <1>7, MoreSignals
<1> QED BY <1>8, <1>9, <1>10 DEF Listed

LEMMA ListInit == Init => Listed
<1> SUFFICES ASSUME Init PROVE Listed
  OBVIOUS
<1>1. toServer[1].type = "FriendList_Request" /\ Len(toServer) = 2
  BY DEF Init, FirstRequests, Request
<1>2. Requested(toServer)
  BY <1>1 DEF Requested
<1>3. signals = <<>> /\ ToSet(friendlist) = {}
  BY DEF Init, ToSet
<1>4. Sound(signals, Friends)
  BY <1>3 DEF Sound
<1> QED BY <1>2, <1>3, <1>4 DEF Listed

\* Requests that are sent leave the others where they are.
LEMMA SendKeeps ==
  ASSUME TypeInv, toServer' \in Seq(Requests), NEW type, NEW who, NEW yes,
         Send(type, who, yes)
  PROVE  Requested(toServer) => Requested(toServer')
<1> DEFINE r == Request(type, who, yes)
<1>1. toServer \in Seq(Requests) /\ toServer' = Append(toServer, r)
  BY DEF TypeInv, TypeOK, QueuesOK, Send
<1> HIDE DEF r
<1>2. /\ Len(toServer') = Len(toServer) + 1 /\ Len(toServer) \in Nat
      /\ \A i \in 1 .. Len(toServer) :
           i \in 1 .. Len(toServer) + 1 /\ toServer'[i] = toServer[i]
  BY <1>1
<1> QED BY <1>2 DEF Requested

LEMMA EndsKeeps == Listed /\ Ends /\ UNCHANGED server => Listed'
BY EmptiesList DEF Ends, Fresh, server

LEMMA ListDeliver == TypeInv /\ Listed /\ Deliver => Listed'
<1> SUFFICES ASSUME TypeInv, Listed, Deliver PROVE Listed'
  OBVIOUS
<1> DEFINE s == Head(signals)
<1>1. /\ signals # <<>> /\ UNCHANGED <<server, relation>>
      /\ \/ s.slot = "addfriend"      /\ ReceiveAddFriend(s.who)
         \/ s.slot = "addapplication" /\ ReceiveAddApplication(s.who)
         \/ s.slot = "checkonline"    /\ ReceiveCheckOnline(s.yes)
         \/ s.slot = "private"        /\ ReceivePrivate(s.who, s.yes)
         \/ s.slot = "newfriend"      /\ ReceiveNewFriend
         \/ s.slot = "deletefriend"   /\ ReceiveDeleteFriend(s.who)
         \/ s.slot = "update"         /\ ReceiveUpdate(s.who, s.yes)
         \/ s.slot = "update2"        /\ ReceiveUpdate2
  BY DEF Deliver, server
<1>2. CASE s.slot = "addfriend" /\ ReceiveAddFriend(s.who)
  BY <1>1, <1>2, AddsFriend
<1> HIDE DEF s
<1>3. CASE s.slot = "addapplication" /\ ReceiveAddApplication(s.who)
  <2>1. Handled /\ UNCHANGED <<friendlist, toServer>>
    BY <1>3 DEF ReceiveAddApplication
  <2> QED BY <1>1, <1>3, <2>1, PassesSignal DEF Plain, Requested, s
<1>4. CASE s.slot = "checkonline" /\ ReceiveCheckOnline(s.yes)
  <2>1. Ends \/ (Handled /\ UNCHANGED <<friendlist, toServer>>)
    BY <1>4 DEF ReceiveCheckOnline, lists
  <2> QED BY <1>1, <1>4, <2>1, PassesSignal, EndsKeeps DEF Plain, Requested, s
<1>5. CASE s.slot = "private" /\ ReceivePrivate(s.who, s.yes)
  <2>1. Ends \/ (Handled /\ UNCHANGED <<friendlist, toServer>>)
    BY <1>5 DEF ReceivePrivate, lists
  <2> QED BY <1>1, <1>5, <2>1, PassesSignal, EndsKeeps DEF Plain, Requested, s
<1>6. CASE s.slot = "newfriend" /\ ReceiveNewFriend
  <2>1. Ends \/ (Handled /\ Refresh(-1))
    BY <1>6 DEF ReceiveNewFriend
  <2> QED BY <1>1, <2>1, RefreshesList, EndsKeeps
<1>7. CASE s.slot = "deletefriend" /\ ReceiveDeleteFriend(s.who)
  BY <1>1, <1>7, RefreshesList DEF ReceiveDeleteFriend
<1>8. CASE s.slot = "update" /\ ReceiveUpdate(s.who, s.yes)
  BY <1>1, <1>8, RefreshesList DEF ReceiveUpdate
<1>9. CASE s.slot = "update2" /\ ReceiveUpdate2
  <2>1. /\ Handled /\ UNCHANGED friendlist
        /\ Send("CheckApplication_Request", Me, FALSE)
    BY <1>9 DEF ReceiveUpdate2
  <2>2. toServer' \in Seq(Requests)
    BY <2>1, QueueTypes, SendTypes DEF TypeInv, TypeOK
  <2>3. Requested(toServer) => Requested(toServer')
    BY <2>1, <2>2, SendKeeps
  <2> QED BY <1>1, <1>9, <2>1, <2>3, PassesSignal DEF Plain, s
<1> QED BY <1>1, <1>2, <1>3, <1>4, <1>5, <1>6, <1>7, <1>8, <1>9

LEMMA ListUser == TypeInv /\ TypeInv' /\ Listed /\ User => Listed'
<1> SUFFICES ASSUME TypeInv, TypeInv', Listed, User PROVE Listed'
  OBVIOUS
<1>1. UNCHANGED server /\ UNCHANGED relation /\ toServer' \in Seq(Requests)
  BY DEF User, server, TypeInv, TypeOK, QueuesOK
<1>2. \/ Ends
      \/ /\ UNCHANGED <<process, friendlist>>
         /\ \/ UNCHANGED toServer
            \/ \E type, who, yes : Send(type, who, yes)
  BY Zenon
     DEF User, ClickFriend, KeyFriend, ClickApplication, KeyApplication,
         ChangeTab, SelectChat, Write, OpenFile, Chat, Delete, AnswerQuestion, Apply,
         Accept, Reject, lists
<1>3. CASE Ends
  BY <1>1, <1>3, EndsKeeps
<1>4. CASE UNCHANGED <<process, friendlist>> /\ UNCHANGED toServer
  BY <1>1, <1>4, KeepsList DEF process, Requested
<1>5. CASE UNCHANGED <<process, friendlist>>
           /\ \E type, who, yes : Send(type, who, yes)
  <2>1. Requested(toServer) => Requested(toServer')
    BY <1>1, <1>5, SendKeeps
  <2> QED BY <1>1, <1>5, <2>1, KeepsList DEF process
<1> QED BY <1>2, <1>3, <1>4, <1>5

\* What is told by an answer that is not the list, or because of another user: a
\* change, signals that go by the list, or nothing of a change.
TellsNoFriends ==
  \/ /\ \E x \in Signals : x.slot \in Changing /\ Tell(<<x>>)
     /\ UNCHANGED untold
  \/ untold' /\ UNCHANGED signals
  \/ /\ UNCHANGED <<relation, untold>>
     /\ \/ UNCHANGED signals
        \/ \E t \in Seq(Signals) : /\ Tell(t)
                                   /\ \A i \in 1 .. Len(t) : t[i].slot \in Plain

LEMMA TellsOne ==
  ASSUME NEW x \in Signals, Tell(<<x>>), UNCHANGED untold,
         x.slot \in Changing \/ (x.slot \in Plain /\ UNCHANGED relation)
  PROVE  TellsNoFriends
<1>1. CASE x.slot \in Changing
  BY <1>1 DEF TellsNoFriends
<1>2. CASE x.slot \in Plain /\ UNCHANGED relation
  <2> DEFINE t == <<x>>
  <2>1. t \in Seq(Signals) /\ \A i \in 1 .. Len(t) : t[i].slot \in Plain
    BY <1>2
  <2> HIDE DEF t
  <2>2. \E u \in Seq(Signals) : /\ Tell(u)
                                /\ \A i \in 1 .. Len(u) : u[i].slot \in Plain
    BY <2>1 DEF t
  <2> QED BY <1>2, <2>2 DEF TellsNoFriends
<1> QED BY <1>1, <1>2

LEMMA AnswerShape ==
  ASSUME TypeInv, Answer, Head(toServer).type # "FriendList_Request"
  PROVE  TellsNoFriends
<1> DEFINE r == Head(toServer)
<1>1. r \in Requests
  BY DEF Answer, TypeInv, TypeOK, QueuesOK
<1>2. r.type \notin {"FriendList_Request", "CheckApplication_Request"}
        => r.who \in Peer
  BY <1>1, QueueFields
<1>0. UNCHANGED untold
  <2>1. untold' = (untold /\ (crossed \/ r.type # "FriendList_Request"))
    BY DEF Answer
  <2>2. untold \in BOOLEAN
    BY DEF TypeInv, TypeOK, ServerOK
  <2> QED BY <2>1, <2>2, Zenon
<1>3. CASE r.type = "CheckApplication_Request"
  <2>1. /\ UNCHANGED relation
        /\ \/ \E v \in application :
                Tell(ApplicationSignals(v, Cardinality(application)))
           \/ UNCHANGED signals
    BY <1>3 DEF Answer, server
  <2>2. ASSUME NEW v \in application,
               Tell(ApplicationSignals(v, Cardinality(application)))
        PROVE  TellsNoFriends
    <3> DEFINE n == Cardinality(application)
               t == ApplicationSignals(v, n)
               x == Signal("addapplication", v, FALSE)
    <3>1. v \in Peer /\ application \subseteq Peer
      BY DEF TypeInv, TypeOK, ServerOK
    <3>2. t \in Seq(Signals)
      BY <3>1, SignalsTypes
    <3>3. t = [i \in 1 .. n |-> x] /\ DOMAIN t = 1 .. Len(t) /\ x.slot \in Plain
      BY <3>2, LenProperties DEF ApplicationSignals, Signal, Plain
    <3> HIDE DEF n, x, t
    <3>4. \A i \in 1 .. Len(t) : t[i].slot \in Plain
      BY <3>3
    <3> QED BY <1>0, <2>1, <2>2, <3>2, <3>4 DEF TellsNoFriends, t, n
  <2> QED BY <1>0, <2>1, <2>2 DEF TellsNoFriends
<1>4. CASE r.type \in {"CheckOnline_Request", "PrivateMessage_Request"}
  <2>1. PICK slot \in {"checkonline", "private"}, yes \in BOOLEAN :
          Tell(<<Signal(slot, r.who, yes)>>)
    BY <1>4 DEF Answer
  <2>2. UNCHANGED relation
    BY <1>4 DEF Answer, server
  <2> DEFINE x == Signal(slot, r.who, yes)
  <2>3. x \in Signals /\ x.slot \in Plain
    BY <1>2, <1>4, QueueTypes DEF Signal, Plain
  <2> HIDE DEF x
  <2> QED BY <1>0, <2>1, <2>2, <2>3, TellsOne DEF x
<1>5. CASE r.type = "AddFriend_Request"
  BY <1>0, <1>5 DEF Answer, server, TellsNoFriends
<1>6. CASE r.type = "DeleteFriend_Request"
  <2> DEFINE x == Signal("deletefriend", r.who, FALSE)
  <2>1. Tell(<<x>>)
    BY <1>6 DEF Answer
  <2>2. x \in Signals /\ x.slot \in Changing
    BY <1>2, <1>6, QueueTypes DEF Signal, Changing
  <2> HIDE DEF x
  <2> QED BY <1>0, <2>1, <2>2, TellsOne
<1>7. CASE r.type = "AgreeApplication_Request"
  <2> DEFINE x == Signal("newfriend", Me, TRUE)
  <2>1. IF r.yes THEN Tell(<<x>>) ELSE UNCHANGED <<relation, signals>>
    BY <1>7 DEF Answer
  <2>2. x \in Signals /\ x.slot \in Changing
    BY Notices DEF Changing
  <2> HIDE DEF x
  <2> QED BY <1>0, <2>1, <2>2, TellsOne DEF TellsNoFriends
<1> QED BY <1>3, <1>4, <1>5, <1>6, <1>7 DEF Answer

LEMMA OthersShape ==
  ASSUME TypeInv, Others
  PROVE  TellsNoFriends
<1>1. PICK v \in Peer :
        \/ PeerAgrees(v) \/ PeerDeletes(v) \/ PeerApplies(v)
        \/ \E yes \in BOOLEAN : AnsweredElsewhere(v, yes)
        \/ PeerWrites(v) \/ Strays(v)
  BY DEF Others
<1>2. ASSUME NEW x \in Signals, x.slot = "update", FriendsNotice(x)
      PROVE  TellsNoFriends
  <2>1. \/ Tell(<<x>>) /\ UNCHANGED untold
        \/ /\ UNCHANGED signals
           /\ untold' = (untold \/ relation' # relation)
    BY <1>2 DEF FriendsNotice, told
  <2>2. CASE Tell(<<x>>) /\ UNCHANGED untold
    BY <1>2, <2>2, TellsOne DEF Changing
  <2>3. CASE /\ UNCHANGED signals
             /\ untold' = (untold \/ relation' # relation)
    <3>1. untold \in BOOLEAN
      BY DEF TypeInv, TypeOK, ServerOK
    <3>2. untold' \/ UNCHANGED <<relation, untold>>
      BY <2>3, <3>1, Zenon
    <3> QED BY <2>3, <3>2 DEF TellsNoFriends
  <2> QED BY <2>1, <2>2, <2>3
<1>3. CASE PeerAgrees(v) \/ PeerDeletes(v)
  BY <1>2, <1>3, Notices DEF PeerAgrees, PeerDeletes
<1>4. CASE PeerApplies(v)
  <2> DEFINE x == Signal("update2", Me, TRUE)
  <2>1. x \in Signals /\ x.slot \in Plain
    BY Notices DEF Plain
  <2>2. /\ UNCHANGED <<relation, untold>>
        /\ Tell(<<x>>) \/ UNCHANGED signals
    BY <1>4 DEF PeerApplies, told
  <2> HIDE DEF x
  <2> QED BY <2>1, <2>2, TellsOne DEF TellsNoFriends
<1>5. ASSUME NEW yes \in BOOLEAN, AnsweredElsewhere(v, yes)
      PROVE  TellsNoFriends
  BY <1>5 DEF AnsweredElsewhere, TellsNoFriends
<1>6. CASE PeerWrites(v)
  <2>1. PICK own \in BOOLEAN : Tell(<<Signal("private", v, own)>>)
    BY <1>6 DEF PeerWrites
  <2> DEFINE x == Signal("private", v, own)
  <2>2. UNCHANGED <<relation, untold>>
    BY <1>6 DEF PeerWrites, server, told
  <2>3. x \in Signals /\ x.slot \in Plain
    BY QueueTypes DEF Signal, Plain
  <2> HIDE DEF x
  <2> QED BY <2>1, <2>2, <2>3, TellsOne DEF x
<1>7. CASE Strays(v)
  <2>1. PICK x \in {Made, Unmade(v), Signal("update2", Me, TRUE)} : Tell(<<x>>)
    BY <1>7 DEF Strays
  <2>2. UNCHANGED <<relation, untold>>
    BY <1>7 DEF Strays, server, told
  <2>3. x \in Signals /\ x.slot \in Changing \cup Plain
    BY <2>1, Notices DEF Changing, Plain
  <2> QED BY <2>1, <2>2, <2>3, TellsOne
<1> QED BY <1>1, <1>3, <1>4, <1>5, <1>6, <1>7

\* Such a step, if it leaves the list and what is asked for.
LEMMA ListTold ==
  ASSUME TypeInv, Listed, UNCHANGED <<window, friendlist>>, TellsNoFriends,
         Requested(toServer) => Requested(toServer')
  PROVE  untold' \/ Listed'
<1>1. ASSUME NEW x \in Signals, x.slot \in Changing, Tell(<<x>>) PROVE Listed'
  BY <1>1, AnnouncesChange
<1>2. ASSUME NEW t \in Seq(Signals), Tell(t), UNCHANGED relation,
             \A i \in 1 .. Len(t) : t[i].slot \in Plain
      PROVE  Listed'
  BY <1>2, TellsPlain
<1>3. ASSUME UNCHANGED relation, UNCHANGED signals PROVE Listed'
  BY <1>3, KeepsList
<1> QED BY <1>1, <1>2, <1>3 DEF TellsNoFriends

LEMMA ListAnswer == TypeInv /\ Listed /\ Answer => untold' \/ Listed'
<1> SUFFICES ASSUME TypeInv, Listed, Answer PROVE untold' \/ Listed'
  OBVIOUS
<1> DEFINE r == Head(toServer)
<1>1. /\ UNCHANGED <<window, friendlist>> /\ toServer # <<>>
      /\ toServer \in Seq(Requests) /\ toServer' = Tail(toServer)
  BY DEF Answer, lists, TypeInv, TypeOK, QueuesOK
<1>2. CASE r.type = "FriendList_Request"
  <2>1. PICK list \in FriendRows : Tell(FriendSignals(list))
    BY <1>2 DEF Answer
  <2>2. UNCHANGED relation
    BY <1>2 DEF Answer, server
  <2> QED BY <1>1, <2>1, <2>2, SendsFriends
<1>3. CASE r.type # "FriendList_Request"
  <2>1. Requested(toServer) => Requested(toServer')
    BY <1>1, <1>3, RequestedQueue
  <2>2. TellsNoFriends
    BY <1>3, AnswerShape
  <2> QED BY <1>1, <2>1, <2>2, ListTold
<1> QED BY <1>2, <1>3

LEMMA ListOthers == TypeInv /\ Listed /\ Others => untold' \/ Listed'
<1> SUFFICES ASSUME TypeInv, Listed, Others PROVE untold' \/ Listed'
  OBVIOUS
<1>1. UNCHANGED <<window, friendlist, toServer>>
  BY DEF Others, lists
<1>2. TellsNoFriends
  BY OthersShape
<1> QED BY <1>1, <1>2, ListTold DEF Requested

LEMMA ListedStep == TypeInv /\ Listed /\ [Next]_vars => untold' \/ Listed'
<1> SUFFICES ASSUME TypeInv, Listed, [Next]_vars PROVE untold' \/ Listed'
  OBVIOUS
<1>1. CASE Relaunch
  <2>1. /\ friendlist' = <<>> /\ UNCHANGED <<signals, relation>>
        /\ toServer' = FirstRequests
    BY <1>1 DEF Relaunch, Fresh, server
  <2>2. Requested(toServer')
    <3>1. toServer'[1].type = "FriendList_Request" /\ Len(toServer') = 2
      BY <2>1 DEF FirstRequests, Request
    <3> QED BY <3>1 DEF Requested
  <2> QED BY <2>1, <2>2, EmptiesList
<1>2. CASE UNCHANGED vars
  BY <1>2, KeepsList DEF vars, process, lists, server, Requested
<1>3. CASE User
  BY <1>3, UserTypes, ListUser
<1> QED
  BY <1>1, <1>2, <1>3, ListDeliver, ListAnswer, ListOthers DEF Next

-----------------------------------------------------------------------------
(* The question whether to delete a friend *)

\* While it is on the screen the friend that was selected is selected, or no
\* friend is; and a window that has ended asks nothing.
AskedInv ==
  /\ window = "ended" => ~question
  /\ question /\ row \in DOMAIN friendlist => friendlist[row] = asked

\* What signals do to the friend list, and which requests they make.
LEMMA DeliverShape ==
  ASSUME Deliver
  PROVE  \/ Ends
         \/ /\ Handled /\ UNCHANGED <<question, asked>>
            /\ \/ /\ Head(signals).slot \in Changing
                  /\ \E newRow \in {-1, 0} : Refresh(newRow)
               \/ /\ Head(signals).slot = "addfriend"
                  /\ UNCHANGED <<row, toServer, crossed>>
                  /\ friendlist' = Append(friendlist, Head(signals).who)
               \/ /\ Head(signals).slot \in Plain
                  /\ UNCHANGED <<row, friendlist, crossed>>
                  /\ \/ UNCHANGED toServer
                     \/ Send("CheckApplication_Request", Me, FALSE)
<1> DEFINE s == Head(signals)
<1>1. \/ s.slot = "addfriend"      /\ ReceiveAddFriend(s.who)
      \/ s.slot = "addapplication" /\ ReceiveAddApplication(s.who)
      \/ s.slot = "checkonline"    /\ ReceiveCheckOnline(s.yes)
      \/ s.slot = "private"        /\ ReceivePrivate(s.who, s.yes)
      \/ s.slot = "newfriend"      /\ ReceiveNewFriend
      \/ s.slot = "deletefriend"   /\ ReceiveDeleteFriend(s.who)
      \/ s.slot = "update"         /\ ReceiveUpdate(s.who, s.yes)
      \/ s.slot = "update2"        /\ ReceiveUpdate2
  BY DEF Deliver
<1> HIDE DEF s
<1> DEFINE Calm == UNCHANGED <<row, friendlist, crossed, question, asked>>
<1>2. ASSUME ReceiveAddFriend(s.who)
      PROVE  /\ Handled
             /\ UNCHANGED <<question, asked, row, toServer, crossed>>
             /\ friendlist' = Append(friendlist, s.who)
  BY <1>2 DEF ReceiveAddFriend, widgets, history
<1>3. ASSUME ReceiveAddApplication(s.who)
      PROVE  Handled /\ Calm /\ UNCHANGED toServer
  BY <1>3 DEF ReceiveAddApplication, widgets, history
<1>4. ASSUME ReceiveCheckOnline(s.yes), ~Ends
      PROVE  Handled /\ Calm /\ UNCHANGED toServer
  BY <1>4 DEF ReceiveCheckOnline, lists, widgets, history
<1>5. ASSUME ReceivePrivate(s.who, s.yes), ~Ends
      PROVE  Handled /\ Calm /\ UNCHANGED toServer
  BY <1>5 DEF ReceivePrivate, lists, widgets, history
<1>6. ASSUME ReceiveNewFriend, ~Ends
      PROVE  Handled /\ UNCHANGED <<question, asked>> /\ Refresh(-1)
  BY <1>6 DEF ReceiveNewFriend
<1>7. ASSUME ReceiveDeleteFriend(s.who)
      PROVE  Handled /\ UNCHANGED <<question, asked>> /\ Refresh(0)
  BY <1>7 DEF ReceiveDeleteFriend
<1>8. ASSUME ReceiveUpdate(s.who, s.yes)
      PROVE  Handled /\ UNCHANGED <<question, asked>> /\ Refresh(-1)
  BY <1>8 DEF ReceiveUpdate, widgets
<1>9. ASSUME ReceiveUpdate2
      PROVE  Handled /\ Calm /\ Send("CheckApplication_Request", Me, FALSE)
  BY <1>9 DEF ReceiveUpdate2, widgets
<1> QED
  BY <1>1, <1>2, <1>3, <1>4, <1>5, <1>6, <1>7, <1>8, <1>9
     DEF s, Changing, Plain

\* A request that is sent is the last of those that are on their way.
LEMMA SentIsLast ==
  ASSUME TypeInv, NEW type, NEW who, NEW yes, Send(type, who, yes)
  PROVE  /\ Len(toServer') = Len(toServer) + 1
         /\ toServer'[Len(toServer')] = Request(type, who, yes)
<1> DEFINE r == Request(type, who, yes)
<1>1. toServer \in Seq(Requests) /\ toServer' = Append(toServer, r)
  BY DEF TypeInv, TypeOK, QueuesOK, Send
<1> HIDE DEF r
<1>2. Len(toServer') = Len(toServer) + 1
  BY <1>1
<1>3. toServer'[Len(toServer) + 1] = r
  BY <1>1
<1> QED BY <1>2, <1>3 DEF r

LEMMA AskedDeliver ==
  ASSUME TypeInv, AskedInv, Deliver
  PROVE  AskedInv'
<1>0. window = "up" /\ friendlist \in Seq(Peer) /\ row \in -1 .. Len(friendlist)
  BY DEF Deliver, TypeInv, TypeOK, ListsOK
<1>1. CASE Ends
  BY <1>1 DEF Ends, Fresh, AskedInv
<1>2. CASE /\ Handled /\ UNCHANGED <<question, asked>>
           /\ \E newRow \in {-1, 0} : Refresh(newRow)
  BY <1>0, <1>2 DEF Handled, Refresh, AskedInv
<1>3. CASE /\ Handled /\ UNCHANGED <<question, asked, row>>
           /\ friendlist' = Append(friendlist, Head(signals).who)
  <2> DEFINE who == Head(signals).who
  <2>1. friendlist' = Append(friendlist, who)
    BY <1>3
  <2> HIDE DEF who
  <2>2. \A i \in 1 .. Len(friendlist) : friendlist'[i] = friendlist[i]
    BY <1>0, <2>1
  <2>3. row \in DOMAIN friendlist' => row \in 1 .. Len(friendlist)
    BY <1>0, <2>1
  <2> QED BY <1>0, <1>3, <2>2, <2>3 DEF Handled, AskedInv
<1>4. CASE Handled /\ UNCHANGED <<question, asked, row, friendlist>>
  BY <1>4 DEF Handled, AskedInv
<1> QED BY <1>1, <1>2, <1>3, <1>4, DeliverShape

LEMMA AskedUser ==
  ASSUME TypeInv, AskedInv, User
  PROVE  AskedInv'
<1>0. window = "up"
  BY DEF User
<1>1. \/ \E yes \in BOOLEAN : AnswerQuestion(yes)
      \/ ~question
  BY DEF User
<1>2. ASSUME NEW yes \in BOOLEAN, AnswerQuestion(yes) PROVE AskedInv'
  BY <1>0, <1>2 DEF AnswerQuestion, Ends, Fresh, process, AskedInv
<1>3. CASE ~question
  <2>1. \/ Ends
        \/ Delete
        \/ UNCHANGED <<window, question>>
    BY <1>2, <1>3, Zenon
       DEF User, ClickFriend, KeyFriend, ClickApplication, KeyApplication,
           ChangeTab, SelectChat, Write, OpenFile, Chat, AnswerQuestion, Apply,
           Accept, Reject, process, widgets
  <2>2. CASE Ends
    BY <2>2 DEF Ends, Fresh, AskedInv
  <2>3. CASE Delete
    BY <1>0, <2>3 DEF Delete, process, lists, AskedInv
  <2>4. CASE UNCHANGED <<window, question>>
    BY <1>0, <1>3, <2>4 DEF AskedInv
  <2> QED BY <2>1, <2>2, <2>3, <2>4
<1> QED BY <1>1, <1>2, <1>3

LEMMA AskedStep ==
  ASSUME TypeInv, AskedInv, [Next]_vars
  PROVE  AskedInv'
<1>1. CASE Relaunch
  BY <1>1 DEF Relaunch, Fresh, AskedInv
<1>2. CASE Answer
  BY <1>2 DEF Answer, lists, widgets, AskedInv
<1>3. CASE Others
  BY <1>3 DEF Others, lists, widgets, history, AskedInv
<1>4. CASE UNCHANGED vars
  BY <1>4 DEF vars, process, lists, widgets, history, AskedInv
<1> QED BY <1>1, <1>2, <1>3, <1>4, AskedDeliver, AskedUser DEF Next

\* The request that a step sends while the question is on the screen.
LEMMA DeletesTheAsked ==
  ASSUME TypeInv, AskedInv, [Next]_vars, question, Len(toServer') > Len(toServer),
         toServer'[Len(toServer')].type = "DeleteFriend_Request"
  PROVE  toServer'[Len(toServer')].who = asked
<1>0. toServer \in Seq(Requests) /\ Len(toServer) \in Nat
  BY DEF TypeInv, TypeOK, QueuesOK
<1>1. ASSUME toServer' = <<>> \/ UNCHANGED toServer PROVE FALSE
  <2>1. Len(<<>>) = 0
    OBVIOUS
  <2> QED BY <1>0, <1>1, <2>1
<1>2. ASSUME NEW type, NEW who, NEW yes, Send(type, who, yes)
      PROVE  type = "DeleteFriend_Request" /\ toServer'[Len(toServer')].who = who
  <2> DEFINE last == toServer'[Len(toServer')]
  <2>1. last = [type |-> type, who |-> who, yes |-> yes]
    BY <1>2, SentIsLast, Zenon DEF Request
  <2> QED BY <2>1
<1>3. CASE Deliver
  <2>1. \/ toServer' = <<>> \/ UNCHANGED toServer
        \/ \E type \in {"FriendList_Request", "CheckApplication_Request"} :
              Send(type, Me, FALSE)
    BY <1>3, DeliverShape, Zenon DEF Ends, Refresh
  <2> QED BY <1>1, <1>2, <2>1
<1>4. CASE User
  <2>1. PICK yes \in BOOLEAN : AnswerQuestion(yes)
    BY <1>4 DEF User
  <2>2. row \in DOMAIN friendlist
        /\ Send("DeleteFriend_Request", friendlist[row], FALSE)
    BY <1>1, <2>1, Zenon DEF AnswerQuestion, Ends
  <2>3. friendlist[row] = asked
    BY <2>2 DEF AskedInv
  <2> QED BY <1>2, <2>2, <2>3
<1>5. CASE Relaunch
  BY <1>5 DEF Relaunch, AskedInv
<1>6. CASE Answer
  <2>1. toServer # <<>> /\ toServer' = Tail(toServer)
    BY <1>6 DEF Answer
  <2>2. Len(toServer') = Len(toServer) - 1
    BY <1>0, <2>1
  <2> QED BY <1>0, <2>2
<1>7. CASE Others
  BY <1>1, <1>7 DEF Others
<1>8. CASE UNCHANGED vars
  BY <1>1, <1>8 DEF vars
<1> QED BY <1>3, <1>4, <1>5, <1>6, <1>7, <1>8 DEF Next

\* What is deleted is the friend that was selected when the question came up,
\* whatever arrives while the window waits for the answer: rows are added below
\* the selected one, and a list that is emptied has none selected.
THEOREM DeletesWhoWasAsked == Spec => DeletesTheOneAsked
<1> DEFINE Right ==
             question /\ Len(toServer') > Len(toServer)
               /\ toServer'[Len(toServer')].type = "DeleteFriend_Request"
             => toServer'[Len(toServer')].who = asked
<1>1. Init => AskedInv
  BY DEF Init, AskedInv
<1>2. TypeInv /\ AskedInv /\ [Next]_vars => AskedInv'
  BY AskedStep
<1>3. TypeInv /\ AskedInv /\ [Next]_vars => [Right]_vars
  BY DeletesTheAsked
<1> QED
  BY <1>1, <1>2, <1>3, TypeInit, TypeStep, PTL DEF Spec, DeletesTheOneAsked

-----------------------------------------------------------------------------
(* How many requests and signals are on their way *)

OfType(type) == {r \in Requests : r.type = type}
InSlot(slot) == {s \in Signals : s.slot = slot}

\* The signals that add v to the list of friends, and those that are Changing.
RowOf(v) == {s \in Signals : s.slot = "addfriend" /\ s.who = v}
Changes == {s \in Signals : s.slot \in Changing}

LEMMA QueueHits ==
  ASSUME TypeInv
  PROVE  /\ toServer \in Seq(Requests) /\ signals \in Seq(Signals)
         /\ \A S : Hits(toServer, S) \in Nat /\ Hits(signals, S) \in Nat
BY HitsCount DEF TypeInv, TypeOK, QueuesOK

LEMMA SendHits ==
  ASSUME TypeInv, NEW type, NEW who, NEW yes, Send(type, who, yes),
         Request(type, who, yes) \in Requests, NEW S
  PROVE  Hits(toServer', S)
           = Hits(toServer, S) + (IF Request(type, who, yes) \in S THEN 1 ELSE 0)
<1> DEFINE r == Request(type, who, yes)
<1>1. toServer \in Seq(Requests) /\ toServer' = Append(toServer, r)
  BY QueueHits DEF Send
<1> HIDE DEF r
<1> QED BY <1>1, HitsQueue DEF r

LEMMA TellHits ==
  ASSUME TypeInv, NEW t \in Seq(Signals), Tell(t), NEW S
  PROVE  Hits(signals', S) = Hits(signals, S) + Hits(t, S)
BY QueueHits, HitsConcat DEF Tell

LEMMA TellOneHits ==
  ASSUME TypeInv, NEW x \in Signals, Tell(<<x>>), NEW S
  PROVE  Hits(signals', S) = Hits(signals, S) + (IF x \in S THEN 1 ELSE 0)
<1> DEFINE t == <<x>>
<1>1. t \in Seq(Signals) /\ Hits(t, S) = IF x \in S THEN 1 ELSE 0
  BY Singleton, HitsOne
<1> HIDE DEF t
<1>2. Hits(signals', S) = Hits(signals, S) + Hits(t, S)
  BY <1>1, TellHits DEF t
<1> QED BY <1>1, <1>2

LEMMA HandledHits ==
  ASSUME TypeInv, signals # <<>>, Handled
  PROVE  /\ Head(signals) \in Signals /\ signals' \in Seq(Signals)
         /\ \A S : Hits(signals, S)
                    = Hits(signals', S) + (IF Head(signals) \in S THEN 1 ELSE 0)
<1>1. signals \in Seq(Signals) /\ signals' = Tail(signals)
  BY QueueHits DEF Handled
<1> QED BY <1>1, FirstAndRest, HitsQueue

LEMMA AnswerHits ==
  ASSUME TypeInv, Answer
  PROVE  /\ Head(toServer) \in Requests /\ toServer' \in Seq(Requests)
         /\ \A S : Hits(toServer, S)
                  = Hits(toServer', S) + (IF Head(toServer) \in S THEN 1 ELSE 0)
<1>1. toServer \in Seq(Requests) /\ toServer # <<>> /\ toServer' = Tail(toServer)
  BY QueueHits DEF Answer
<1> QED BY <1>1, FirstAndRest, HitsQueue

\* What each request for a list, and a signal without friends, counts for.
LEMMA Counts ==
  /\ Request("FriendList_Request", Me, FALSE) \in OfType("FriendList_Request")
  /\ \A type, who, yes : type # "FriendList_Request"
       => Request(type, who, yes) \notin OfType("FriendList_Request")
  /\ \A s : s.slot # "addfriend" => /\ s \notin InSlot("addfriend")
                                   /\ \A v : s \notin RowOf(v)
<1>1. Request("FriendList_Request", Me, FALSE) \in Requests
  BY QueueTypes
<1>2. ASSUME NEW type, NEW who, NEW yes
      PROVE  Request(type, who, yes).type = type
  BY DEF Request
<1>3. \A r : r \in OfType("FriendList_Request")
              <=> r \in Requests /\ r.type = "FriendList_Request"
  BY DEF OfType
<1>4. \A s : s.slot # "addfriend" => /\ s \notin InSlot("addfriend")
                                    /\ \A v : s \notin RowOf(v)
  BY DEF InSlot, RowOf
<1>5. ASSUME NEW type, NEW who, NEW yes, type # "FriendList_Request"
      PROVE  Request(type, who, yes) \notin OfType("FriendList_Request")
  BY <1>2, <1>3, <1>5
<1> QED BY <1>1, <1>2, <1>3, <1>4, <1>5

-----------------------------------------------------------------------------
(* The friend list, and how often it has each *)

Asking == Hits(toServer, OfType("FriendList_Request"))

\* What the list will have of v when the signals have been handled.
ToBeShown(v) == Hits(friendlist, {v}) + Hits(signals, RowOf(v))

\* Unless lists have crossed: if the list has been asked for, then once, and
\* nothing of it has come; if it has not, a change of it is announced, or was not,
\* or what is there and what comes is what the server has.
ListAsked ==
  Asking = 1 /\ friendlist = <<>> /\ Hits(signals, InSlot("addfriend")) = 0

ListHere ==
  /\ Asking = 0
  /\ ~untold /\ Hits(signals, Changes) = 0 =>
       \A v \in Peer : ToBeShown(v) = relation[v]

ExactInv ==
  /\ window = "ended" => signals = <<>>
  /\ window = "up" /\ ~crossed => ListAsked \/ ListHere

LEMMA CopiesAreHits ==
  ASSUME NEW list, NEW v
  PROVE  Copies(list, v) = Hits(list, {v})
<1>1. {i \in DOMAIN list : list[i] = v} = Places(list, {v})
  BY DEF Places
<1> QED BY <1>1 DEF Copies, Hits

\* A step that leaves the list as it is; what the server knows changes only when
\* a change is announced, or is not and makes untold true.
LEMMA ExactSame ==
  ASSUME ExactInv, window = "up", UNCHANGED <<window, friendlist, crossed>>,
         Asking' = Asking,
         \A v : Hits(signals', RowOf(v)) = Hits(signals, RowOf(v)),
         Hits(signals', InSlot("addfriend")) = Hits(signals, InSlot("addfriend")),
         ~untold' /\ Hits(signals', Changes) = 0
           => ~untold /\ Hits(signals, Changes) = 0 /\ UNCHANGED relation
  PROVE  ExactInv'
<1>1. \A v : ToBeShown(v)' = ToBeShown(v)
  BY DEF ToBeShown
<1>2. ListAsked => ListAsked'
  BY DEF ListAsked
<1>3. ListHere => ListHere'
  BY <1>1 DEF ListHere
<1> QED BY <1>2, <1>3 DEF ExactInv

\* The list is asked for, and nothing of it is on its way or on the screen.
LEMMA ExactAsked ==
  ASSUME window' = "up", Asking' = 1, friendlist' = <<>>,
         Hits(signals', InSlot("addfriend")) = 0
  PROVE  ExactInv'
BY DEF ExactInv, ListAsked

LEMMA ExactEnds == Ends => ExactInv'
BY DEF Ends, ExactInv

LEMMA FirstAsking == Hits(FirstRequests, OfType("FriendList_Request")) = 1
<1> DEFINE a == Request("FriendList_Request", Me, FALSE)
           b == Request("CheckApplication_Request", Me, FALSE)
           S == OfType("FriendList_Request")
           q == <<a>>
<1>1. a \in Requests /\ b \in Requests /\ a \in S /\ b \notin S
  BY QueueTypes, Counts
<1>2. FirstRequests = Append(q, b)
  <2>1. FirstRequests = <<a, b>>
    BY DEF FirstRequests
  <2> HIDE DEF a, b
  <2> QED BY <2>1
<1> HIDE DEF a, b, S
<1>3. q \in Seq(Requests) /\ Hits(q, S) = 1
  BY <1>1, HitsOne
<1> HIDE DEF q
<1>4. Hits(Append(q, b), S) = 1
  BY <1>1, <1>3, HitsQueue
<1> QED BY <1>2, <1>4 DEF S

LEMMA ExactInit == Init => ExactInv
<1> SUFFICES ASSUME Init PROVE ExactInv
  OBVIOUS
<1>1. window = "up" /\ friendlist = <<>> /\ signals = <<>>
  BY DEF Init
<1>2. Asking = 1
  BY FirstAsking DEF Init, Asking
<1> QED BY <1>1, <1>2, HitsEmpty DEF ExactInv, ListAsked

\* A refresh that crosses no other.
LEMMA ExactRefresh ==
  ASSUME TypeInv, signals # <<>>, window = "up", Handled, NEW newRow,
         Refresh(newRow)
  PROVE  ExactInv'
<1>1. /\ window' = "up" /\ signals' = Tail(signals) /\ friendlist' = <<>>
      /\ Send("FriendList_Request", Me, FALSE)
      /\ crossed' = FriendListUnderWay
  BY DEF Handled, Refresh
<1>2. CASE crossed'
  BY <1>1, <1>2 DEF ExactInv
<1>3. CASE ~crossed'
  <2>1. /\ \A i \in DOMAIN toServer : toServer[i].type # "FriendList_Request"
        /\ \A i \in 2 .. Len(signals) : signals[i].slot # "addfriend"
    BY <1>1, <1>3, Zenon DEF FriendListUnderWay, UnderWay
  <2>2. Asking = 0
    <3>1. \A i \in 1 .. Len(toServer) :
            toServer[i] \notin OfType("FriendList_Request")
      BY <2>1, QueueHits DEF OfType
    <3> QED BY <3>1, QueueHits, HitsCount DEF Asking
  <2>3. Asking' = 1
    <3>1. Request("FriendList_Request", Me, FALSE) \in Requests
      BY QueueTypes
    <3>2. Asking' = Asking + 1
      BY <1>1, <3>1, Counts, SendHits DEF Asking
    <3> QED BY <2>2, <3>2
  <2>4. Hits(signals', InSlot("addfriend")) = 0
    <3>1. /\ signals' \in Seq(Signals) /\ Len(signals') = Len(signals) - 1
          /\ Len(signals) \in Nat
          /\ \A i \in 1 .. Len(signals) - 1 : signals'[i] = signals[i + 1]
      BY <1>1, QueueHits
    <3>2. \A i \in 1 .. Len(signals') : signals'[i] \notin InSlot("addfriend")
      BY <2>1, <3>1 DEF InSlot
    <3> QED BY <3>1, <3>2, HitsCount
  <2> QED BY <1>1, <2>3, <2>4, ExactAsked
<1> QED BY <1>2, <1>3

\* A friend comes off the signals and onto the list.
LEMMA ExactAdd ==
  ASSUME TypeInv, ExactInv, signals # <<>>, window = "up", Handled,
         Head(signals).slot = "addfriend", UNCHANGED <<toServer, crossed>>,
         friendlist' = Append(friendlist, Head(signals).who),
         UNCHANGED <<relation, untold>>
  PROVE  ExactInv'
<1> DEFINE s == Head(signals)
<1>1. /\ s \in Signals /\ s.slot = "addfriend"
      /\ \A S : /\ Hits(signals, S)
                     = Hits(signals', S) + (IF s \in S THEN 1 ELSE 0)
                /\ Hits(signals', S) \in Nat
  BY HandledHits, HitsCount
<1>2. friendlist \in Seq(Peer) /\ s.who \in Peer
  BY <1>1, QueueFields DEF TypeInv, TypeOK, ListsOK
<1>3. friendlist' = Append(friendlist, s.who)
  OBVIOUS
<1> HIDE DEF s
<1>4. Asking' = Asking
  BY DEF Asking
<1>5. ~ListAsked
  <2>1. s \in InSlot("addfriend")
    BY <1>1 DEF InSlot
  <2>2. Hits(signals, InSlot("addfriend"))
          = Hits(signals', InSlot("addfriend")) + 1
    BY <1>1, <2>1
  <2>3. Hits(signals', InSlot("addfriend")) \in Nat
    BY <1>1
  <2> QED BY <2>2, <2>3 DEF ListAsked
<1>6. Hits(signals', Changes) = Hits(signals, Changes)
  <2>1. s \notin Changes
    BY <1>1 DEF Changes, Changing
  <2> QED BY <1>1, <2>1
<1>7. ASSUME NEW v \in Peer PROVE ToBeShown(v)' = ToBeShown(v)
  <2>1. s \in RowOf(v) <=> s.who = v
    BY <1>1 DEF RowOf
  <2>2. Hits(friendlist', {v})
          = Hits(friendlist, {v}) + (IF s.who \in {v} THEN 1 ELSE 0)
    BY <1>2, <1>3, HitsQueue
  <2>3. Hits(friendlist, {v}) \in Nat /\ Hits(signals', RowOf(v)) \in Nat
    BY <1>1, <1>2, HitsCount
  <2>4. Hits(signals, RowOf(v))
          = Hits(signals', RowOf(v)) + (IF s \in RowOf(v) THEN 1 ELSE 0)
    BY <1>1
  <2> QED BY <2>1, <2>2, <2>3, <2>4 DEF ToBeShown
<1>8. ListHere => ListHere'
  BY <1>4, <1>6, <1>7 DEF ListHere
<1>9. window' = "up" /\ crossed' = crossed
  BY DEF Handled
<1> QED BY <1>5, <1>8, <1>9 DEF ExactInv

\* A request that is none for the list leaves what is asked for.
LEMMA AskingSame ==
  ASSUME TypeInv, toServer' \in Seq(Requests),
         \/ UNCHANGED toServer
         \/ \E type, who, yes : /\ type # "FriendList_Request"
                                /\ Send(type, who, yes)
  PROVE  Asking' = Asking
<1>1. CASE UNCHANGED toServer
  BY <1>1 DEF Asking
<1>2. ASSUME NEW type, NEW who, NEW yes, type # "FriendList_Request",
             Send(type, who, yes)
      PROVE  Asking' = Asking
  <2> DEFINE r == Request(type, who, yes)
  <2>1. toServer \in Seq(Requests) /\ toServer' = Append(toServer, r)
    BY <1>2, QueueHits DEF Send
  <2>2. r \notin OfType("FriendList_Request")
    BY <1>2, Counts
  <2> HIDE DEF r
  <2>3. r \in Requests
    <3>1. /\ Len(toServer') = Len(toServer) + 1 /\ Len(toServer) \in Nat
          /\ toServer'[Len(toServer) + 1] = r
      BY <2>1
    <3> QED BY <3>1
  <2>4. Asking' = Asking + 0
    BY <2>1, <2>2, <2>3, HitsQueue DEF Asking
  <2> QED BY <2>4, QueueHits DEF Asking
<1> QED BY <1>1, <1>2

LEMMA ExactDeliver ==
  ASSUME TypeInv, TypeInv', ExactInv, Deliver
  PROVE  ExactInv'
<1> DEFINE s == Head(signals)
<1>1. signals # <<>> /\ window = "up" /\ UNCHANGED <<relation, untold>>
      /\ toServer' \in Seq(Requests)
  BY DEF Deliver, server, told, TypeInv, TypeOK, QueuesOK
<1>2. CASE Ends
  BY <1>2, ExactEnds
<1>3. CASE Handled /\ \E newRow \in {-1, 0} : Refresh(newRow)
  BY <1>1, <1>3, ExactRefresh
<1>4. CASE /\ Handled /\ s.slot = "addfriend" /\ UNCHANGED <<toServer, crossed>>
           /\ friendlist' = Append(friendlist, s.who)
  BY <1>1, <1>4, ExactAdd
<1>5. CASE /\ Handled /\ s.slot \in Plain /\ UNCHANGED <<friendlist, crossed>>
           /\ \/ UNCHANGED toServer
              \/ Send("CheckApplication_Request", Me, FALSE)
  <2>1. /\ s \in Signals
        /\ \A S : /\ Hits(signals, S)
                       = Hits(signals', S) + (IF s \in S THEN 1 ELSE 0)
                  /\ Hits(signals', S) \in Nat
    BY <1>1, <1>5, HandledHits, HitsCount
  <2>2. s \notin InSlot("addfriend") /\ s \notin Changes
        /\ \A v : s \notin RowOf(v)
    BY <1>5, Counts DEF Plain, Changes, Changing
  <2> HIDE DEF s
  <2>3. ASSUME NEW S, s \notin S PROVE Hits(signals', S) = Hits(signals, S)
    BY <2>1, <2>3
  <2>4. Asking' = Asking
    BY <1>1, <1>5, AskingSame
  <2>5. /\ Hits(signals', InSlot("addfriend")) = Hits(signals, InSlot("addfriend"))
        /\ Hits(signals', Changes) = Hits(signals, Changes)
        /\ \A v : Hits(signals', RowOf(v)) = Hits(signals, RowOf(v))
    BY <2>2, <2>3
  <2>6. UNCHANGED window
    BY <1>5 DEF Handled
  <2> QED BY <1>1, <1>5, <2>4, <2>5, <2>6, ExactSame
<1> QED BY <1>2, <1>3, <1>4, <1>5, DeliverShape

LEMMA ExactUser ==
  ASSUME TypeInv, TypeInv', ExactInv, User
  PROVE  ExactInv'
<1>1. UNCHANGED <<relation, untold>> /\ window = "up"
      /\ toServer' \in Seq(Requests)
  BY DEF User, server, told, TypeInv, TypeOK, QueuesOK
<1>2. \/ Ends
      \/ /\ UNCHANGED <<process, friendlist, crossed>>
         /\ \/ UNCHANGED toServer
            \/ \E type, who, yes : /\ type # "FriendList_Request"
                                   /\ Send(type, who, yes)
  <2>1. /\ "PrivateMessage_Request" # "FriendList_Request"
        /\ "CheckOnline_Request" # "FriendList_Request"
        /\ "DeleteFriend_Request" # "FriendList_Request"
        /\ "AddFriend_Request" # "FriendList_Request"
        /\ "AgreeApplication_Request" # "FriendList_Request"
    OBVIOUS
  <2> QED
    BY <2>1, Zenon
       DEF User, ClickFriend, KeyFriend, ClickApplication, KeyApplication,
           ChangeTab, SelectChat, Write, OpenFile, Chat, Delete, AnswerQuestion,
           Apply, Accept, Reject, lists, history
<1>3. CASE Ends
  BY <1>3, ExactEnds
<1>4. CASE /\ UNCHANGED <<process, friendlist, crossed>>
           /\ \/ UNCHANGED toServer
              \/ \E type, who, yes : /\ type # "FriendList_Request"
                                     /\ Send(type, who, yes)
  <2>1. Asking' = Asking
    BY <1>1, <1>4, AskingSame
  <2>2. UNCHANGED <<window, signals>>
    BY <1>4 DEF process
  <2> QED BY <1>1, <1>4, <2>1, <2>2, ExactSame
<1> QED BY <1>2, <1>3, <1>4

LEMMA ExactTold ==
  ASSUME TypeInv, ExactInv, window = "up", TellsNoFriends,
         UNCHANGED <<window, friendlist, crossed>>, Asking' = Asking
  PROVE  ExactInv'
<1>1. ASSUME NEW x \in Signals, x.slot \in Changing, Tell(<<x>>),
             UNCHANGED untold
      PROVE  ExactInv'
  <2>1. /\ x \notin InSlot("addfriend") /\ x \in Changes
        /\ \A v : x \notin RowOf(v)
    BY <1>1, Counts DEF Changes, Changing
  <2>2. ASSUME NEW S, x \notin S PROVE Hits(signals', S) = Hits(signals, S)
    BY <1>1, <2>2, TellOneHits, QueueHits
  <2>3. Hits(signals', Changes) # 0
    <3>1. Hits(signals', Changes) = Hits(signals, Changes) + 1
      BY <1>1, <2>1, TellOneHits
    <3> QED BY <3>1, QueueHits
  <2> QED BY <2>1, <2>2, <2>3, ExactSame
<1>2. ASSUME UNCHANGED <<relation, untold>> \/ untold', UNCHANGED signals
      PROVE  ExactInv'
  BY <1>2, ExactSame
<1>3. ASSUME NEW t \in Seq(Signals), Tell(t),
             UNCHANGED <<relation, untold>>,
             \A i \in 1 .. Len(t) : t[i].slot \in Plain
      PROVE  ExactInv'
  <2>1. ASSUME NEW S, \A x : x.slot \in Plain => x \notin S
        PROVE  Hits(signals', S) = Hits(signals, S)
    <3>1. Hits(t, S) = 0
      BY <1>3, <2>1, HitsCount
    <3> QED BY <1>3, <3>1, TellHits, QueueHits
  <2>2. \A x : x.slot \in Plain => /\ x \notin InSlot("addfriend")
                                   /\ x \notin Changes
                                   /\ \A v : x \notin RowOf(v)
    BY Counts DEF Plain, Changes, Changing
  <2>3. /\ Hits(signals', InSlot("addfriend")) = Hits(signals, InSlot("addfriend"))
        /\ Hits(signals', Changes) = Hits(signals, Changes)
        /\ \A v : Hits(signals', RowOf(v)) = Hits(signals, RowOf(v))
    BY <2>1, <2>2
  <2> QED BY <1>3, <2>3, ExactSame
<1> QED BY <1>1, <1>2, <1>3 DEF TellsNoFriends

\* The list that is sent has each friend as often as the server.
LEMMA RowsCount ==
  ASSUME NEW list \in FriendRows
  PROVE  /\ FriendSignals(list) \in Seq(Signals)
         /\ \A v \in Peer : Hits(FriendSignals(list), RowOf(v)) = relation[v]
         /\ Hits(FriendSignals(list), Changes) = 0
<1> DEFINE t == FriendSignals(list)
<1>1. PICK n \in 0 .. MaxRows : list \in [1 .. n -> Peer]
  BY DEF FriendRows
<1>2. n \in Nat /\ t \in Seq(Signals)
  BY <1>1, MainWindowAssumption, SignalsTypes
<1>3. /\ DOMAIN t = DOMAIN list /\ DOMAIN list = 1 .. n
      /\ \A i \in 1 .. n : t[i].slot = "addfriend" /\ t[i].who = list[i]
  BY <1>1 DEF FriendSignals, Signal
<1> HIDE DEF t
<1>4. ASSUME NEW v \in Peer PROVE Hits(t, RowOf(v)) = relation[v]
  <2>1. \A i \in 1 .. n : t[i] \in Signals
    BY <1>2, <1>3
  <2>2. Places(t, RowOf(v)) = Places(list, {v})
    BY <1>3, <2>1 DEF Places, RowOf
  <2>3. Copies(list, v) = relation[v]
    BY DEF FriendRows
  <2> QED BY <2>2, <2>3, CopiesAreHits DEF Hits
<1>5. Hits(t, Changes) = 0
  <2>1. Len(t) = n
    BY <1>2, <1>3, LenProperties
  <2>2. \A i \in 1 .. Len(t) : t[i] \notin Changes
    BY <1>3, <2>1 DEF Changes, Changing
  <2> QED BY <1>2, <2>2, HitsCount
<1> QED BY <1>2, <1>4, <1>5 DEF t

LEMMA ExactSent ==
  ASSUME TypeInv, ExactInv, window = "up", NEW list \in FriendRows,
         Tell(FriendSignals(list)), NEW n \in Nat, Asking = n + 1, Asking' = n,
         UNCHANGED <<window, friendlist, crossed, relation>>
  PROVE  ExactInv'
<1> DEFINE t == FriendSignals(list)
<1>1. /\ t \in Seq(Signals) /\ Tell(t) /\ Hits(t, Changes) = 0
      /\ \A v \in Peer : Hits(t, RowOf(v)) = relation[v]
  BY RowsCount
<1>2. \A v \in Peer : relation[v] \in Nat
  BY DEF TypeInv, TypeOK, ServerOK
<1> HIDE DEF t
<1>3. ~ListHere
  <2>1. n + 1 # 0
    OBVIOUS
  <2> QED BY <2>1 DEF ListHere
<1>4. ASSUME ListAsked PROVE ListHere'
  <2>1. Asking' = 0
    <3>1. n + 1 = 1
      BY <1>4 DEF ListAsked
    <3>2. n = 0
      BY <3>1
    <3> QED BY <3>2
  <2>2. ASSUME NEW v \in Peer PROVE ToBeShown(v)' = relation'[v]
    <3>1. Hits(signals, RowOf(v)) = 0
      <4>1. RowOf(v) \subseteq InSlot("addfriend")
        BY DEF RowOf, InSlot
      <4>2. \A i \in 1 .. Len(signals) : signals[i] \notin InSlot("addfriend")
        BY <1>4, QueueHits, HitsCount DEF ListAsked
      <4>3. \A i \in 1 .. Len(signals) : signals[i] \notin RowOf(v)
        BY <4>1, <4>2
      <4> QED BY <4>3, QueueHits, HitsCount
    <3>2. Hits(signals', RowOf(v)) = 0 + relation[v]
      BY <1>1, <3>1, TellHits
    <3>3. Hits(friendlist', {v}) = 0
      BY <1>4, HitsEmpty DEF ListAsked
    <3> QED BY <1>2, <3>2, <3>3 DEF ToBeShown
  <2> QED BY <2>1, <2>2 DEF ListHere
<1> QED BY <1>3, <1>4 DEF ExactInv

LEMMA ExactAnswer ==
  ASSUME TypeInv, ExactInv, Answer
  PROVE  ExactInv'
<1> DEFINE r == Head(toServer)
           S == OfType("FriendList_Request")
<1>1. window = "up" /\ UNCHANGED <<window, friendlist, crossed>>
  BY DEF Answer, lists
<1>2. PICK n \in Nat : /\ Asking' = n
                       /\ Asking = n + (IF r \in S THEN 1 ELSE 0)
  BY AnswerHits, HitsCount DEF Asking
<1>3. r \in S <=> r.type = "FriendList_Request"
  BY AnswerHits DEF OfType
<1>4. CASE r.type = "FriendList_Request"
  <2>1. PICK list \in FriendRows : Tell(FriendSignals(list))
    BY <1>4 DEF Answer
  <2>2. UNCHANGED relation
    BY <1>4 DEF Answer, server
  <2>3. Asking = n + 1
    BY <1>2, <1>3, <1>4
  <2> QED BY <1>1, <1>2, <2>1, <2>2, <2>3, ExactSent
<1>5. CASE r.type # "FriendList_Request"
  <2>1. TellsNoFriends
    BY <1>5, AnswerShape
  <2>2. Asking' = Asking
    <3>1. Asking = n
      BY <1>2, <1>3, <1>5
    <3> QED BY <1>2, <3>1
  <2> QED BY <1>1, <2>1, <2>2, ExactTold
<1> QED BY <1>4, <1>5

LEMMA ExactOthers ==
  ASSUME TypeInv, ExactInv, Others
  PROVE  ExactInv'
<1>1. window = "up" /\ UNCHANGED <<window, friendlist, toServer, crossed>>
  BY DEF Others, lists, history
<1> QED BY <1>1, OthersShape, ExactTold DEF Asking

LEMMA ExactStep ==
  ASSUME TypeInv, TypeInv', ExactInv, [Next]_vars
  PROVE  ExactInv'
<1>1. CASE Relaunch
  <2>1. /\ window' = "up" /\ friendlist' = <<>> /\ signals' = <<>>
        /\ toServer' = FirstRequests
    <3>1. window = "ended" /\ UNCHANGED signals
      BY <1>1 DEF Relaunch
    <3> QED BY <1>1, <3>1 DEF Relaunch, Fresh, ExactInv
  <2>2. Asking' = 1
    BY <2>1, FirstAsking DEF Asking
  <2> QED BY <2>1, <2>2, HitsEmpty, ExactAsked
<1>2. CASE UNCHANGED vars
  <2>1. UNCHANGED <<window, signals, friendlist, crossed, toServer, relation,
                    untold>>
    BY <1>2 DEF vars, process, lists, server, told, history
  <2> QED
    BY <2>1 DEF ExactInv, ListAsked, ListHere, Asking, ToBeShown
<1> QED
  BY <1>1, <1>2, ExactDeliver, ExactUser, ExactAnswer, ExactOthers DEF Next

\* A list that was asked for once, with nothing of another on its way.
LEMMA AskedIsListed ==
  ASSUME TypeInv, ListAsked
  PROVE  Listed
<1>1. signals \in Seq(Signals) /\ toServer \in Seq(Requests)
  BY QueueHits
<1>2. \A i \in 1 .. Len(signals) : signals[i].slot # "addfriend"
  <2>1. \A i \in 1 .. Len(signals) : signals[i] \notin InSlot("addfriend")
    BY <1>1, HitsCount DEF ListAsked
  <2>2. \A i \in 1 .. Len(signals) : signals[i] \in Signals
    BY <1>1
  <2> QED BY <2>1, <2>2 DEF InSlot
<1>3. Requested(toServer)
  <2> DEFINE S == OfType("FriendList_Request")
  <2>1. Hits(toServer, S) # 0
    BY DEF ListAsked, Asking
  <2>2. PICK i \in 1 .. Len(toServer) : toServer[i] \in S
    <3> HIDE DEF S
    <3> QED BY <1>1, <2>1, HitsCount
  <2> QED BY <2>2 DEF OfType, Requested
<1>4. ToSet(friendlist) = {}
  BY DEF ListAsked, ToSet
<1> QED BY <1>2, <1>3, <1>4 DEF Listed, Sound

\* Only a list ends it that changes have gone without a notice.
LEMMA StaysUntold ==
  ASSUME [Next]_vars, untold
  PROVE  \/ untold'
         \/ /\ Answer /\ Head(toServer).type = "FriendList_Request"
            /\ ~crossed
<1>1. CASE Deliver \/ User \/ Relaunch \/ UNCHANGED vars
  BY <1>1 DEF Deliver, User, Relaunch, vars, told
<1>2. CASE Answer
  BY <1>2 DEF Answer
<1>3. CASE Others
  <2>1. ASSUME NEW x, FriendsNotice(x) PROVE untold'
    BY <2>1 DEF FriendsNotice, told
  <2> QED
    BY <1>3, <2>1
       DEF Others, PeerAgrees, PeerDeletes, PeerApplies, AnsweredElsewhere,
           PeerWrites, Strays, told
<1> QED BY <1>1, <1>2, <1>3 DEF Next

\* Either friends have changed and nobody told this window, or the list is right:
\* the one that is sent then meets nothing that was asked for before.
ListInv == untold \/ Listed

LEMMA ListStep ==
  ASSUME TypeInv, ExactInv, ListInv, [Next]_vars
  PROVE  ListInv'
<1>1. CASE Listed
  BY <1>1, ListedStep DEF ListInv
<1>2. CASE untold /\ ~untold'
  <2>1. /\ Answer /\ Head(toServer).type = "FriendList_Request"
        /\ ~crossed /\ window = "up"
    BY <1>2, StaysUntold DEF Answer
  <2>2. Asking # 0
    <3> DEFINE S == OfType("FriendList_Request")
    <3>1. Head(toServer) \in S
      BY <2>1, AnswerHits DEF OfType
    <3> HIDE DEF S
    <3>2. Hits(toServer, S) = Hits(toServer', S) + 1
          /\ Hits(toServer', S) \in Nat
      BY <2>1, <3>1, AnswerHits, HitsCount
    <3> QED BY <3>2 DEF Asking, S
  <2>3. Listed
    BY <2>1, <2>2, AskedIsListed DEF ExactInv, ListHere
  <2> QED BY <2>3, ListedStep DEF ListInv
<1> QED BY <1>1, <1>2 DEF ListInv

\* When nothing is on its way the window shows the friends that the server has,
\* and no others, in whatever order changes, refreshes and answers have crossed,
\* unless the last change was told to another endpoint: a change that is told is
\* followed by a refresh that is younger.
THEOREM QuietListIsRight == Spec => []QuietListHasFriends
<1>1. ListInv => QuietListHasFriends
  <2> SUFFICES ASSUME Listed, Quiet PROVE ToSet(friendlist) = Friends
    BY DEF QuietListHasFriends, ListInv
  <2>1. window = "up" /\ Len(toServer) = 0 /\ Len(signals) = 0
    BY DEF Quiet
  <2>2. ~ChangeAfter(signals, 0) /\ ~Requested(toServer)
        /\ \A v : ~Coming(signals, v)
    BY <2>1 DEF ChangeAfter, Requested, Coming
  <2> QED BY <2>1, <2>2 DEF Listed
<1>2. Init => ListInv
  BY ListInit DEF ListInv
<1> QED
  BY <1>1, <1>2, TypeInit, TypeStep, ExactInit, ExactStep, ListStep, PTL
     DEF Spec

\* When nothing is on its way the window shows each friend as often as the server
\* has it, unless the last refresh was asked for while a list was on its way, or
\* the last change was told to another endpoint:
\* between two refreshes that do not cross, the list is asked for once and sent
\* once, and what is shown and what comes of it are together what was sent.
THEOREM ListIsExact == Spec => []ExactUnlessCrossed
<1>1. TypeInv /\ ExactInv => ExactUnlessCrossed
  <2> SUFFICES ASSUME TypeInv, ExactInv, Quiet, ~untold, ~crossed,
                      NEW v \in Peer
               PROVE  Copies(friendlist, v) = relation[v]
    BY DEF ExactUnlessCrossed
  <2>1. window = "up" /\ toServer = <<>> /\ signals = <<>>
    BY DEF Quiet
  <2>2. /\ Asking = 0 /\ Hits(signals, Changes) = 0
        /\ Hits(signals, RowOf(v)) = 0
    BY <2>1, HitsEmpty DEF Asking
  <2>3. ToBeShown(v) = relation[v]
    BY <2>1, <2>2 DEF ExactInv, ListAsked, ListHere
  <2>4. Hits(friendlist, {v}) \in Nat
    BY HitsCount DEF TypeInv, TypeOK, ListsOK
  <2>5. Hits(friendlist, {v}) + 0 = relation[v]
    BY <2>2, <2>3 DEF ToBeShown
  <2>6. Hits(friendlist, {v}) = relation[v]
    BY <2>4, <2>5
  <2> QED BY <2>6, CopiesAreHits
<1> QED BY <1>1, TypeInit, TypeStep, ExactInit, ExactStep, PTL DEF Spec

-----------------------------------------------------------------------------
(* Applications: what is shown, asked for and on its way *)

Checks == OfType("CheckApplication_Request")
Agrees == OfType("AgreeApplication_Request")
Rejects == {r \in Agrees : ~r.yes}
AgreesOn(y) == {r \in Agrees : r.who = y}
AppRequests == Checks \cup Agrees

Apps == InSlot("addapplication")
AppsOf(y) == {s \in Apps : s.who = y}
News == InSlot("newfriend")
Updates == InSlot("update2")
AppSignals == Apps \cup News \cup Updates

\* In what follows l is the list that is shown, a are the applications that the
\* server has, s the signals and q the requests.

\* The list has been asked for, once, after every answer to an application, and
\* nothing of it has come.
AppsAsked(l, s, q) ==
  /\ l = <<>> /\ Hits(q, Checks) = 1 /\ Hits(s, Apps) = 0
  /\ NoneAfter(q, Checks, Agrees)

\* An application is shown, comes, or has been rejected, only if the server has it
\* or has made a friend of it.
Counted(l, a, s, q) ==
  Len(l) + Hits(s, Apps) + Hits(q, Rejects) <= Cardinality(a) + Hits(s, News)

\* Is an application of y shown, does it come, or is it being answered?
Named(y, l, s, q) ==
  \/ y \in ToSet(l)
  \/ Hits(s, AppsOf(y)) # 0
  \/ Hits(q, AgreesOn(y)) # 0

\* There is one at most, and one that the server has is shown, comes or is being
\* rejected; once it is a friend it is taken off the list.
Single(l, a, s, q) ==
  /\ Len(l) + Hits(s, Apps) <= 1
  /\ \A x \in a : /\ \A y \in Peer : Named(y, l, s, q) \/ y \in a => x = y
                  /\ x \in ToSet(l) \/ Hits(s, Apps) # 0 \/ Hits(q, Rejects) # 0
  /\ l # <<>> \/ Hits(s, Apps) # 0 => a # {} \/ Hits(s, News) # 0
  /\ Hits(s, News) # 0 => a = {} \/ l = <<>>
  /\ NoneAfter(s, Apps, News)
  /\ Hits(s, Apps) # 0 => Hits(q, Agrees) = 0
  /\ Hits(q, Rejects) # 0 => l = <<>>

AppsHere(l, a, s, q, many) ==
  /\ Hits(q, Checks) = 0
  /\ Hits(s, Updates) = 0
       => Counted(l, a, s, q) /\ (many \/ Single(l, a, s, q))

\* They have changed without a notice to this window, which has not asked since.
AppsElsewhere == appsUntold /\ Hits(toServer, Checks) = 0

AppInv ==
  window = "up" /\ ~appsCrossed =>
    \/ AppsAsked(applicationlist, signals, toServer)
    \/ AppsHere(applicationlist, application, signals, toServer, several)
    \/ AppsElsewhere

LEMMA AppSets ==
  /\ Checks \subseteq AppRequests /\ Agrees \subseteq AppRequests
  /\ Rejects \subseteq Agrees /\ \A y : AgreesOn(y) \subseteq Agrees
  /\ Apps \subseteq AppSignals /\ News \subseteq AppSignals
  /\ Updates \subseteq AppSignals /\ \A y : AppsOf(y) \subseteq Apps
BY DEF AppRequests, Rejects, AgreesOn, AppSignals, AppsOf

\* Queues that are the same for what is about applications.
SameRequests(q, r) ==
  /\ \A X \in SUBSET AppRequests : Hits(r, X) = Hits(q, X)
  /\ NoneAfter(q, Checks, Agrees) => NoneAfter(r, Checks, Agrees)

SameSignals(s, t) ==
  /\ \A X \in SUBSET AppSignals : Hits(t, X) = Hits(s, X)
  /\ NoneAfter(s, Apps, News) => NoneAfter(t, Apps, News)

LEMMA SameQueues ==
  ASSUME NEW l, NEW a, NEW s, NEW q, NEW t, NEW r,
         SameSignals(s, t), SameRequests(q, r)
  PROVE  /\ AppsAsked(l, s, q) => AppsAsked(l, t, r)
         /\ \A many : AppsHere(l, a, s, q, many) => AppsHere(l, a, t, r, many)
<1>1. /\ Hits(r, Checks) = Hits(q, Checks) /\ Hits(r, Agrees) = Hits(q, Agrees)
      /\ Hits(r, Rejects) = Hits(q, Rejects)
      /\ \A y : Hits(r, AgreesOn(y)) = Hits(q, AgreesOn(y))
  BY AppSets DEF SameRequests
<1>2. /\ Hits(t, Apps) = Hits(s, Apps) /\ Hits(t, News) = Hits(s, News)
      /\ Hits(t, Updates) = Hits(s, Updates)
      /\ \A y : Hits(t, AppsOf(y)) = Hits(s, AppsOf(y))
  BY AppSets DEF SameSignals
<1>3. AppsAsked(l, s, q) => AppsAsked(l, t, r)
  BY <1>1, <1>2 DEF AppsAsked, SameRequests
<1>4. Counted(l, a, s, q) => Counted(l, a, t, r)
  BY <1>1, <1>2 DEF Counted
<1>5. \A y : Named(y, l, t, r) <=> Named(y, l, s, q)
  BY <1>1, <1>2 DEF Named
<1>6. Single(l, a, s, q) => Single(l, a, t, r)
  BY <1>1, <1>2, <1>5 DEF Single, SameSignals
<1>7. ASSUME NEW many, AppsHere(l, a, s, q, many)
      PROVE  AppsHere(l, a, t, r, many)
  <2>1. Hits(r, Checks) = 0
    BY <1>1, <1>7 DEF AppsHere
  <2>2. Hits(t, Updates) = 0 => Counted(l, a, t, r) /\ (many \/ Single(l, a, t, r))
    BY <1>2, <1>4, <1>6, <1>7, Zenon DEF AppsHere
  <2> QED BY <2>1, <2>2, Zenon DEF AppsHere
<1> QED BY <1>3, <1>7

\* Such queues are those with something else added or taken out.
LEMMA OtherRequests ==
  ASSUME NEW q \in Seq(Requests)
  PROVE  /\ SameRequests(q, q)
         /\ \A r \in Requests : r \notin AppRequests => SameRequests(q, Append(q, r))
         /\ q # <<>> /\ Head(q) \notin AppRequests => SameRequests(q, Tail(q))
<1>1. SameRequests(q, q)
  BY DEF SameRequests
<1>2. ASSUME NEW r \in Requests, r \notin AppRequests
      PROVE  SameRequests(q, Append(q, r))
  <2>1. ASSUME NEW X \in SUBSET AppRequests PROVE Hits(Append(q, r), X) = Hits(q, X)
    <3>1. Hits(q, X) \in Nat /\ r \notin X
      BY <1>2, HitsCount
    <3>2. Hits(Append(q, r), X) = Hits(q, X) + (IF r \in X THEN 1 ELSE 0)
      BY HitsQueue
    <3> QED BY <3>1, <3>2
  <2>2. NoneAfter(q, Checks, Agrees) => NoneAfter(Append(q, r), Checks, Agrees)
    BY <1>2, AppSets, NoneAfterQueue
  <2> QED BY <2>1, <2>2 DEF SameRequests
<1>3. ASSUME q # <<>>, Head(q) \notin AppRequests PROVE SameRequests(q, Tail(q))
  <2>1. ASSUME NEW X \in SUBSET AppRequests PROVE Hits(Tail(q), X) = Hits(q, X)
    <3>1. Tail(q) \in Seq(Requests)
      BY <1>3
    <3>2. Hits(Tail(q), X) \in Nat /\ Head(q) \notin X
      BY <1>3, <3>1, HitsCount
    <3>3. Hits(q, X) = Hits(Tail(q), X) + (IF Head(q) \in X THEN 1 ELSE 0)
      BY <1>3, HitsQueue
    <3> QED BY <3>2, <3>3
  <2>2. NoneAfter(q, Checks, Agrees) => NoneAfter(Tail(q), Checks, Agrees)
    BY <1>3, NoneAfterQueue
  <2> QED BY <2>1, <2>2 DEF SameRequests
<1> QED BY <1>1, <1>2, <1>3

LEMMA OtherSignals ==
  ASSUME NEW s \in Seq(Signals)
  PROVE  /\ SameSignals(s, s)
         /\ \A t \in Seq(Signals) : Hits(t, AppSignals) = 0 => SameSignals(s, s \o t)
         /\ s # <<>> /\ Head(s) \notin AppSignals => SameSignals(s, Tail(s))
<1>1. SameSignals(s, s)
  BY DEF SameSignals
<1>2. ASSUME NEW t \in Seq(Signals), Hits(t, AppSignals) = 0
      PROVE  SameSignals(s, s \o t)
  <2>0. \A X \in SUBSET AppSignals : Hits(t, X) = 0
    BY <1>2, HitsSubset
  <2>1. ASSUME NEW X \in SUBSET AppSignals PROVE Hits(s \o t, X) = Hits(s, X)
    <3>1. Hits(s \o t, X) = Hits(s, X) + 0 /\ Hits(s, X) \in Nat
      BY <2>0, HitsConcat, HitsCount
    <3> QED BY <3>1
  <2>2. ASSUME NoneAfter(s, Apps, News) PROVE NoneAfter(s \o t, Apps, News)
    <3>1. Hits(t, News) = 0
      BY <2>0, AppSets
    <3>2. NoneAfter(t, Apps, News)
      BY <3>1, NoneAfterNone
    <3> QED BY <2>2, <3>1, <3>2, NoneAfterConcat
  <2> QED BY <2>1, <2>2 DEF SameSignals
<1>3. ASSUME s # <<>>, Head(s) \notin AppSignals PROVE SameSignals(s, Tail(s))
  <2>1. ASSUME NEW X \in SUBSET AppSignals PROVE Hits(Tail(s), X) = Hits(s, X)
    <3>1. Tail(s) \in Seq(Signals)
      BY <1>3
    <3>2. Hits(Tail(s), X) \in Nat /\ Head(s) \notin X
      BY <1>3, <3>1, HitsCount
    <3>3. Hits(s, X) = Hits(Tail(s), X) + (IF Head(s) \in X THEN 1 ELSE 0)
      BY <1>3, HitsQueue
    <3> QED BY <3>2, <3>3
  <2>2. NoneAfter(s, Apps, News) => NoneAfter(Tail(s), Apps, News)
    BY <1>3, NoneAfterQueue
  <2> QED BY <2>1, <2>2 DEF SameSignals
<1> QED BY <1>1, <1>2, <1>3

LEMMA Kinds ==
  /\ \A x \in Signals :
       /\ x \in Apps <=> x.slot = "addapplication"
       /\ x \in News <=> x.slot = "newfriend"
       /\ x \in Updates <=> x.slot = "update2"
       /\ \A y : x \in AppsOf(y) <=> x \in Apps /\ x.who = y
       /\ x \in Apps => x \notin News /\ x \notin Updates /\ x.who \in Peer
       /\ x \in News => x \notin Apps /\ x \notin Updates
       /\ x \in Updates => x \notin Apps /\ x \notin News
  /\ \A r \in Requests :
       /\ r \in Checks <=> r.type = "CheckApplication_Request"
       /\ r \in Agrees <=> r.type = "AgreeApplication_Request"
       /\ r \in Rejects <=> r \in Agrees /\ ~r.yes
       /\ \A y : r \in AgreesOn(y) <=> r \in Agrees /\ r.who = y
       /\ r \in Agrees => r \notin Checks /\ r.who \in Peer
       /\ r \in Checks => r \notin Agrees
<1>1. ASSUME NEW x \in Signals
      PROVE  /\ x \in Apps <=> x.slot = "addapplication"
             /\ x \in News <=> x.slot = "newfriend"
             /\ x \in Updates <=> x.slot = "update2"
             /\ \A y : x \in AppsOf(y) <=> x \in Apps /\ x.who = y
  BY DEF Apps, News, Updates, AppsOf, InSlot
<1>2. ASSUME NEW r \in Requests
      PROVE  /\ r \in Checks <=> r.type = "CheckApplication_Request"
             /\ r \in Agrees <=> r.type = "AgreeApplication_Request"
             /\ r \in Rejects <=> r \in Agrees /\ ~r.yes
             /\ \A y : r \in AgreesOn(y) <=> r \in Agrees /\ r.who = y
  BY DEF Checks, Agrees, Rejects, AgreesOn, OfType
<1> QED BY <1>1, <1>2, QueueFields

\* The first signal is handled: it no longer counts for what it is in.
LEMMA TailHits ==
  ASSUME NEW T, NEW s \in Seq(T), s # <<>>, NEW X
  PROVE  /\ Hits(s, X) \in Nat /\ Hits(Tail(s), X) \in Nat
         /\ Head(s) \in X => Hits(s, X) = Hits(Tail(s), X) + 1
         /\ Head(s) \notin X => Hits(Tail(s), X) = Hits(s, X)
<1>1. Tail(s) \in Seq(T)
  OBVIOUS
<1>2. Hits(s, X) \in Nat /\ Hits(Tail(s), X) \in Nat
  BY <1>1, HitsCount
<1>3. Hits(s, X) = Hits(Tail(s), X) + (IF Head(s) \in X THEN 1 ELSE 0)
  BY HitsQueue
<1> QED BY <1>2, <1>3

LEMMA AppendHits ==
  ASSUME NEW T, NEW q \in Seq(T), NEW r \in T, NEW X
  PROVE  /\ Hits(q, X) \in Nat
         /\ r \in X => Hits(Append(q, r), X) = Hits(q, X) + 1
         /\ r \notin X => Hits(Append(q, r), X) = Hits(q, X)
<1>1. Hits(q, X) \in Nat
  BY HitsCount
<1>2. Hits(Append(q, r), X) = Hits(q, X) + (IF r \in X THEN 1 ELSE 0)
  BY HitsQueue
<1> QED BY <1>1, <1>2

\* An application comes off the signals and onto the list.
LEMMA ShowsOne ==
  ASSUME NEW l \in Seq(Peer), NEW a, NEW s \in Seq(Signals),
         NEW q \in Seq(Requests), NEW many, AppsHere(l, a, s, q, many),
         s # <<>>, Head(s) \in Apps
  PROVE  AppsHere(Append(l, Head(s).who), a, Tail(s), q, many)
<1> DEFINE v == Head(s).who
           m == Append(l, v)
           t == Tail(s)
<1>1. /\ v \in Peer /\ Head(s) \notin News /\ Head(s) \notin Updates
      /\ \A y : Head(s) \in AppsOf(y) <=> v = y
  BY Kinds
<1>2. /\ Hits(s, Apps) = Hits(t, Apps) + 1 /\ Hits(t, Apps) \in Nat
      /\ Hits(t, News) = Hits(s, News) /\ Hits(t, Updates) = Hits(s, Updates)
  BY <1>1, TailHits
<1>3. /\ Hits(s, AppsOf(v)) # 0
      /\ \A y : Hits(t, AppsOf(y)) # 0 => Hits(s, AppsOf(y)) # 0
  <2>1. ASSUME NEW y
        PROVE  /\ Hits(s, AppsOf(y)) \in Nat /\ Hits(t, AppsOf(y)) \in Nat
               /\ v = y => Hits(s, AppsOf(y)) = Hits(t, AppsOf(y)) + 1
               /\ v # y => Hits(t, AppsOf(y)) = Hits(s, AppsOf(y))
    BY <1>1, TailHits
  <2> HIDE DEF v, t
  <2> QED BY <2>1
<1>4. /\ Len(m) = Len(l) + 1 /\ Len(l) \in Nat /\ m # <<>>
      /\ \A y : y \in ToSet(m) <=> y \in ToSet(l) \/ y = v
  <2>1. m \in Seq(Peer) /\ Len(m) = Len(l) + 1 /\ Len(l) \in Nat
    BY <1>1
  <2>2. /\ DOMAIN m = 1 .. Len(l) + 1 /\ DOMAIN l = 1 .. Len(l)
        /\ m[Len(l) + 1] = v /\ \A i \in 1 .. Len(l) : m[i] = l[i]
    BY <1>1
  <2> HIDE DEF m, v
  <2>3. \A i : i \in 1 .. Len(l) + 1 <=> i \in 1 .. Len(l) \/ i = Len(l) + 1
    BY <2>1
  <2>4. \A y : y \in ToSet(m) <=> y \in ToSet(l) \/ y = v
    BY <2>2, <2>3 DEF ToSet
  <2>5. m # <<>>
    BY <2>1
  <2> QED BY <2>1, <2>4, <2>5
<1>5. /\ Hits(q, Rejects) \in Nat /\ Hits(s, News) \in Nat
      /\ Hits(q, Agrees) = 0 => Hits(q, Rejects) = 0
  BY HitsCount, HitsSubset, AppSets
<1>6. NoneAfter(s, Apps, News) => NoneAfter(t, Apps, News) /\ Hits(t, News) = 0
  BY NoneAfterQueue
<1> HIDE DEF v, m, t
<1>7. Len(m) + Hits(t, Apps) = Len(l) + Hits(s, Apps)
  BY <1>2, <1>4
<1>8. Counted(l, a, s, q) => Counted(m, a, t, q)
  BY <1>2, <1>7 DEF Counted
<1>9. \A y : Named(y, m, t, q) => Named(y, l, s, q)
  BY <1>3, <1>4 DEF Named
<1>10. ASSUME Single(l, a, s, q) PROVE Single(m, a, t, q)
  <2>1. Hits(s, Apps) # 0
    <3>1. Hits(t, Apps) + 1 # 0
      BY <1>2
    <3> QED BY <1>2, <3>1
  <2>2. Hits(q, Agrees) = 0 /\ Hits(q, Rejects) = 0
    BY <1>5, <1>10, <2>1 DEF Single
  <2>3. Hits(t, News) = 0 /\ NoneAfter(t, Apps, News)
    BY <1>6, <1>10 DEF Single
  <2>4. ASSUME NEW x \in a
        PROVE  /\ \A y \in Peer : Named(y, m, t, q) \/ y \in a => x = y
               /\ x \in ToSet(m)
    <3>1. \A y \in Peer : Named(y, l, s, q) \/ y \in a => x = y
      BY <1>10 DEF Single
    <3>2. x = v
      BY <1>1, <1>3, <3>1 DEF Named
    <3> QED BY <1>4, <1>9, <3>1, <3>2
  <2>5. a # {}
    BY <1>2, <1>10, <2>1, <2>3 DEF Single
  <2> QED BY <1>7, <1>10, <2>2, <2>3, <2>4, <2>5 DEF Single
<1>11. Hits(q, Checks) = 0
       /\ (Hits(t, Updates) = 0
            => Counted(m, a, t, q) /\ (many \/ Single(m, a, t, q)))
  BY <1>2, <1>8, <1>10, Zenon DEF AppsHere
<1> QED BY <1>11 DEF AppsHere, m, t, v

\* If there is one at most, a list with one taken off is empty.
LEMMA OneShown ==
  ASSUME NEW l \in Seq(Peer), NEW a, NEW s \in Seq(Signals),
         NEW q \in Seq(Requests), NEW i \in 1 .. Len(l)
  PROVE  /\ RemoveAt(l, i) \in Seq(Peer)
         /\ Len(RemoveAt(l, i)) = Len(l) - 1 /\ Len(l) \in Nat
         /\ l # <<>> /\ l[i] \in ToSet(l) /\ l[i] \in Peer
         /\ Single(l, a, s, q) => RemoveAt(l, i) = <<>> /\ Hits(s, Apps) = 0
<1> DEFINE m == RemoveAt(l, i)
<1>1. m \in Seq(Peer) /\ Len(m) = Len(l) - 1 /\ Len(l) \in Nat
  BY RemoveAtProperties
<1>2. l # <<>> /\ l[i] \in ToSet(l) /\ l[i] \in Peer
  BY DEF ToSet
<1> HIDE DEF m
<1>3. ASSUME Single(l, a, s, q) PROVE m = <<>> /\ Hits(s, Apps) = 0
  <2>1. Len(l) + Hits(s, Apps) <= 1 /\ Hits(s, Apps) \in Nat /\ Len(l) >= 1
    BY <1>3, HitsCount DEF Single
  <2>2. Hits(s, Apps) = 0 /\ Len(l) = 1
    BY <1>1, <2>1
  <2> QED BY <1>1, <2>2
<1> QED BY <1>1, <1>2, <1>3 DEF m

LEMMA EmptyHasNone == ToSet(<<>>) = {}
BY DEF ToSet

\* An application is taken off the list because it was agreed to.
LEMMA TakesOne ==
  ASSUME NEW l \in Seq(Peer), NEW a, IsFiniteSet(a), NEW s \in Seq(Signals),
         NEW q \in Seq(Requests), NEW many, AppsHere(l, a, s, q, many),
         s # <<>>, Head(s) \in News, NEW i \in 1 .. Len(l)
  PROVE  AppsHere(RemoveAt(l, i), a, Tail(s), q, many)
<1> DEFINE m == RemoveAt(l, i)
           t == Tail(s)
<1>1. Head(s) \notin Apps /\ Head(s) \notin Updates
  BY Kinds
<1>2. /\ Hits(t, Apps) = Hits(s, Apps) /\ Hits(t, Updates) = Hits(s, Updates)
      /\ Hits(s, News) = Hits(t, News) + 1 /\ Hits(t, News) \in Nat
      /\ Hits(s, Apps) \in Nat
  BY <1>1, TailHits
<1>3. /\ Len(m) = Len(l) - 1 /\ Len(l) \in Nat /\ l # <<>>
      /\ Single(l, a, s, q) => m = <<>> /\ Hits(s, Apps) = 0
  BY OneShown
<1>4. Hits(q, Rejects) \in Nat /\ Cardinality(a) \in Nat
  BY HitsCount, FS_CardinalityType
<1>5. NoneAfter(s, Apps, News) => NoneAfter(t, Apps, News)
  BY NoneAfterQueue
<1>6. Hits(s, News) # 0
  <2>1. Hits(t, News) + 1 # 0
    BY <1>2
  <2> QED BY <1>2, <2>1
<1> HIDE DEF m, t
<1>7. ASSUME Counted(l, a, s, q) PROVE Counted(m, a, t, q)
  <2>1. Len(l) + Hits(s, Apps) + Hits(q, Rejects)
          <= Cardinality(a) + (Hits(t, News) + 1)
    BY <1>2, <1>7 DEF Counted
  <2>2. (Len(l) - 1) + Hits(s, Apps) + Hits(q, Rejects)
          <= Cardinality(a) + Hits(t, News)
    BY <1>2, <1>3, <1>4, <2>1
  <2>3. Len(m) = Len(l) - 1 /\ Hits(t, Apps) = Hits(s, Apps)
    BY <1>2, <1>3
  <2> QED BY <2>2, <2>3 DEF Counted
<1>8. ASSUME Single(l, a, s, q) PROVE Single(m, a, t, q)
  <2>1. m = <<>> /\ Hits(t, Apps) = 0 /\ NoneAfter(t, Apps, News)
    BY <1>2, <1>3, <1>5, <1>8 DEF Single
  <2>2. a = {}
    BY <1>3, <1>6, <1>8 DEF Single
  <2>3. Len(m) + Hits(t, Apps) <= 1
    BY <2>1
  <2> QED BY <2>1, <2>2, <2>3 DEF Single
<1>9. /\ Hits(q, Checks) = 0
      /\ Hits(t, Updates) = 0
           => Counted(m, a, t, q) /\ (many \/ Single(m, a, t, q))
  BY <1>2, <1>7, <1>8, Zenon DEF AppsHere
<1> QED BY <1>9 DEF AppsHere, m, t

\* An application that is shown is answered; a rejected one is taken off.
LEMMA AnswersShown ==
  ASSUME NEW l \in Seq(Peer), NEW a, NEW s \in Seq(Signals),
         NEW q \in Seq(Requests), NEW many, AppsHere(l, a, s, q, many),
         NEW i \in 1 .. Len(l), NEW r \in Agrees, r.who = l[i]
  PROVE  /\ r \notin Rejects => AppsHere(l, a, s, Append(q, r), many)
         /\ r \in Rejects => AppsHere(RemoveAt(l, i), a, s, Append(q, r), many)
<1> DEFINE m == RemoveAt(l, i)
           p == Append(q, r)
<1>0. r \in Requests
  BY DEF Agrees, OfType
<1>1. /\ r \notin Checks /\ r.who \in Peer
      /\ \A y : r \in AgreesOn(y) <=> r.who = y
  BY <1>0, Kinds
<1>2. /\ Hits(p, Checks) = Hits(q, Checks) /\ Hits(q, Rejects) \in Nat
      /\ r \in Rejects => Hits(p, Rejects) = Hits(q, Rejects) + 1
      /\ r \notin Rejects => Hits(p, Rejects) = Hits(q, Rejects)
      /\ \A y : r.who # y => Hits(p, AgreesOn(y)) = Hits(q, AgreesOn(y))
  BY <1>0, <1>1, AppendHits
<1>3. /\ m \in Seq(Peer) /\ Len(m) = Len(l) - 1 /\ Len(l) \in Nat
      /\ l # <<>> /\ l[i] \in ToSet(l)
      /\ Single(l, a, s, q) => m = <<>> /\ Hits(s, Apps) = 0
  BY OneShown
<1>4. Hits(s, Apps) \in Nat
  BY HitsCount
<1> HIDE DEF m, p
<1>5. /\ \A y : Named(y, l, s, p) => Named(y, l, s, q)
      /\ m = <<>> => \A y : Named(y, m, s, p) => Named(y, l, s, q)
  <2>1. ASSUME NEW y, Hits(p, AgreesOn(y)) # 0
        PROVE  y \in ToSet(l) \/ Hits(q, AgreesOn(y)) # 0
    BY <1>2, <1>3, <2>1
  <2> QED BY <2>1, EmptyHasNone DEF Named
<1>6. CASE r \notin Rejects
  <2>1. Counted(l, a, s, q) => Counted(l, a, s, p)
    BY <1>2, <1>6 DEF Counted
  <2>2. ASSUME Single(l, a, s, q) PROVE Single(l, a, s, p)
    <3>1. Hits(s, Apps) = 0 /\ Hits(p, Rejects) = Hits(q, Rejects)
      BY <1>2, <1>3, <1>6, <2>2
    <3> QED BY <1>5, <2>2, <3>1 DEF Single
  <2>3. /\ Hits(p, Checks) = 0
        /\ Hits(s, Updates) = 0
             => Counted(l, a, s, p) /\ (many \/ Single(l, a, s, p))
    BY <1>2, <2>1, <2>2, Zenon DEF AppsHere
  <2> QED BY <1>6, <2>3 DEF AppsHere, p
<1>7. CASE r \in Rejects
  <2>1. Len(m) + Hits(s, Apps) + Hits(p, Rejects)
          = Len(l) + Hits(s, Apps) + Hits(q, Rejects)
    BY <1>2, <1>3, <1>4, <1>7
  <2>2. Counted(l, a, s, q) => Counted(m, a, s, p)
    BY <2>1 DEF Counted
  <2>3. ASSUME Single(l, a, s, q) PROVE Single(m, a, s, p)
    <3>1. m = <<>> /\ Hits(s, Apps) = 0
      BY <1>3, <2>3
    <3>2. Hits(p, Rejects) # 0
      <4>1. Hits(q, Rejects) + 1 # 0
        BY <1>2
      <4> QED BY <1>2, <1>7, <4>1
    <3>3. Len(m) + Hits(s, Apps) <= 1
      BY <3>1
    <3> QED BY <1>5, <2>3, <3>1, <3>2, <3>3 DEF Single
  <2>4. /\ Hits(p, Checks) = 0
        /\ Hits(s, Updates) = 0
             => Counted(m, a, s, p) /\ (many \/ Single(m, a, s, p))
    BY <1>2, <2>2, <2>3, Zenon DEF AppsHere
  <2> QED BY <1>7, <2>4 DEF AppsHere, p, m
<1> QED BY <1>6, <1>7

\* The server handles the answer to an application, and x is told if it is a yes.
LEMMA AnswerMade ==
  ASSUME NEW l \in Seq(Peer), NEW a, IsFiniteSet(a), a \subseteq Peer,
         NEW s \in Seq(Signals), NEW q \in Seq(Requests), NEW many,
         q # <<>>, Head(q) \in Agrees, NEW u \in Seq(Signals),
         \/ Head(q) \in Rejects /\ u = s
         \/ /\ Head(q) \notin Rejects
            /\ \E x \in News : u = Append(s, x)
  PROVE  /\ AppsAsked(l, s, q) => AppsAsked(l, u, Tail(q))
         /\ AppsHere(l, a, s, q, many)
              => AppsHere(l, a \ {Head(q).who}, u, Tail(q), many)
<1> DEFINE w == Head(q).who
           p == Tail(q)
           b == a \ {w}
<1>1. /\ Head(q) \in Requests /\ Head(q) \notin Checks /\ w \in Peer
      /\ \A y : Head(q) \in AgreesOn(y) <=> w = y
  <2>1. Head(q) \in Requests
    BY DEF Agrees, OfType
  <2> QED BY <2>1, Kinds
<1>2. /\ Hits(p, Checks) = Hits(q, Checks)
      /\ Hits(q, Agrees) = Hits(p, Agrees) + 1
      /\ Hits(p, Agrees) \in Nat /\ Hits(p, Rejects) \in Nat
      /\ Head(q) \in Rejects => Hits(q, Rejects) = Hits(p, Rejects) + 1
      /\ Head(q) \notin Rejects => Hits(p, Rejects) = Hits(q, Rejects)
      /\ NoneAfter(q, Checks, Agrees) => NoneAfter(p, Checks, Agrees)
  BY <1>1, TailHits, NoneAfterQueue
<1>3. /\ Hits(q, Agrees) # 0 /\ Hits(q, AgreesOn(w)) # 0
      /\ Hits(p, Rejects) # 0 => Hits(q, Rejects) # 0
  <2>1. Hits(p, Agrees) + 1 # 0
    BY <1>2
  <2>2. /\ Hits(q, AgreesOn(w)) = Hits(p, AgreesOn(w)) + 1
        /\ Hits(p, AgreesOn(w)) \in Nat
    <3> HIDE DEF w
    <3>1. Head(q) \in AgreesOn(w)
      BY <1>1
    <3> QED BY <3>1, TailHits
  <2>3. Hits(p, AgreesOn(w)) + 1 # 0 /\ Hits(p, Rejects) + 1 # 0
    BY <1>2, <2>2
  <2> QED BY <1>2, <2>1, <2>2, <2>3
<1>4. /\ Hits(u, Apps) = Hits(s, Apps) /\ Hits(u, Updates) = Hits(s, Updates)
      /\ Hits(s, News) \in Nat /\ Hits(s, Apps) \in Nat
      /\ Head(q) \in Rejects => Hits(u, News) = Hits(s, News)
      /\ Head(q) \notin Rejects => Hits(u, News) = Hits(s, News) + 1
      /\ Hits(s, Apps) = 0 => NoneAfter(u, Apps, News)
  <2>1. Hits(s, News) \in Nat /\ Hits(s, Apps) \in Nat
    BY HitsCount
  <2>2. CASE Head(q) \in Rejects
    BY <2>1, <2>2, NoneAfterNone
  <2>3. CASE Head(q) \notin Rejects
    <3>1. PICK x \in News : u = Append(s, x)
      BY <2>3
    <3>2. x \in Signals
      BY DEF News, InSlot
    <3>3. x \notin Apps /\ x \notin Updates
      BY <3>2, Kinds
    <3>4. /\ Hits(u, Apps) = Hits(s, Apps) /\ Hits(u, Updates) = Hits(s, Updates)
          /\ Hits(u, News) = Hits(s, News) + 1
      BY <3>1, <3>2, <3>3, AppendHits
    <3>5. Hits(s, Apps) = 0 => NoneAfter(u, Apps, News)
      BY <3>4, NoneAfterNone
    <3> QED BY <2>1, <2>3, <3>4, <3>5
  <2> QED BY <2>2, <2>3
<1>5. /\ Cardinality(a) \in Nat /\ Cardinality(b) \in Nat
      /\ Cardinality(a) <= Cardinality(b) + 1 /\ Len(l) \in Nat
  <2> HIDE DEF w
  <2>1. /\ IsFiniteSet(b)
        /\ Cardinality(b) = IF w \in a THEN Cardinality(a) - 1 ELSE Cardinality(a)
    BY FS_RemoveElement
  <2> HIDE DEF b
  <2>2. Cardinality(a) \in Nat /\ Cardinality(b) \in Nat
    BY <2>1, FS_CardinalityType
  <2> QED BY <2>1, <2>2
<1> HIDE DEF w, p, b
<1>6. AppsAsked(l, s, q) => AppsAsked(l, u, p)
  BY <1>2, <1>4 DEF AppsAsked
<1>7. ASSUME Counted(l, a, s, q) PROVE Counted(l, b, u, p)
  <2> DEFINE n == Len(l) + Hits(s, Apps)
  <2>1. n \in Nat /\ Len(l) + Hits(u, Apps) = n
    BY <1>4, <1>5
  <2>2. n + Hits(q, Rejects) <= Cardinality(a) + Hits(s, News)
    BY <1>7 DEF Counted
  <2> HIDE DEF n
  <2>3. ASSUME NEW c \in Nat, NEW d \in Nat, c <= d + 1,
               NEW i \in Nat, NEW j \in Nat
        PROVE  /\ n + (i + 1) <= c + j => n + i <= d + j
               /\ n + i <= c + j => n + i <= d + (j + 1)
    BY <2>1, <2>3
  <2>4. CASE Head(q) \in Rejects
    <3>1. n + (Hits(p, Rejects) + 1) <= Cardinality(a) + Hits(s, News)
      BY <1>2, <2>2, <2>4
    <3>2. n + Hits(p, Rejects) <= Cardinality(b) + Hits(s, News)
      <4>1. Hits(p, Rejects) \in Nat
        BY <1>2
      <4>2. Hits(s, News) \in Nat
        BY <1>4
      <4> QED BY <1>5, <2>3, <3>1, <4>1, <4>2
    <3>3. Hits(u, News) = Hits(s, News)
      BY <1>4, <2>4
    <3>4. n + Hits(p, Rejects) <= Cardinality(b) + Hits(u, News)
      BY <3>2, <3>3
    <3> QED BY <2>1, <3>4 DEF Counted
  <2>5. CASE Head(q) \notin Rejects
    <3>1. n + Hits(p, Rejects) <= Cardinality(a) + Hits(s, News)
      BY <1>2, <2>2, <2>5
    <3>2. n + Hits(p, Rejects) <= Cardinality(b) + (Hits(s, News) + 1)
      <4>1. Hits(p, Rejects) \in Nat
        BY <1>2
      <4>2. Hits(s, News) \in Nat
        BY <1>4
      <4> QED BY <1>5, <2>3, <3>1, <4>1, <4>2
    <3>3. Hits(u, News) = Hits(s, News) + 1
      BY <1>4, <2>5
    <3>4. n + Hits(p, Rejects) <= Cardinality(b) + Hits(u, News)
      BY <3>2, <3>3
    <3> QED BY <2>1, <3>4 DEF Counted
  <2> QED BY <2>4, <2>5
<1>8. ASSUME Single(l, a, s, q) PROVE Single(l, b, u, p)
  <2>1. Hits(s, Apps) = 0 /\ Hits(u, Apps) = 0
    BY <1>3, <1>4, <1>8 DEF Single
  <2>2. b = {}
    <3>1. \A x \in a : x = w
      BY <1>1, <1>3, <1>8 DEF Single, Named
    <3> QED BY <3>1 DEF b
  <2>3. l # <<>> => Hits(u, News) # 0
    <3>1. l # <<>> => Head(q) \notin Rejects
      <4>1. Head(q) \in Rejects => Hits(q, Rejects) # 0
        <5>1. Hits(p, Rejects) + 1 # 0
          BY <1>2
        <5> QED BY <1>2, <5>1
      <4> QED BY <1>8, <4>1 DEF Single
    <3>2. Hits(s, News) + 1 # 0
      BY <1>4
    <3> QED BY <1>4, <3>1, <3>2
  <2>4. Len(l) + Hits(u, Apps) <= 1
    BY <1>4, <1>8 DEF Single
  <2>5. NoneAfter(u, Apps, News) /\ (Hits(p, Rejects) # 0 => l = <<>>)
    BY <1>3, <1>4, <1>8, <2>1 DEF Single
  <2> QED BY <2>1, <2>2, <2>3, <2>4, <2>5 DEF Single
<1>9. ASSUME AppsHere(l, a, s, q, many) PROVE AppsHere(l, b, u, p, many)
  <2>1. /\ Hits(p, Checks) = 0
        /\ Hits(u, Updates) = 0
             => Counted(l, b, u, p) /\ (many \/ Single(l, b, u, p))
    BY <1>2, <1>4, <1>7, <1>8, <1>9, Zenon DEF AppsHere
  <2> QED BY <2>1 DEF AppsHere
<1> QED BY <1>6, <1>9 DEF p, b, w

\* The server sends the list of applications t.
LEMMA SendsApps ==
  ASSUME NEW l \in Seq(Peer), NEW a, IsFiniteSet(a), NEW s \in Seq(Signals),
         NEW q \in Seq(Requests), NEW many, AppsAsked(l, s, q),
         q # <<>>, Head(q) \in Checks,
         NEW t \in Seq(Signals), NEW u, u = s \o t, Hits(t, News) = 0,
         Hits(t, Apps) = Cardinality(a),
         \A y : Hits(t, AppsOf(y)) # 0 => y \in a
  PROVE  AppsHere(l, a, u, Tail(q), Cardinality(a) > 1)
<1> DEFINE p == Tail(q)
<1>1. Hits(p, Checks) = 0 /\ Hits(p, Agrees) = 0
  <2>1. Hits(q, Checks) = Hits(p, Checks) + 1 /\ Hits(p, Checks) \in Nat
    BY TailHits
  <2>2. Hits(q, Checks) = 1 /\ NoneAfter(q, Checks, Agrees)
    BY DEF AppsAsked
  <2>3. Hits(p, Checks) = 0
    BY <2>1, <2>2
  <2> QED BY <2>2, <2>3, NoneAfterQueue
<1>2. /\ Hits(p, Rejects) = 0 /\ \A y : Hits(p, AgreesOn(y)) = 0
  <2>1. p \in Seq(Requests)
    OBVIOUS
  <2> HIDE DEF p
  <2> QED BY <1>1, <2>1, HitsSubset, AppSets
<1>3. /\ l = <<>> /\ Len(l) = 0 /\ Hits(s, Apps) = 0 /\ ToSet(l) = {}
      /\ \A y : Hits(s, AppsOf(y)) = 0
  <2>1. Len(<<>>) = 0
    OBVIOUS
  <2> QED BY <2>1, EmptyHasNone, HitsSubset, AppSets DEF AppsAsked
<1>4. Cardinality(a) \in Nat
  BY FS_CardinalityType
<1>5. /\ Hits(u, Apps) = Cardinality(a) /\ Hits(u, News) \in Nat
      /\ NoneAfter(u, Apps, News)
      /\ \A y : Hits(u, AppsOf(y)) # 0 => y \in a
  <2>1. /\ Hits(u, Apps) = 0 + Cardinality(a) /\ Hits(u, News) \in Nat
    BY <1>3, HitsConcat, HitsCount
  <2>2. NoneAfter(u, Apps, News)
    BY <1>3, NoneAfterConcat, NoneAfterNone
  <2>3. ASSUME NEW y PROVE Hits(u, AppsOf(y)) = Hits(t, AppsOf(y))
    <3>1. Hits(u, AppsOf(y)) = Hits(s, AppsOf(y)) + Hits(t, AppsOf(y))
      BY HitsConcat
    <3>2. Hits(t, AppsOf(y)) \in Nat
      BY HitsCount
    <3> QED BY <1>3, <3>1, <3>2
  <2> QED BY <1>4, <2>1, <2>2, <2>3
<1> HIDE DEF p
<1>6. Counted(l, a, u, p)
  <2>1. 0 + Cardinality(a) + 0 <= Cardinality(a) + Hits(u, News)
    BY <1>4, <1>5
  <2> QED BY <1>2, <1>3, <1>5, <2>1 DEF Counted
<1>7. ASSUME ~(Cardinality(a) > 1) PROVE Single(l, a, u, p)
  <2>1. Len(l) + Hits(u, Apps) <= 1
    BY <1>3, <1>4, <1>5, <1>7
  <2>2. ASSUME NEW x \in a, NEW y \in a PROVE x = y
    <3>1. Cardinality(a) = 0 \/ Cardinality(a) = 1
      BY <1>4, <1>7
    <3> QED BY <3>1, FS_EmptySet, FS_Singleton
  <2>3. \A y : Named(y, l, u, p) => y \in a
    BY <1>2, <1>3, <1>5 DEF Named
  <2>4. a # {} <=> Hits(u, Apps) # 0
    BY <1>5, FS_EmptySet
  <2> QED BY <1>1, <1>2, <1>3, <1>5, <2>1, <2>2, <2>3, <2>4 DEF Single
<1> QED BY <1>1, <1>6, <1>7, Zenon DEF AppsHere, p

\* What signals do to the list of applications, and which requests they make.
LEMMA AppDeliverShape ==
  ASSUME Deliver
  PROVE  \/ Ends
         \/ /\ Handled /\ UNCHANGED several
            /\ \/ /\ Head(signals).slot = "addapplication"
                  /\ UNCHANGED <<toServer, appsCrossed>>
                  /\ applicationlist'
                       = Append(applicationlist, Head(signals).who)
               \/ /\ Head(signals).slot = "newfriend" /\ appRow # 0
                  /\ Send("FriendList_Request", Me, FALSE)
                  /\ UNCHANGED appsCrossed
                  /\ applicationlist' = RemoveAt(applicationlist, appRow)
               \/ /\ Head(signals).slot = "update2" /\ applicationlist' = <<>>
                  /\ Send("CheckApplication_Request", Me, FALSE)
                  /\ appsCrossed' = UnderWay("CheckApplication_Request",
                                             "addapplication")
               \/ /\ Head(signals).slot
                       \notin {"addapplication", "newfriend", "update2"}
                  /\ UNCHANGED <<applicationlist, appsCrossed>>
                  /\ \/ UNCHANGED toServer
                     \/ Send("FriendList_Request", Me, FALSE)
<1> DEFINE s == Head(signals)
           Calm == UNCHANGED <<applicationlist, appsCrossed, several>>
<1>1. \/ s.slot = "addfriend"      /\ ReceiveAddFriend(s.who)
      \/ s.slot = "addapplication" /\ ReceiveAddApplication(s.who)
      \/ s.slot = "checkonline"    /\ ReceiveCheckOnline(s.yes)
      \/ s.slot = "private"        /\ ReceivePrivate(s.who, s.yes)
      \/ s.slot = "newfriend"      /\ ReceiveNewFriend
      \/ s.slot = "deletefriend"   /\ ReceiveDeleteFriend(s.who)
      \/ s.slot = "update"         /\ ReceiveUpdate(s.who, s.yes)
      \/ s.slot = "update2"        /\ ReceiveUpdate2
  BY DEF Deliver
<1> HIDE DEF s
<1>2. ASSUME ReceiveAddFriend(s.who)
      PROVE  Handled /\ Calm /\ UNCHANGED toServer
  BY <1>2 DEF ReceiveAddFriend, history
<1>3. ASSUME ReceiveAddApplication(s.who)
      PROVE  /\ Handled /\ UNCHANGED <<toServer, appsCrossed, several>>
             /\ applicationlist' = Append(applicationlist, s.who)
  BY <1>3 DEF ReceiveAddApplication, history
<1>4. ASSUME ReceiveCheckOnline(s.yes), ~Ends
      PROVE  Handled /\ Calm /\ UNCHANGED toServer
  BY <1>4 DEF ReceiveCheckOnline, lists, history
<1>5. ASSUME ReceivePrivate(s.who, s.yes), ~Ends
      PROVE  Handled /\ Calm /\ UNCHANGED toServer
  BY <1>5 DEF ReceivePrivate, lists, history
<1>6. ASSUME ReceiveNewFriend, ~Ends
      PROVE  /\ Handled /\ UNCHANGED <<appsCrossed, several>> /\ appRow # 0
             /\ Send("FriendList_Request", Me, FALSE)
             /\ applicationlist' = RemoveAt(applicationlist, appRow)
  BY <1>6 DEF ReceiveNewFriend, Refresh
<1>7. ASSUME ReceiveDeleteFriend(s.who)
      PROVE  Handled /\ Calm /\ Send("FriendList_Request", Me, FALSE)
  BY <1>7 DEF ReceiveDeleteFriend, Refresh
<1>8. ASSUME ReceiveUpdate(s.who, s.yes)
      PROVE  Handled /\ Calm /\ Send("FriendList_Request", Me, FALSE)
  BY <1>8 DEF ReceiveUpdate, Refresh
<1>9. ASSUME ReceiveUpdate2
      PROVE  /\ Handled /\ UNCHANGED several /\ applicationlist' = <<>>
             /\ Send("CheckApplication_Request", Me, FALSE)
             /\ appsCrossed' = UnderWay("CheckApplication_Request",
                                        "addapplication")
  BY <1>9 DEF ReceiveUpdate2
<1> QED
  BY <1>1, <1>2, <1>3, <1>4, <1>5, <1>6, <1>7, <1>8, <1>9 DEF s

\* A step that leaves the list, and what is about applications in the queues.
LEMMA StaysElsewhere ==
  ASSUME AppsElsewhere, UNCHANGED appsUntold, SameRequests(toServer, toServer')
  PROVE  AppsElsewhere'
<1>1. Checks \in SUBSET AppRequests
  BY AppSets
<1> QED BY <1>1 DEF AppsElsewhere, SameRequests

LEMMA AppSame ==
  ASSUME AppInv, window = "up",
         UNCHANGED <<window, appsCrossed, applicationlist, application, several,
                     appsUntold>>,
         SameSignals(signals, signals'), SameRequests(toServer, toServer')
  PROVE  AppInv'
<1> SUFFICES ASSUME ~appsCrossed
             PROVE  \/ AppsAsked(applicationlist, signals', toServer')
                    \/ AppsHere(applicationlist, application, signals', toServer',
                                several)
                    \/ AppsElsewhere'
  BY DEF AppInv
<1>1. \/ AppsAsked(applicationlist, signals, toServer)
      \/ AppsHere(applicationlist, application, signals, toServer, several)
      \/ AppsElsewhere
  BY DEF AppInv
<1> QED BY <1>1, SameQueues, StaysElsewhere

\* A request that is not about applications is one of the others.
LEMMA SendsOther ==
  ASSUME TypeInv, toServer' \in Seq(Requests),
         \/ UNCHANGED toServer
         \/ \E type, who, yes :
              /\ type \notin {"CheckApplication_Request",
                              "AgreeApplication_Request"}
              /\ Send(type, who, yes)
  PROVE  SameRequests(toServer, toServer')
<1>0. toServer \in Seq(Requests)
  BY QueueHits
<1>1. CASE UNCHANGED toServer
  BY <1>0, <1>1, OtherRequests
<1>2. ASSUME NEW type, NEW who, NEW yes, Send(type, who, yes),
             type \notin {"CheckApplication_Request", "AgreeApplication_Request"}
      PROVE  SameRequests(toServer, toServer')
  <2> DEFINE r == Request(type, who, yes)
  <2>1. toServer' = Append(toServer, r) /\ r.type = type
    BY <1>2 DEF Send, Request
  <2> HIDE DEF r
  <2>2. r \in Requests
    <3>1. /\ Len(toServer') = Len(toServer) + 1 /\ Len(toServer) \in Nat
          /\ toServer'[Len(toServer) + 1] = r
      BY <1>0, <2>1
    <3> QED BY <3>1
  <2>3. r \notin AppRequests
    BY <1>2, <2>1 DEF AppRequests, Checks, Agrees, OfType
  <2> QED BY <1>0, <2>1, <2>2, <2>3, OtherRequests
<1> QED BY <1>1, <1>2

\* The list is asked for again, and no other is on its way.
LEMMA AppRefresh ==
  ASSUME TypeInv, signals # <<>>, Handled, applicationlist' = <<>>,
         Send("CheckApplication_Request", Me, FALSE),
         ~UnderWay("CheckApplication_Request", "addapplication")
  PROVE  AppsAsked(applicationlist', signals', toServer')
<1> DEFINE r == Request("CheckApplication_Request", Me, FALSE)
<1>1. r \in Requests /\ toServer' = Append(toServer, r) /\ r \in Checks
  BY QueueTypes DEF Send, Request, Checks, OfType
<1>2. /\ \A i \in 1 .. Len(toServer) : toServer[i] \notin Checks
      /\ \A i \in 2 .. Len(signals) : signals[i].slot # "addapplication"
  BY QueueHits DEF UnderWay, Checks, OfType
<1>3. r \notin Agrees
  BY <1>1, Kinds
<1> HIDE DEF r
<1>4. Hits(toServer, Checks) = 0
  BY <1>2, QueueHits, HitsCount
<1>5. Hits(toServer', Checks) = 1
  <2>1. Hits(toServer', Checks) = Hits(toServer, Checks) + 1
    BY <1>1, QueueHits, AppendHits
  <2> QED BY <1>4, <2>1
<1>6. NoneAfter(toServer', Checks, Agrees)
  BY <1>1, <1>3, <1>4, QueueHits, NoneAfterNone, NoneAfterQueue
<1>7. Hits(signals', Apps) = 0
  <2>1. /\ signals' \in Seq(Signals) /\ Len(signals') = Len(signals) - 1
        /\ Len(signals) \in Nat
        /\ \A i \in 1 .. Len(signals) - 1 : signals'[i] = signals[i + 1]
    BY QueueHits DEF Handled
  <2>2. \A i \in 1 .. Len(signals') : signals'[i] \notin Apps
    BY <1>2, <2>1 DEF Apps, InSlot
  <2> QED BY <2>1, <2>2, HitsCount
<1> QED BY <1>5, <1>6, <1>7 DEF AppsAsked

LEMMA AppDeliver ==
  ASSUME TypeInv, TypeInv', AppInv, Deliver
  PROVE  AppInv'
<1> DEFINE s == Head(signals)
<1>1. /\ signals \in Seq(Signals) /\ toServer \in Seq(Requests)
      /\ applicationlist \in Seq(Peer) /\ IsFiniteSet(application)
      /\ toServer' \in Seq(Requests)
  <2>1. application \subseteq Peer
    BY DEF TypeInv, TypeOK, ServerOK
  <2> QED
    BY <2>1, MainWindowAssumption, FS_Subset
       DEF TypeInv, TypeOK, ListsOK, QueuesOK
<1>2. signals # <<>> /\ window = "up" /\ UNCHANGED <<application, appsUntold>>
  BY DEF Deliver, server, told
<1>3. s \in Signals
  BY <1>1, <1>2, FirstAndRest
<1>4. CASE Ends
  <2>1. window' = "ended"
    BY <1>4 DEF Ends
  <2> QED BY <2>1 DEF AppInv
<1>5. CASE /\ Handled /\ UNCHANGED <<several, toServer, appsCrossed>>
           /\ s.slot = "addapplication"
           /\ applicationlist' = Append(applicationlist, s.who)
  <2>1. s \in Apps /\ signals' = Tail(signals)
    BY <1>3, <1>5, Kinds DEF Handled
  <2>2. ~AppsAsked(applicationlist, signals, toServer)
    <3>1. Hits(signals, Apps) = Hits(Tail(signals), Apps) + 1
      BY <1>1, <1>2, <2>1, TailHits
    <3>2. Hits(Tail(signals), Apps) \in Nat
      BY <1>1, <1>2, TailHits
    <3> QED BY <3>1, <3>2 DEF AppsAsked
  <2>3. ASSUME AppsHere(applicationlist, application, signals, toServer, several)
        PROVE  AppsHere(applicationlist', application', signals', toServer',
                        several')
    <3>1. AppsHere(Append(applicationlist, s.who), application, Tail(signals),
                   toServer, several)
      BY <1>1, <1>2, <2>1, <2>3, ShowsOne
    <3> QED BY <1>2, <1>5, <2>1, <3>1
  <2>4. AppsElsewhere => AppsElsewhere'
    BY <1>2, <1>5 DEF AppsElsewhere
  <2> QED BY <1>2, <1>5, <2>2, <2>3, <2>4 DEF AppInv
<1>6. CASE /\ Handled /\ UNCHANGED <<several, appsCrossed>>
           /\ s.slot = "newfriend" /\ appRow # 0
           /\ Send("FriendList_Request", Me, FALSE)
           /\ applicationlist' = RemoveAt(applicationlist, appRow)
  <2>1. s \in News /\ signals' = Tail(signals) /\ signals' \in Seq(Signals)
    BY <1>1, <1>2, <1>3, <1>6, Kinds, FirstAndRest DEF Handled
  <2>2. appRow \in 1 .. Len(applicationlist)
    BY <1>1, <1>6 DEF TypeInv, TypeOK, ListsOK
  <2>3. ~AppsAsked(applicationlist, signals, toServer)
    <3>1. applicationlist # <<>>
      BY <1>1, <2>2, OneShown
    <3> QED BY <3>1 DEF AppsAsked
  <2>4. SameRequests(toServer, toServer')
    BY <1>1, <1>6, SendsOther
  <2>5. ASSUME AppsHere(applicationlist, application, signals, toServer, several)
        PROVE  AppsHere(applicationlist', application', signals', toServer',
                        several')
    <3>1. AppsHere(applicationlist', application, signals', toServer, several)
      BY <1>1, <1>2, <1>6, <2>1, <2>2, <2>5, TakesOne
    <3>2. AppsHere(applicationlist', application, signals', toServer', several)
      BY <2>1, <2>4, <3>1, OtherSignals, SameQueues
    <3> QED BY <1>2, <1>6, <3>2
  <2>6. AppsElsewhere => AppsElsewhere'
    BY <1>2, <2>4, StaysElsewhere
  <2> QED BY <1>2, <1>6, <2>3, <2>5, <2>6 DEF AppInv
<1>7. CASE /\ Handled /\ applicationlist' = <<>>
           /\ Send("CheckApplication_Request", Me, FALSE)
           /\ appsCrossed' = UnderWay("CheckApplication_Request",
                                      "addapplication")
  <2>1. ~appsCrossed' => ~UnderWay("CheckApplication_Request", "addapplication")
    BY <1>7, Zenon
  <2>2. ~appsCrossed' => AppsAsked(applicationlist', signals', toServer')
    BY <1>2, <1>7, <2>1, AppRefresh
  <2> QED BY <2>2 DEF AppInv
<1>8. CASE /\ Handled /\ UNCHANGED <<several, applicationlist, appsCrossed>>
           /\ s.slot \notin {"addapplication", "newfriend", "update2"}
           /\ \/ UNCHANGED toServer
              \/ Send("FriendList_Request", Me, FALSE)
  <2>1. s \notin AppSignals
    BY <1>8 DEF AppSignals, Apps, News, Updates, InSlot
  <2>2. SameSignals(signals, signals')
    BY <1>1, <1>2, <1>8, <2>1, OtherSignals DEF Handled
  <2>3. SameRequests(toServer, toServer')
    BY <1>1, <1>8, SendsOther
  <2>4. UNCHANGED window
    BY <1>8 DEF Handled
  <2> QED BY <1>2, <1>8, <2>2, <2>3, <2>4, AppSame
<1> QED BY <1>4, <1>5, <1>6, <1>7, <1>8, AppDeliverShape

\* What the user does to the list of applications.
LEMMA AppUserShape ==
  ASSUME User
  PROVE  \/ Ends
         \/ /\ UNCHANGED <<window, signals, appsCrossed, several>>
            /\ \/ /\ appRow # 0 /\ UNCHANGED applicationlist
                  /\ Send("AgreeApplication_Request", applicationlist[appRow],
                          TRUE)
               \/ /\ appRow # 0
                  /\ applicationlist' = RemoveAt(applicationlist, appRow)
                  /\ Send("AgreeApplication_Request", applicationlist[appRow],
                          FALSE)
               \/ /\ UNCHANGED applicationlist
                  /\ \/ UNCHANGED toServer
                     \/ \E type, who, yes :
                          /\ type \notin {"CheckApplication_Request",
                                          "AgreeApplication_Request"}
                          /\ Send(type, who, yes)
<1> DEFINE Calm == UNCHANGED <<process, applicationlist, appsCrossed, several>>
           Other(type) == type \notin {"CheckApplication_Request",
                                       "AgreeApplication_Request"}
           Rest == /\ Calm
                   /\ \/ UNCHANGED toServer
                      \/ \E type, who, yes :
                           Other(type) /\ Send(type, who, yes)
<1>1. /\ Other("PrivateMessage_Request") /\ Other("CheckOnline_Request")
      /\ Other("DeleteFriend_Request") /\ Other("AddFriend_Request")
  OBVIOUS
<1> HIDE DEF Other
<1>2. ASSUME Accept, ~Ends
      PROVE  /\ appRow # 0 /\ Calm
             /\ Send("AgreeApplication_Request", applicationlist[appRow], TRUE)
  BY <1>2 DEF Accept, lists, history
<1>3. ASSUME Reject, ~Ends
      PROVE  /\ appRow # 0 /\ UNCHANGED <<process, appsCrossed, several>>
             /\ applicationlist' = RemoveAt(applicationlist, appRow)
             /\ Send("AgreeApplication_Request", applicationlist[appRow], FALSE)
  BY <1>3 DEF Reject, history
<1>4. Accept \/ Reject \/ Ends \/ Rest
  BY <1>1, Zenon
     DEF User, ClickFriend, KeyFriend, ClickApplication, KeyApplication,
         ChangeTab, SelectChat, Write, OpenFile, Chat, Delete, AnswerQuestion,
         Apply, lists, history
<1> QED BY <1>2, <1>3, <1>4, Zenon DEF process, Other

LEMMA AppUser ==
  ASSUME TypeInv, TypeInv', AppInv, User
  PROVE  AppInv'
<1>1. /\ signals \in Seq(Signals) /\ toServer \in Seq(Requests)
      /\ applicationlist \in Seq(Peer) /\ toServer' \in Seq(Requests)
      /\ window = "up" /\ UNCHANGED <<application, appsUntold>>
  BY DEF TypeInv, TypeOK, ListsOK, QueuesOK, User, server, told
<1>2. CASE Ends
  <2>1. window' = "ended"
    BY <1>2 DEF Ends
  <2> QED BY <2>1 DEF AppInv
<1>3. ASSUME NEW yes \in BOOLEAN, appRow # 0,
             UNCHANGED <<window, signals, appsCrossed, several>>,
             Send("AgreeApplication_Request", applicationlist[appRow], yes),
             applicationlist' = IF yes THEN applicationlist
                                ELSE RemoveAt(applicationlist, appRow)
      PROVE  AppInv'
  <2> DEFINE r == Request("AgreeApplication_Request", applicationlist[appRow],
                          yes)
  <2>1. appRow \in 1 .. Len(applicationlist)
    BY <1>1, <1>3 DEF TypeInv, TypeOK, ListsOK
  <2>2. applicationlist # <<>> /\ applicationlist[appRow] \in Peer
    BY <1>1, <2>1, OneShown
  <2>3. /\ r \in Requests /\ r.type = "AgreeApplication_Request"
        /\ r.who = applicationlist[appRow] /\ r.yes = yes
        /\ toServer' = Append(toServer, r)
    BY <1>3, <2>2, QueueTypes DEF Send, Request
  <2> HIDE DEF r
  <2>4. r \in Agrees /\ (r \in Rejects <=> ~yes)
    BY <2>3, Kinds
  <2>5. ~AppsAsked(applicationlist, signals, toServer)
    BY <2>2 DEF AppsAsked
  <2>6. ASSUME AppsHere(applicationlist, application, signals, toServer, several)
        PROVE  AppsHere(applicationlist', application', signals', toServer',
                        several')
    <3>1. /\ r \notin Rejects => AppsHere(applicationlist, application, signals,
                                         toServer', several)
          /\ r \in Rejects => AppsHere(RemoveAt(applicationlist, appRow),
                                      application, signals, toServer', several)
      BY <1>1, <2>1, <2>3, <2>4, <2>6, AnswersShown
    <3>2. AppsHere(applicationlist', application, signals, toServer', several)
      BY <1>3, <2>4, <3>1
    <3> QED BY <1>1, <1>3, <3>2
  <2>7. AppsElsewhere => AppsElsewhere'
    <3>1. r \notin Checks
      BY <2>3 DEF Checks, OfType
    <3>2. Hits(toServer', Checks) = Hits(toServer, Checks)
      BY <1>1, <2>3, <3>1, QueueHits, AppendHits
    <3> QED BY <1>1, <3>2 DEF AppsElsewhere
  <2> QED BY <1>1, <1>3, <2>5, <2>6, <2>7 DEF AppInv
<1>4. CASE /\ UNCHANGED <<window, signals, appsCrossed, several,
                          applicationlist>>
           /\ \/ UNCHANGED toServer
              \/ \E type, who, yes :
                   /\ type \notin {"CheckApplication_Request",
                                   "AgreeApplication_Request"}
                   /\ Send(type, who, yes)
  <2>1. SameRequests(toServer, toServer')
    BY <1>1, <1>4, SendsOther
  <2>2. SameSignals(signals, signals')
    BY <1>1, <1>4, OtherSignals
  <2> QED BY <1>1, <1>4, <2>1, <2>2, AppSame
<1> QED BY <1>2, <1>3, <1>4, AppUserShape

\* The list of n applications that the server sends.
LEMMA ApplicationsSent ==
  ASSUME NEW v \in Peer, NEW n \in Nat
  PROVE  LET t == ApplicationSignals(v, n)
         IN /\ t \in Seq(Signals) /\ Hits(t, Apps) = n /\ Hits(t, News) = 0
            /\ \A y : Hits(t, AppsOf(y)) # 0 => y = v
<1> DEFINE t == ApplicationSignals(v, n)
           x == Signal("addapplication", v, FALSE)
<1>1. x \in Signals /\ x.slot = "addapplication" /\ x.who = v
  BY QueueTypes DEF Signal
<1>2. t = [i \in 1 .. n |-> x]
  BY DEF ApplicationSignals
<1> HIDE DEF t, x
<1>3. t \in Seq(Signals) /\ Len(t) = n
  BY <1>1, <1>2, FunctionIsSeq
<1>4. x \in Apps /\ x \notin News /\ \A y : x \in AppsOf(y) => y = v
  BY <1>1, Kinds
<1>5. Hits(t, Apps) = n
  <2>1. Places(t, Apps) = 1 .. n
    BY <1>2, <1>4 DEF Places
  <2>2. Cardinality(1 .. n) = n
    BY FS_Interval
  <2> QED BY <2>1, <2>2 DEF Hits
<1>6. Hits(t, News) = 0
  BY <1>2, <1>3, <1>4, HitsCount
<1>7. ASSUME NEW y, Hits(t, AppsOf(y)) # 0 PROVE y = v
  <2>1. \E i \in 1 .. Len(t) : t[i] \in AppsOf(y)
    BY <1>3, <1>7, HitsCount
  <2> QED BY <1>2, <1>3, <1>4, <2>1
<1> QED BY <1>3, <1>5, <1>6, <1>7 DEF t

\* The other answers say nothing of applications.
LEMMA TellsOther ==
  ASSUME TypeInv,
         \/ UNCHANGED signals
         \/ \E x \in Signals : /\ Tell(<<x>>)
                               /\ x.slot \notin {"addapplication", "newfriend",
                                                 "update2"}
         \/ \E list \in FriendRows : Tell(FriendSignals(list))
  PROVE  SameSignals(signals, signals')
<1>1. ASSUME NEW t \in Seq(Signals), Tell(t),
             \A i \in 1 .. Len(t) : t[i].slot \notin {"addapplication",
                                                      "newfriend", "update2"}
      PROVE  SameSignals(signals, signals')
  <2>1. \A i \in 1 .. Len(t) : t[i] \notin AppSignals
    BY <1>1 DEF AppSignals, Apps, News, Updates, InSlot
  <2>2. Hits(t, AppSignals) = 0
    BY <2>1, HitsCount
  <2> QED BY <1>1, <2>2, QueueHits, OtherSignals DEF Tell
<1>2. ASSUME NEW x \in Signals, Tell(<<x>>),
             x.slot \notin {"addapplication", "newfriend", "update2"}
      PROVE  SameSignals(signals, signals')
  <2> DEFINE t == <<x>>
  <2>1. t \in Seq(Signals) /\ \A i \in 1 .. Len(t) : t[i] = x
    BY <1>2
  <2> HIDE DEF t
  <2> QED BY <1>1, <1>2, <2>1 DEF t
<1>3. ASSUME NEW list \in FriendRows, Tell(FriendSignals(list))
      PROVE  SameSignals(signals, signals')
  <2> DEFINE t == FriendSignals(list)
  <2>1. t \in Seq(Signals)
    BY RowsCount
  <2>2. DOMAIN t = 1 .. Len(t) /\ \A i \in DOMAIN t : t[i].slot = "addfriend"
    BY <2>1 DEF FriendSignals, Signal
  <2> HIDE DEF t
  <2>3. \A i \in 1 .. Len(t) : t[i].slot \notin {"addapplication", "newfriend",
                                                 "update2"}
    BY <2>2
  <2> QED BY <1>1, <1>3, <2>1, <2>3 DEF t
<1>4. CASE UNCHANGED signals
  BY <1>4, QueueHits, OtherSignals
<1> QED BY <1>2, <1>3, <1>4

LEMMA AppsUntoldSame ==
  ASSUME TypeInv, Answer, Head(toServer).type # "CheckApplication_Request"
  PROVE  UNCHANGED appsUntold
<1>1. appsUntold' =
        (appsUntold
         /\ (appsCrossed \/ Head(toServer).type # "CheckApplication_Request"))
  BY DEF Answer
<1>2. appsUntold \in BOOLEAN
  BY DEF TypeInv, TypeOK, ServerOK
<1> QED BY <1>1, <1>2, Zenon

\* What the server does about applications for the next request.
LEMMA AppAnswerShape ==
  ASSUME TypeInv, Answer,
         Head(toServer).type \notin {"CheckApplication_Request",
                                     "AgreeApplication_Request"}
  PROVE  /\ UNCHANGED <<application, several, appsUntold>>
         /\ SameSignals(signals, signals')
<1> DEFINE r == Head(toServer)
<1>1. r \in Requests
  BY AnswerHits
<1>2. r.type \notin {"FriendList_Request", "CheckApplication_Request"}
        => r.who \in Peer
  BY <1>1, QueueFields
<1>3. UNCHANGED <<several, appsUntold>>
  BY AppsUntoldSame DEF Answer
<1>4. CASE r.type = "FriendList_Request"
  <2>1. \E list \in FriendRows : Tell(FriendSignals(list))
    BY <1>4 DEF Answer
  <2>2. UNCHANGED application
    BY <1>4 DEF Answer, server
  <2> QED BY <1>3, <2>1, <2>2, TellsOther
<1>5. CASE r.type \in {"CheckOnline_Request", "PrivateMessage_Request",
                       "DeleteFriend_Request"}
  <2>1. PICK slot \in {"checkonline", "private", "deletefriend"},
             yes \in BOOLEAN : Tell(<<Signal(slot, r.who, yes)>>)
    BY <1>5 DEF Answer
  <2>2. UNCHANGED application
    BY <1>5 DEF Answer, server
  <2> DEFINE x == Signal(slot, r.who, yes)
  <2>3. x \in Signals
    BY <1>2, <1>5, QueueTypes
  <2>4. x.slot \notin {"addapplication", "newfriend", "update2"}
    BY DEF Signal
  <2> HIDE DEF x
  <2> QED BY <1>3, <2>1, <2>2, <2>3, <2>4, TellsOther DEF x
<1>6. CASE r.type = "AddFriend_Request"
  <2>1. UNCHANGED <<application, signals>>
    BY <1>6 DEF Answer, server
  <2> QED BY <1>3, <2>1, TellsOther
<1> QED BY <1>4, <1>5, <1>6 DEF Answer

LEMMA AppAnswer ==
  ASSUME TypeInv, TypeInv', AppInv, Answer
  PROVE  AppInv'
<1> DEFINE r == Head(toServer)
<1>1. /\ window = "up" /\ toServer # <<>> /\ toServer' = Tail(toServer)
      /\ UNCHANGED <<window, applicationlist, appsCrossed>>
  BY DEF Answer, lists
<1>2. /\ signals \in Seq(Signals) /\ toServer \in Seq(Requests)
      /\ applicationlist \in Seq(Peer) /\ signals' \in Seq(Signals)
      /\ application \subseteq Peer /\ IsFiniteSet(application)
  <2>1. application \subseteq Peer
    BY DEF TypeInv, TypeOK, ServerOK
  <2> QED
    BY <2>1, MainWindowAssumption, FS_Subset
       DEF TypeInv, TypeOK, ListsOK, QueuesOK
<1>3. r \in Requests
  BY AnswerHits
<1>4. CASE r.type = "CheckApplication_Request"
  <2>1. /\ UNCHANGED application /\ several' = (Cardinality(application) > 1)
        /\ \/ \E v \in application :
                Tell(ApplicationSignals(v, Cardinality(application)))
           \/ application = {} /\ UNCHANGED signals
    BY <1>4 DEF Answer, server
  <2>2. r \in Checks
    BY <1>3, <1>4, Kinds
  <2>3. /\ ~AppsHere(applicationlist, application, signals, toServer, several)
        /\ ~AppsElsewhere
    <3>1. /\ Hits(toServer, Checks) = Hits(Tail(toServer), Checks) + 1
          /\ Hits(Tail(toServer), Checks) \in Nat
      BY <1>1, <1>2, <2>2, TailHits
    <3>2. Hits(Tail(toServer), Checks) + 1 # 0
      BY <3>1
    <3> QED BY <3>1, <3>2 DEF AppsHere, AppsElsewhere
  <2>4. PICK t \in Seq(Signals) :
          /\ signals' = signals \o t /\ Hits(t, News) = 0
          /\ Hits(t, Apps) = Cardinality(application)
          /\ \A y : Hits(t, AppsOf(y)) # 0 => y \in application
    <3> DEFINE n == Cardinality(application)
    <3>1. n \in Nat
      BY <1>2, FS_CardinalityType
    <3>2. ASSUME NEW v \in application, Tell(ApplicationSignals(v, n))
          PROVE  \E t \in Seq(Signals) :
                   /\ signals' = signals \o t /\ Hits(t, News) = 0
                   /\ Hits(t, Apps) = n
                   /\ \A y : Hits(t, AppsOf(y)) # 0 => y \in application
      <4> DEFINE t == ApplicationSignals(v, n)
      <4>1. v \in Peer
        BY <1>2
      <4>2. /\ t \in Seq(Signals) /\ Hits(t, Apps) = n /\ Hits(t, News) = 0
            /\ \A y : Hits(t, AppsOf(y)) # 0 => y = v
        BY <3>1, <4>1, ApplicationsSent
      <4>3. signals' = signals \o t
        BY <3>2 DEF Tell
      <4> HIDE DEF t
      <4> QED BY <4>2, <4>3
    <3>3. ASSUME application = {}, UNCHANGED signals
          PROVE  /\ <<>> \in Seq(Signals)
                 /\ signals' = signals \o <<>> /\ Hits(<<>>, News) = 0
                 /\ Hits(<<>>, Apps) = n
                 /\ \A y : Hits(<<>>, AppsOf(y)) # 0 => y \in application
      <4>1. signals' = signals \o <<>>
        BY <1>2, <3>3
      <4>2. n = 0
        BY <3>3, FS_EmptySet
      <4> HIDE DEF n
      <4> QED BY <4>1, <4>2, HitsEmpty
    <3> HIDE DEF n
    <3> QED BY <2>1, <3>2, <3>3 DEF n
  <2>5. ASSUME AppsAsked(applicationlist, signals, toServer)
        PROVE  AppsHere(applicationlist', application', signals', toServer',
                        several')
    <3>1. AppsHere(applicationlist, application, signals', Tail(toServer),
                   Cardinality(application) > 1)
      BY <1>1, <1>2, <2>2, <2>4, <2>5, SendsApps
    <3> QED BY <1>1, <2>1, <3>1
  <2> QED BY <1>1, <2>3, <2>5 DEF AppInv
<1>5. CASE r.type = "AgreeApplication_Request"
  <2>1. /\ application' = application \ {r.who} /\ UNCHANGED several
        /\ IF r.yes THEN Tell(<<Signal("newfriend", Me, TRUE)>>)
           ELSE UNCHANGED signals
    BY <1>5 DEF Answer
  <2>2. r \in Agrees /\ (r \in Rejects <=> ~r.yes) /\ r.who \in Peer
    BY <1>3, <1>5, Kinds
  <2>3. \/ r \in Rejects /\ signals' = signals
        \/ r \notin Rejects /\ \E x \in News : signals' = Append(signals, x)
    <3> DEFINE x == Signal("newfriend", Me, TRUE)
    <3>1. x \in News
      <4>1. x \in Signals /\ x.slot = "newfriend"
        BY Notices
      <4> QED BY <4>1, Kinds
    <3>2. signals \o <<x>> = Append(signals, x)
      <4>1. x \in Signals
        BY <3>1 DEF News, InSlot
      <4> HIDE DEF x
      <4> QED BY <1>2, <4>1
    <3>3. r.yes => signals' = signals \o <<x>>
      BY <2>1 DEF Tell
    <3> HIDE DEF x
    <3> QED BY <2>1, <2>2, <3>1, <3>2, <3>3
  <2>4. /\ AppsAsked(applicationlist, signals, toServer)
             => AppsAsked(applicationlist, signals', Tail(toServer))
        /\ AppsHere(applicationlist, application, signals, toServer, several)
             => AppsHere(applicationlist, application \ {r.who}, signals',
                         Tail(toServer), several)
    BY <1>1, <1>2, <2>2, <2>3, AnswerMade
  <2>5. AppInv' <=>
          (~appsCrossed =>
             \/ AppsAsked(applicationlist, signals', Tail(toServer))
             \/ AppsHere(applicationlist, application \ {r.who}, signals',
                         Tail(toServer), several)
             \/ AppsElsewhere')
    BY <1>1, <2>1 DEF AppInv
  <2>6. AppsElsewhere => AppsElsewhere'
    <3>1. r \notin Checks
      BY <1>5 DEF Checks, OfType
    <3>2. Hits(toServer', Checks) = Hits(toServer, Checks)
      BY <1>1, <1>2, <3>1, QueueHits, TailHits
    <3>3. UNCHANGED appsUntold
      BY <1>5, AppsUntoldSame
    <3> QED BY <3>2, <3>3 DEF AppsElsewhere
  <2> QED BY <1>1, <2>4, <2>5, <2>6 DEF AppInv
<1>6. CASE r.type \notin {"CheckApplication_Request",
                          "AgreeApplication_Request"}
  <2>1. UNCHANGED <<application, several, appsUntold>>
        /\ SameSignals(signals, signals')
    BY <1>6, AppAnswerShape
  <2>2. r \notin AppRequests
    BY <1>6 DEF AppRequests, Checks, Agrees, OfType
  <2>3. SameRequests(toServer, toServer')
    BY <1>1, <1>2, <2>2, OtherRequests
  <2> QED BY <1>1, <2>1, <2>3, AppSame
<1> QED BY <1>4, <1>5, <1>6

LEMMA AppOthers ==
  ASSUME TypeInv, TypeInv', AppInv, Others
  PROVE  AppInv'
<1>1. /\ window = "up"
      /\ UNCHANGED <<window, applicationlist, toServer, appsCrossed, several>>
  BY DEF Others, lists, history
<1>2. signals \in Seq(Signals) /\ toServer \in Seq(Requests)
  BY QueueHits
<1>3. PICK v \in Peer :
        \/ PeerAgrees(v) \/ PeerDeletes(v) \/ PeerApplies(v)
        \/ \E yes \in BOOLEAN : AnsweredElsewhere(v, yes)
        \/ PeerWrites(v) \/ Strays(v)
  BY DEF Others
<1>4. ASSUME Tell(<<Signal("update2", Me, TRUE)>>), UNCHANGED appsUntold
      PROVE  AppInv'
  <2> DEFINE x == Signal("update2", Me, TRUE)
  <2>1. x \in Signals /\ x.slot = "update2" /\ Tell(<<x>>)
    BY <1>4, Notices
  <2> HIDE DEF x
  <2>2. x \in Updates /\ x \notin Apps
    BY <2>1, Kinds
  <2>3. Hits(signals', Updates) # 0 /\ Hits(signals', Apps) = Hits(signals, Apps)
    <3>1. /\ Hits(signals', Updates) = Hits(signals, Updates) + 1
          /\ Hits(signals', Apps) = Hits(signals, Apps) + 0
          /\ Hits(signals, Updates) \in Nat /\ Hits(signals, Apps) \in Nat
      BY <2>1, <2>2, TellOneHits, QueueHits
    <3>2. Hits(signals, Updates) + 1 # 0
      BY <3>1
    <3> QED BY <3>1, <3>2
  <2>4. AppsAsked(applicationlist, signals, toServer)
          => AppsAsked(applicationlist, signals', toServer)
    BY <2>3 DEF AppsAsked
  <2>5. AppsHere(applicationlist, application, signals, toServer, several)
          => AppsHere(applicationlist, application', signals', toServer, several)
    BY <2>3 DEF AppsHere
  <2>6. AppsElsewhere => AppsElsewhere'
    BY <1>1, <1>4 DEF AppsElsewhere
  <2> QED BY <1>1, <2>4, <2>5, <2>6 DEF AppInv
<1>5. ASSUME UNCHANGED signals,
             appsUntold' \/ UNCHANGED <<application, appsUntold>>
      PROVE  AppInv'
  <2>1. AppsHere(applicationlist, application, signals, toServer, several)
          \/ AppsElsewhere => Hits(toServer, Checks) = 0
    BY DEF AppsHere, AppsElsewhere
  <2>2. CASE appsUntold'
    BY <1>1, <1>5, <2>1, <2>2 DEF AppInv, AppsElsewhere
  <2>3. CASE UNCHANGED <<application, appsUntold>>
    BY <1>1, <1>5, <2>3 DEF AppInv, AppsElsewhere
  <2> QED BY <1>5, <2>2, <2>3
<1>6. ASSUME NEW x \in Signals, Tell(<<x>>), x.slot \in {"update", "private"},
             UNCHANGED <<application, appsUntold>>
      PROVE  AppInv'
  <2>1. x.slot \notin {"addapplication", "newfriend", "update2"}
    BY <1>6
  <2>2. SameSignals(signals, signals')
    BY <1>6, <2>1, TellsOther
  <2>3. SameRequests(toServer, toServer')
    BY <1>1, <1>2, OtherRequests
  <2> QED BY <1>1, <1>6, <2>2, <2>3, AppSame
<1>7. ASSUME NEW x \in Signals, FriendsNotice(x), x.slot = "update",
             UNCHANGED application
      PROVE  AppInv'
  <2>1. UNCHANGED appsUntold /\ (Tell(<<x>>) \/ UNCHANGED signals)
    BY <1>7 DEF FriendsNotice, told
  <2> QED BY <1>5, <1>6, <1>7, <2>1
<1>8. CASE PeerAgrees(v) \/ PeerDeletes(v)
  BY <1>7, <1>8, Notices DEF PeerAgrees, PeerDeletes
<1>9. CASE PeerApplies(v)
  <2>1. \/ Tell(<<Signal("update2", Me, TRUE)>>) /\ UNCHANGED appsUntold
        \/ /\ UNCHANGED signals
           /\ appsUntold' = (appsUntold \/ application' # application)
    BY <1>9 DEF PeerApplies, told
  <2>2. appsUntold \in BOOLEAN
    BY DEF TypeInv, TypeOK, ServerOK
  <2>3. appsUntold' = (appsUntold \/ application' # application)
          => appsUntold' \/ UNCHANGED <<application, appsUntold>>
    BY <2>2, Zenon
  <2> QED BY <1>4, <1>5, <2>1, <2>3
<1>10. ASSUME NEW yes \in BOOLEAN, AnsweredElsewhere(v, yes) PROVE AppInv'
  <2>1. /\ application' = application \ {v} /\ UNCHANGED signals
        /\ appsUntold' = (appsUntold \/ v \in application)
    BY <1>10 DEF AnsweredElsewhere
  <2>2. appsUntold \in BOOLEAN
    BY DEF TypeInv, TypeOK, ServerOK
  <2>3. v \notin application => UNCHANGED application
    BY <2>1
  <2>4. appsUntold' \/ UNCHANGED <<application, appsUntold>>
    BY <2>1, <2>2, <2>3, Zenon
  <2> QED BY <1>5, <2>1, <2>4
<1>11. CASE PeerWrites(v)
  <2>1. PICK own \in BOOLEAN : Tell(<<Signal("private", v, own)>>)
    BY <1>11 DEF PeerWrites
  <2>2. UNCHANGED <<application, appsUntold>>
    BY <1>11 DEF PeerWrites, server, told
  <2> DEFINE x == Signal("private", v, own)
  <2>3. x \in Signals /\ x.slot = "private"
    BY QueueTypes DEF Signal
  <2> HIDE DEF x
  <2> QED BY <1>6, <2>1, <2>2, <2>3 DEF x
<1>12. CASE Strays(v)
  <2>1. PICK x \in {Made, Unmade(v), Signal("update2", Me, TRUE)} : Tell(<<x>>)
    BY <1>12 DEF Strays
  <2>2. UNCHANGED <<application, appsUntold>>
    BY <1>12 DEF Strays, server, told
  <2>3. CASE x = Signal("update2", Me, TRUE)
    BY <1>4, <2>1, <2>2, <2>3
  <2>4. CASE x \in {Made, Unmade(v)}
    BY <1>6, <2>1, <2>2, <2>4, Notices
  <2> QED BY <2>1, <2>3, <2>4
<1> QED BY <1>3, <1>8, <1>9, <1>10, <1>11, <1>12

\* A window that has just been made asks for the list once.
LEMMA AppFirst == AppsAsked(<<>>, <<>>, FirstRequests)
<1> DEFINE a == Request("FriendList_Request", Me, FALSE)
           b == Request("CheckApplication_Request", Me, FALSE)
           q == <<a>>
<1>1. a \in Requests /\ b \in Requests
  BY QueueTypes
<1>2. a \notin Checks /\ b \in Checks /\ b \notin Agrees /\ a \notin Agrees
  BY <1>1 DEF Checks, Agrees, OfType, Request
<1>3. FirstRequests = Append(q, b)
  <2>1. FirstRequests = <<a, b>>
    BY DEF FirstRequests
  <2> HIDE DEF a, b
  <2> QED BY <2>1
<1> HIDE DEF a, b
<1>4. q \in Seq(Requests) /\ Hits(q, Checks) = 0 /\ Hits(q, Agrees) = 0
  BY <1>1, <1>2, HitsOne
<1> HIDE DEF q
<1>5. Hits(Append(q, b), Checks) = 1
  <2>1. Hits(Append(q, b), Checks) = Hits(q, Checks) + 1
    BY <1>1, <1>2, <1>4, AppendHits
  <2> QED BY <1>4, <2>1
<1>6. NoneAfter(q, Checks, Agrees)
  BY <1>4, NoneAfterNone
<1>7. NoneAfter(Append(q, b), Checks, Agrees)
  BY <1>1, <1>2, <1>4, <1>6, NoneAfterQueue
<1> QED BY <1>3, <1>5, <1>7, HitsEmpty DEF AppsAsked

LEMMA AppInit == Init => AppInv
BY AppFirst DEF Init, AppInv

LEMMA AppStep ==
  ASSUME TypeInv, TypeInv', ExactInv, AppInv, [Next]_vars
  PROVE  AppInv'
<1>1. CASE Relaunch
  <2>1. /\ applicationlist' = <<>> /\ signals' = <<>>
        /\ toServer' = FirstRequests
    BY <1>1 DEF Relaunch, Fresh, ExactInv
  <2> QED BY <2>1, AppFirst DEF AppInv
<1>2. CASE UNCHANGED vars
  <2>1. UNCHANGED <<window, signals, applicationlist, appsCrossed, several,
                    toServer, application, appsUntold>>
    BY <1>2 DEF vars, process, lists, server, told, history
  <2> QED BY <2>1 DEF AppInv, AppsElsewhere
<1> QED
  BY <1>1, <1>2, AppDeliver, AppUser, AppAnswer, AppOthers DEF Next

\* When nothing is on its way the window shows no more applications than the
\* server has, and whose it is if there was no more than one, unless lists
\* crossed or they changed without a notice to it: what is shown, comes or has been rejected is counted against what
\* the server has or has made a friend of, and a single one is not lost between
\* an answer to it and the list that was sent before the answer.
THEOREM ApplicationsAreRight == Spec => []ApplicationsAreShown
<1>1. TypeInv /\ AppInv => ApplicationsAreShown
  <2> SUFFICES ASSUME TypeInv, AppInv, Quiet, ~appsUntold, ~appsCrossed
               PROVE  /\ Len(applicationlist) <= Cardinality(application)
                      /\ ~several => ToSet(applicationlist) = application
    BY DEF ApplicationsAreShown
  <2>1. window = "up" /\ toServer = <<>> /\ signals = <<>>
    BY DEF Quiet
  <2>2. \A S : Hits(toServer, S) = 0 /\ Hits(signals, S) = 0
    BY <2>1, HitsEmpty
  <2>3. AppsHere(applicationlist, application, signals, toServer, several)
    BY <2>1, <2>2 DEF AppInv, AppsAsked, AppsElsewhere
  <2>4. /\ Counted(applicationlist, application, signals, toServer)
        /\ ~several => Single(applicationlist, application, signals, toServer)
    BY <2>2, <2>3, Zenon DEF AppsHere
  <2>5. application \subseteq Peer /\ applicationlist \in Seq(Peer)
    BY DEF TypeInv, TypeOK, ServerOK, ListsOK
  <2>6. Len(applicationlist) <= Cardinality(application)
    <3>1. Cardinality(application) \in Nat /\ Len(applicationlist) \in Nat
      BY <2>5, MainWindowAssumption, FS_Subset, FS_CardinalityType
    <3>2. Len(applicationlist) + 0 + 0 <= Cardinality(application) + 0
      BY <2>2, <2>4 DEF Counted
    <3> QED BY <3>1, <3>2
  <2>7. ASSUME ~several PROVE ToSet(applicationlist) = application
    <3>1. Single(applicationlist, application, signals, toServer)
      BY <2>4, <2>7
    <3>2. application \subseteq ToSet(applicationlist)
      BY <2>2, <3>1 DEF Single
    <3>3. ASSUME NEW y \in ToSet(applicationlist) PROVE y \in application
      <4>1. applicationlist # <<>>
        BY <3>3, EmptyHasNone
      <4>2. PICK x \in application : TRUE
        BY <2>2, <3>1, <4>1 DEF Single
      <4>3. y \in Peer
        BY <2>5, <3>3 DEF ToSet
      <4>4. x = y
        BY <3>1, <3>3, <4>2, <4>3 DEF Single, Named
      <4> QED BY <4>2, <4>4
    <3> QED BY <3>2, <3>3
  <2> QED BY <2>6, <2>7
<1> QED
  BY <1>1, TypeInit, TypeStep, ExactInit, ExactStep, AppInit, AppStep, PTL
     DEF Spec
=============================================================================
