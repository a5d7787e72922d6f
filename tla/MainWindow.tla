----------------------------- MODULE MainWindow -----------------------------
(***************************************************************************)
(* The main window of one client: its lists of friends, of applications    *)
(* and of private chats, the rows selected in them, and the pages that     *)
(* show the chats.                                                         *)
(*                                                                         *)
(* A button sends a request and returns; what comes of it arrives later as *)
(* a signal, which is applied to the window as it is then.  Signals come   *)
(* one at a time, in order, between two acts of the user, also while the   *)
(* question whether to delete a friend is on the screen.                   *)
(*                                                                         *)
(* The server is seen from here: it answers this client's requests in      *)
(* order, and others change what it knows, as in ChatServer.  It tells a   *)
(* user of that at the endpoint in row 0 of the user's rows in OnlineUser: *)
(* this one's, that of another client of the user, or one left behind by a *)
(* client that is gone.  A request and its packets are here from the click *)
(* to the signal; how they travel is in Framing.  Public messages change   *)
(* none of the lists.                                                      *)
(***************************************************************************)
EXTENDS Integers, Sequences, FiniteSets, SequencesExt

CONSTANTS
  Peer,           \* the other users
  Me,             \* the user of this client
  Parts,          \* bound: what is used beside the friend list; "elsewhere"
                  \* are notices that go to other endpoints than the one meant
  MaxInFlight,    \* bound: requests and signals that a new one may follow
  MaxRows,        \* bound: the user's rows in Relation
  MaxPages        \* bound: pages of private chats

ASSUME MainWindowAssumption ==
  /\ Me \notin Peer /\ IsFiniteSet(Peer)
  /\ Parts \subseteq {"applications", "chats", "deletion", "elsewhere"}
  /\ MaxInFlight \in Nat /\ MaxRows \in Nat /\ MaxPages \in Nat

VARIABLES
  window,         \* "up", or "ended" by undefined behaviour in a slot
  friendlist,     \* friends; listWidget shows the user and below them these
  row,            \* selected row of listWidget: -1 none, 0 the user
  applicationlist,\* applicants; listWidget_2 shows the same
  appRow,         \* selected row of listWidget_2, counted from 1; 0 none
  chatlist,       \* users chatted with; listWidget_private shows the same
  chatRow,        \* selected row of listWidget_private, counted from 1; 0 none
  pages,          \* stackedWidget_private above its first page: the user that
                  \* each page was added for
  tab,            \* tabWidget_friend: "friends" or "applications"
  acting,         \* are deleteBtn and chatBtn shown?
  answering,      \* are accept_btn and reject_btn shown?
  question,       \* is on_deleteBtn_clicked waiting for an answer?
  toServer,       \* requests the server has not handled, in order
  signals,        \* signals of Client the window has not handled, in order
  relation,       \* the server: the number of rows (Me, v) of Relation, for each v
  application,    \* the server: user1 of the rows of application for Me
  untold,         \* have friends changed since the last list was sent, or
                  \* before, without a notice to this window? (history)
  asked,          \* the friend selected when the question came up (history)
  crossed,        \* was a friend list on its way when the last refresh of it
                  \* was requested? (history)
  reopened,       \* has a chat been opened that was open? (history)
  appsUntold,     \* untold, for the applications (history)
  appsCrossed,    \* crossed, for the list of applications (history)
  several         \* did the last answer have several applications? (history)

lists   == <<friendlist, row, applicationlist, appRow>>
chats   == <<chatlist, chatRow, pages>>
widgets == <<tab, acting, answering, question>>
server  == <<relation, application>>
told    == <<untold, appsUntold>>
history == <<asked, crossed, reopened, appsCrossed, several>>
process == <<window, signals>>
vars    == <<process, lists, chats, widgets, toServer, server, told,
             history>>

Request(type, who, yes) == [type |-> type, who |-> who, yes |-> yes]
Signal(slot, who, yes)  == [slot |-> slot, who |-> who, yes |-> yes]

\* What the constructor of MainWindow asks for.
FirstRequests == <<Request("FriendList_Request", Me, FALSE),
                   Request("CheckApplication_Request", Me, FALSE)>>

Rows == SumFunction(relation)

Friends == {v \in Peer : relation[v] > 0}

Copies(list, v) == Cardinality({i \in DOMAIN list : list[i] = v})

\* The window has just been made, for a user with friends and applicants.
Init ==
  /\ window = "up"
  /\ friendlist = <<>> /\ row = -1 /\ applicationlist = <<>> /\ appRow = 0
  /\ chatlist = <<>> /\ chatRow = 0 /\ pages = <<>>
  /\ tab = "friends" /\ acting = FALSE /\ answering = FALSE /\ question = FALSE
  /\ toServer = FirstRequests /\ signals = <<>>
  /\ relation \in [Peer -> {0, 1}] /\ Rows <= MaxRows
  /\ application \in SUBSET Peer
  /\ "applications" \in Parts \/ application = {}
  /\ asked = Me /\ crossed = FALSE /\ reopened = FALSE
  /\ untold = FALSE /\ appsUntold = FALSE
  /\ appsCrossed = FALSE /\ several = FALSE

-----------------------------------------------------------------------------
(* Pieces of the slots *)

Send(type, who, yes) == toServer' = Append(toServer, Request(type, who, yes))

\* A window that has just been made.
Fresh ==
  /\ friendlist' = <<>> /\ row' = -1 /\ applicationlist' = <<>> /\ appRow' = 0
  /\ chatlist' = <<>> /\ chatRow' = 0 /\ pages' = <<>>
  /\ tab' = "friends" /\ acting' = FALSE /\ answering' = FALSE
  /\ question' = FALSE
  /\ asked' = Me /\ crossed' = FALSE /\ reopened' = FALSE
  /\ appsCrossed' = FALSE /\ several' = FALSE

\* A null pointer or an index out of bounds is used, which is taken to end the
\* process.  (What the server still gets to handle it might have handled before.)
Ends ==
  /\ window' = "ended" /\ Fresh
  /\ toServer' = <<>> /\ signals' = <<>>

\* The signal has been handled.
Handled == signals' = Tail(signals) /\ UNCHANGED window

\* Is a list on its way, or in the signals after the one that is handled?
UnderWay(type, slot) ==
  \/ \E i \in DOMAIN toServer : toServer[i].type = type
  \/ \E i \in 2 .. Len(signals) : signals[i].slot = slot

FriendListUnderWay == UnderWay("FriendList_Request", "addfriend")

Refresh_Reselecting(newRow) ==
  /\ friendlist' = <<>> /\ row' = row
  /\ Send("FriendList_Request", Me, FALSE)
  /\ crossed' = FriendListUnderWay

Refresh_Silent(newRow) ==
  /\ friendlist' = <<>> /\ row' = newRow
  /\ crossed' = FriendListUnderWay
  /\ UNCHANGED toServer

\* The list is emptied here and filled when the answer comes.
Refresh(newRow) ==
  /\ friendlist' = <<>> /\ row' = newRow
  /\ Send("FriendList_Request", Me, FALSE)
  /\ crossed' = FriendListUnderWay

RowAfterTaking_Same(selected, i, n) == selected

\* QListWidget::takeItem of row i of n: if it was selected, the row below takes
\* its place, or else the one above.
RowAfterTaking(selected, i, n) ==
  IF selected > i \/ (selected = i /\ i = n) THEN selected - 1 ELSE selected

PlaceOf(v) == CHOOSE i \in DOMAIN chatlist : chatlist[i] = v

PageOf_Unshifted(i) == IF i > 1 THEN i - 1 ELSE i

\* widget(i + 1) for the chat at index i, which is counted from 1 here as pages
\* are: the first page of the stack is none of them.
PageOf(i) == i

OpenChat(v) ==
  /\ chatlist' = Append(chatlist, v) /\ chatRow' = Len(chatlist')
  /\ pages' = Append(pages, v)
  /\ UNCHANGED reopened

\* The loop over listWidget_private of receiveData_update and of
\* receiveData_deletefriend.
CloseChat(v) ==
  IF v \in ToSet(chatlist)
  THEN LET i == PlaceOf(v)
       IN /\ chatlist' = RemoveAt(chatlist, i)
          /\ chatRow' = RowAfterTaking(chatRow, i, Len(chatlist))
          /\ pages' = RemoveAt(pages, PageOf(i))
  ELSE UNCHANGED chats

FriendSignals_First(friends) ==
  [i \in DOMAIN friends |-> Signal("addfriend", friends[1], FALSE)]

\* Client::handle_friendlist: a signal for each row; for an empty list, none.
FriendSignals(friends) ==
  [i \in DOMAIN friends |-> Signal("addfriend", friends[i], FALSE)]

\* Client::handle_application: the same, but the first row, v, each of n times.
ApplicationSignals(v, n) ==
  [i \in 1 .. n |-> Signal("addapplication", v, FALSE)]

-----------------------------------------------------------------------------
(* Slots for signals: what the window does with the answers *)

ReceiveAddFriend(v) ==
  /\ friendlist' = Append(friendlist, v)
  /\ Handled
  /\ UNCHANGED <<row, applicationlist, appRow, chats, widgets, toServer,
                 history>>

ReceiveAddApplication(v) ==
  /\ applicationlist' = Append(applicationlist, v)
  /\ Handled
  /\ UNCHANGED <<friendlist, row, appRow, chats, widgets, toServer,
                 history>>

\* A yes is taken to be about the friend who is selected by now, and a page is
\* added whether or not the chat is open.
ReceiveCheckOnline(yes) ==
  IF ~yes THEN Handled /\ UNCHANGED <<lists, chats, widgets, toServer, history>>
  ELSE IF row \notin DOMAIN friendlist THEN Ends
  ELSE LET one == friendlist[row]
       IN /\ IF one \in ToSet(chatlist)
             THEN /\ chatRow' = PlaceOf(one)
                  /\ pages' = Append(pages, one)
                  /\ reopened' = TRUE
                  /\ UNCHANGED chatlist
             ELSE OpenChat(one)
          /\ Handled
          /\ UNCHANGED <<lists, widgets, toServer, asked, crossed, appsCrossed,
                         several>>

\* A message from v opens a chat; the echo of one's own to v looks for one, and
\* if it has been closed, shows the text on whatever page an index that was
\* never set names, or uses a page that is not there.
ReceivePrivate(v, own) ==
  \/ /\ ~own /\ v \notin ToSet(chatlist) /\ OpenChat(v)
     /\ Handled
     /\ UNCHANGED <<lists, widgets, toServer, asked, crossed, appsCrossed,
                    several>>
  \/ /\ own \/ v \in ToSet(chatlist)
     /\ Handled
     /\ UNCHANGED <<lists, chats, widgets, toServer, history>>
  \/ own /\ v \notin ToSet(chatlist) /\ Ends

\* The application selected by now is taken off the list.
ReceiveNewFriend ==
  IF appRow = 0 THEN Ends
  ELSE /\ Refresh(-1)
       /\ applicationlist' = RemoveAt(applicationlist, appRow) /\ appRow' = 0
       /\ answering' = FALSE
       /\ Handled
       /\ UNCHANGED <<chats, tab, acting, question, asked, reopened,
                      appsCrossed, several>>

ReceiveDeleteFriend(v) ==
  /\ CloseChat(v)
  /\ Refresh(0)
  /\ acting' = FALSE
  /\ Handled
  /\ UNCHANGED <<applicationlist, appRow, tab, answering, question,
                 asked, reopened, appsCrossed, several>>

\* made: somebody has agreed to be a friend; and not: v has deleted this user.
ReceiveUpdate(v, made) ==
  /\ IF made THEN UNCHANGED chats ELSE CloseChat(v)
  /\ Refresh(-1)
  /\ Handled
  /\ UNCHANGED <<applicationlist, appRow, widgets, asked, reopened,
                 appsCrossed, several>>

ReceiveUpdate2_Adding ==
  /\ appRow' = 0 /\ UNCHANGED applicationlist
  /\ Send("CheckApplication_Request", Me, FALSE)
  /\ appsCrossed' = UnderWay("CheckApplication_Request", "addapplication")
  /\ Handled
  /\ UNCHANGED <<friendlist, row, chats, widgets, asked, crossed, reopened,
                 several>>

\* receiveData_update2.  The buttons stay.
ReceiveUpdate2 ==
  /\ applicationlist' = <<>> /\ appRow' = 0
  /\ Send("CheckApplication_Request", Me, FALSE)
  /\ appsCrossed' = UnderWay("CheckApplication_Request", "addapplication")
  /\ Handled
  /\ UNCHANGED <<friendlist, row, chats, widgets, asked, crossed, reopened,
                 several>>

Deliver ==
  /\ window = "up" /\ signals # <<>>
  /\ LET s == Head(signals)
     IN \/ s.slot = "addfriend"      /\ ReceiveAddFriend(s.who)
        \/ s.slot = "addapplication" /\ ReceiveAddApplication(s.who)
        \/ s.slot = "checkonline"    /\ ReceiveCheckOnline(s.yes)
        \/ s.slot = "private"        /\ ReceivePrivate(s.who, s.yes)
        \/ s.slot = "newfriend"      /\ ReceiveNewFriend
        \/ s.slot = "deletefriend"   /\ ReceiveDeleteFriend(s.who)
        \/ s.slot = "update"         /\ ReceiveUpdate(s.who, s.yes)
        \/ s.slot = "update2"        /\ ReceiveUpdate2
  /\ UNCHANGED <<server, told>>

-----------------------------------------------------------------------------
(* Acts of the user *)

Room == Len(toServer) + Len(signals) < MaxInFlight

\* singleclicked
ClickFriend(i) ==
  /\ tab = "friends" /\ row' = i /\ acting' = (i # 0)
  /\ UNCHANGED <<process, friendlist, applicationlist, appRow, chats, tab,
                 answering, question, toServer, history>>

\* singleclicked_2
ClickApplication(i) ==
  /\ tab = "applications" /\ appRow' = i /\ answering' = TRUE
  /\ UNCHANGED <<process, friendlist, row, applicationlist, chats, tab, acting,
                 question, toServer, history>>

\* An arrow key moves the selection, and no slot is called.
KeyFriend(i) ==
  /\ tab = "friends" /\ row' = i
  /\ UNCHANGED <<process, friendlist, applicationlist, appRow, chats, widgets,
                 toServer, history>>

KeyApplication(i) ==
  /\ tab = "applications" /\ appRow' = i
  /\ UNCHANGED <<process, friendlist, row, applicationlist, chats, widgets,
                 toServer, history>>

\* on_tabWidget_friend_currentChanged
ChangeTab ==
  /\ IF tab = "friends"
     THEN /\ tab' = "applications" /\ acting' = FALSE
          /\ answering' = (appRow # 0 \/ answering)
     ELSE /\ tab' = "friends" /\ answering' = FALSE
          /\ acting' = (row \notin {-1, 0} \/ acting)
  /\ UNCHANGED <<process, lists, chats, question, toServer, history>>

SelectChat(i) ==
  /\ chatRow' = i
  /\ UNCHANGED <<process, lists, chatlist, pages, widgets, toServer, history>>

\* on_pushButton_private_clicked, with a text entered
Write ==
  IF chatRow = 0 THEN Ends
  ELSE /\ Room /\ Send("PrivateMessage_Request", chatlist[chatRow], FALSE)
       /\ UNCHANGED <<process, lists, chats, widgets, history>>

\* on_open_file_clicked, with a file chosen: the name of the selected chat is
\* read, and nothing is sent.
OpenFile == chatRow = 0 /\ Ends

\* on_chatBtn_clicked
Chat ==
  /\ acting
  /\ IF row \notin DOMAIN friendlist THEN Ends
     ELSE /\ Room /\ Len(pages) + Len(toServer) + Len(signals) < MaxPages
          /\ Send("CheckOnline_Request", friendlist[row], FALSE)
          /\ UNCHANGED <<process, lists, chats, widgets, history>>

\* on_deleteBtn_clicked, until it asks
Delete ==
  /\ acting /\ Room /\ question' = TRUE
  /\ asked' = IF row \in DOMAIN friendlist THEN friendlist[row] ELSE Me
  /\ UNCHANGED <<process, lists, chats, tab, acting, answering, toServer,
                 crossed, reopened, appsCrossed, several>>

\* on_deleteBtn_clicked, from the answer
AnswerQuestion(yes) ==
  /\ question
  /\ IF yes /\ row \notin DOMAIN friendlist THEN Ends
     ELSE /\ question' = FALSE /\ asked' = Me
          /\ IF yes THEN Send("DeleteFriend_Request", friendlist[row], FALSE)
             ELSE UNCHANGED toServer
          /\ UNCHANGED <<process, lists, chats, tab, acting, answering, crossed,
                         reopened, appsCrossed, several>>

\* on_confBtn_clicked, with the name of v entered
Apply(v) ==
  /\ tab = "friends" /\ ~acting
  /\ v \notin ToSet(friendlist) /\ Room
  /\ Send("AddFriend_Request", v, FALSE)
  /\ UNCHANGED <<process, lists, chats, widgets, history>>

\* Room in the server's table for one more answered application.
RowsLeft ==
  Rows + Len(SelectSeq(toServer, LAMBDA r : r.yes)) < MaxRows

\* on_accept_btn_clicked
Accept ==
  /\ answering
  /\ IF appRow = 0 THEN Ends
     ELSE /\ Room /\ RowsLeft
          /\ Send("AgreeApplication_Request", applicationlist[appRow], TRUE)
          /\ UNCHANGED <<process, lists, chats, widgets, history>>

\* on_reject_btn_clicked
Reject ==
  /\ answering
  /\ IF appRow = 0 THEN Ends
     ELSE /\ Room
          /\ Send("AgreeApplication_Request", applicationlist[appRow], FALSE)
          /\ applicationlist' = RemoveAt(applicationlist, appRow) /\ appRow' = 0
          /\ answering' = FALSE
          /\ UNCHANGED <<process, friendlist, row, chats, tab, acting, question,
                         history>>

\* The user starts the program again and logs in.
Relaunch ==
  /\ window = "ended" /\ window' = "up"
  /\ Fresh
  /\ toServer' = FirstRequests
  /\ UNCHANGED <<signals, server, told>>

\* While the question is on the screen, the window takes no clicks.
User ==
  /\ window = "up"
  /\ \/ \E yes \in BOOLEAN : AnswerQuestion(yes)
     \/ /\ ~question
        /\ \/ /\ Parts \cap {"chats", "deletion"} # {}
              /\ \/ \E i \in 0 .. Len(friendlist) : ClickFriend(i) \/ KeyFriend(i)
                 \/ \E v \in Peer : Apply(v)
           \/ "deletion" \in Parts /\ Delete
           \/ /\ "applications" \in Parts
              /\ \/ \E i \in DOMAIN applicationlist :
                      ClickApplication(i) \/ KeyApplication(i)
                 \/ ChangeTab \/ Accept \/ Reject
           \/ /\ "chats" \in Parts
              /\ \/ \E i \in DOMAIN chatlist : SelectChat(i)
                 \/ Chat \/ Write \/ OpenFile
  /\ UNCHANGED <<server, told>>

-----------------------------------------------------------------------------
(* The server and the other users *)

Tell(new) == signals' = signals \o new

Befriended(v) == relation' = [relation EXCEPT ![v] = @ + 1]

Unfriended(v) == relation' = [relation EXCEPT ![v] = 0]

\* UpdateFriendList.  The name that comes with a friendship that was made is that
\* of nobody, and is not used.
Made      == Signal("update", Me, TRUE)
Unmade(v) == Signal("update", v, FALSE)

\* The rows of the answer to FriendList, which come in any order.
FriendRows ==
  {list \in UNION {[1 .. n -> Peer] : n \in 0 .. MaxRows} :
     \A v \in Peer : Copies(list, v) = relation[v]}

\* Server::Handler for the next request of this client.  AddFriend_Return is
\* left out: the window shows a box for it.
Answer ==
  /\ window = "up" /\ toServer # <<>> /\ toServer' = Tail(toServer)
  /\ LET r == Head(toServer)
     IN /\ \/ /\ r.type = "FriendList_Request"
              /\ \E list \in FriendRows : Tell(FriendSignals(list))
              /\ UNCHANGED server
           \/ /\ r.type = "CheckApplication_Request"
              /\ \/ \E v \in application :
                      Tell(ApplicationSignals(v, Cardinality(application)))
                 \/ application = {} /\ UNCHANGED signals
              /\ UNCHANGED server
           \/ /\ r.type = "CheckOnline_Request"
              /\ \E yes \in BOOLEAN : Tell(<<Signal("checkonline", r.who, yes)>>)
              /\ UNCHANGED server
           \/ /\ r.type = "PrivateMessage_Request"
              /\ Tell(<<Signal("private", r.who, TRUE)>>)
              /\ UNCHANGED server
           \/ /\ r.type = "AddFriend_Request"
              /\ UNCHANGED <<signals, server>>
           \/ /\ r.type = "DeleteFriend_Request"
              /\ Unfriended(r.who)
              /\ Tell(<<Signal("deletefriend", r.who, FALSE)>>)
              /\ UNCHANGED application
           \/ /\ r.type = "AgreeApplication_Request"
              /\ application' = application \ {r.who}
              /\ IF r.yes
                 THEN /\ Befriended(r.who)
                      /\ Tell(<<Signal("newfriend", Me, TRUE)>>)
                 ELSE UNCHANGED <<relation, signals>>
        /\ several' = IF r.type = "CheckApplication_Request"
                      THEN Cardinality(application) > 1 ELSE several
        /\ untold' = (untold /\ (crossed \/ r.type # "FriendList_Request"))
        /\ appsUntold' =
             (appsUntold /\ (appsCrossed \/ r.type # "CheckApplication_Request"))
  /\ UNCHANGED <<window, lists, chats, widgets, asked, crossed, reopened,
                 appsCrossed>>

\* User v applies to this user, perhaps once more.
PeerApplies(v) ==
  /\ application' = application \cup {v}
  /\ \/ Tell(<<Signal("update2", Me, TRUE)>>) /\ UNCHANGED told
     \/ /\ "elsewhere" \in Parts
        /\ appsUntold' = (appsUntold \/ application' # application)
        /\ UNCHANGED <<signals, untold>>
  /\ UNCHANGED relation

\* The friends have changed.
FriendsNotice(notice) ==
  \/ Tell(<<notice>>) /\ UNCHANGED told
  \/ /\ "elsewhere" \in Parts
     /\ untold' = (untold \/ relation' # relation)
     /\ UNCHANGED <<signals, appsUntold>>

\* The user may have applied to v at any time, also from another client.
PeerAgrees(v) ==
  /\ RowsLeft /\ Befriended(v)
  /\ FriendsNotice(Made)
  /\ UNCHANGED application

\* A deletion of v by another client of the user has the effect of one by v that
\* this window is not told of.
PeerDeletes(v) ==
  /\ Unfriended(v)
  /\ FriendsNotice(Unmade(v))
  /\ UNCHANGED application

\* Another client of the user answers an application, of which this window is
\* not told.
AnsweredElsewhere(v, yes) ==
  /\ application' = application \ {v}
  /\ appsUntold' = (appsUntold \/ v \in application)
  /\ IF yes THEN RowsLeft /\ Befriended(v) /\ untold' = TRUE
     ELSE UNCHANGED <<relation, untold>>
  /\ UNCHANGED signals

\* A notice for a user whose row 0 names this endpoint, where that user's client
\* was before this one.
Strays(v) ==
  /\ \E notice \in {Made, Unmade(v), Signal("update2", Me, TRUE)} :
       /\ notice.slot = "update2" => "applications" \in Parts
       /\ Tell(<<notice>>)
  /\ UNCHANGED <<server, told>>

\* A message of v's to this user, or for such a user; or one that another client
\* of this user has written to v, if v is such a user.
PeerWrites(v) ==
  /\ \E own \in BOOLEAN : Tell(<<Signal("private", v, own)>>)
  /\ UNCHANGED <<server, told>>

Others ==
  /\ window = "up" /\ Room
  /\ \E v \in Peer :
       \/ PeerAgrees(v) \/ PeerDeletes(v)
       \/ "applications" \in Parts /\ PeerApplies(v)
       \/ /\ {"applications", "elsewhere"} \subseteq Parts
          /\ \E yes \in BOOLEAN : AnsweredElsewhere(v, yes)
       \/ "chats" \in Parts /\ (PeerWrites(v) \/ Strays(v))
  /\ UNCHANGED <<window, lists, chats, widgets, toServer, history>>

Next == Deliver \/ User \/ Relaunch \/ Answer \/ Others

Spec == Init /\ [][Next]_vars

-----------------------------------------------------------------------------
(* Properties *)

Quiet == window = "up" /\ toServer = <<>> /\ signals = <<>>

\* Requests about the user's own lists, and those about another user.
Requests ==
  [type : {"FriendList_Request", "CheckApplication_Request"}, who : {Me},
   yes : BOOLEAN]
  \cup [type : {"CheckOnline_Request", "PrivateMessage_Request",
                "AddFriend_Request", "DeleteFriend_Request",
                "AgreeApplication_Request"}, who : Peer, yes : BOOLEAN]

Signals ==
  [slot : {"newfriend", "update", "update2"}, who : {Me}, yes : BOOLEAN]
  \cup [slot : {"addfriend", "addapplication", "checkonline", "private",
                "deletefriend", "update"},
        who : Peer, yes : BOOLEAN]

ListsOK ==
  /\ friendlist \in Seq(Peer) /\ row \in -1 .. Len(friendlist)
  /\ applicationlist \in Seq(Peer) /\ appRow \in 0 .. Len(applicationlist)

ChatsOK ==
  /\ chatlist \in Seq(Peer) /\ chatRow \in 0 .. Len(chatlist)
  /\ pages \in Seq(Peer)

QueuesOK == toServer \in Seq(Requests) /\ signals \in Seq(Signals)

ServerOK ==
  /\ relation \in [Peer -> Nat] /\ application \subseteq Peer
  /\ untold \in BOOLEAN /\ appsUntold \in BOOLEAN

TypeOK ==
  /\ window \in {"up", "ended"}
  /\ ListsOK /\ ChatsOK /\ QueuesOK /\ ServerOK
  /\ tab \in {"friends", "applications"}
  /\ acting \in BOOLEAN /\ answering \in BOOLEAN /\ question \in BOOLEAN
  /\ asked \in Peer \cup {Me}
  /\ crossed \in BOOLEAN /\ reopened \in BOOLEAN
  /\ appsCrossed \in BOOLEAN /\ several \in BOOLEAN

\* When nothing is on its way, the window shows the friends the server has, and
\* nobody else, unless the last change came without a notice to it: however
\* refreshes cross, the last one sees the last change.
QuietListHasFriends == Quiet /\ ~untold => ToSet(friendlist) = Friends

\* And it shows each as often as the server has it, unless the last refresh was
\* asked for while another list was on its way, which is then added to this one.
ExactUnlessCrossed ==
  Quiet /\ ~untold /\ ~crossed =>
    \A v \in Peer : Copies(friendlist, v) = relation[v]

\* Nor does it then show more applications than there are to answer, and if
\* there was no more than one at a time, it shows whose it is: an answer takes
\* off the list whatever is selected when the server is done with it, and a list
\* of several names its first applicant every time.  Again unless lists crossed,
\* or applications changed without a notice to this window.
ApplicationsAreShown ==
  Quiet /\ ~appsUntold /\ ~appsCrossed =>
    /\ Len(applicationlist) <= Cardinality(application)
    /\ ~several => ToSet(applicationlist) = application

\* Until a chat that is open is opened again, the page of a chat is the one that
\* was added for it, however chats come and go, and no chat is there twice.
PagesMatchChats ==
  /\ IsInjective(chatlist)
  /\ ~reopened => pages = chatlist

\* Whatever the lists do while the question is on the screen, what is deleted
\* is the friend that was selected when it came up.
DeletesTheOneAsked ==
  [][question /\ Len(toServer') > Len(toServer)
       /\ toServer'[Len(toServer')].type = "DeleteFriend_Request"
     => toServer'[Len(toServer')].who = asked]_vars

\* mainwindow.h:80: a yes to the question whether the other side is online
\* lets one chat, with the one that was asked about.
OpensTheOneAsked ==
  [][signals # <<>> /\ signals' = Tail(signals) /\ window' = "up"
       /\ Head(signals).slot = "checkonline" /\ Head(signals).yes
     => Head(signals).who \in ToSet(chatlist')]_vars
=============================================================================
