------------------------------- MODULE Dialogs -------------------------------
(***************************************************************************)
(* The dialogs of one client in front of the main window: login, the       *)
(* registration dialogs (regist) it opens, and the profile dialogs         *)
(* (regist2) that these open.                                              *)
(*                                                                         *)
(* A dialog that is closed is only hidden.  It goes on receiving Client's  *)
(* signals until it is destroyed, which deleteLater puts off until control *)
(* is back in the event loop.  A message box runs an event loop of its     *)
(* own inside the slot that shows it, so that other slots run before that  *)
(* slot goes on.                                                           *)
(*                                                                         *)
(* The server is seen from here: it answers this client's requests in      *)
(* order.  A signal is an event for each dialog that is connected when     *)
(* Client emits it, and events are delivered one after another.            *)
(***************************************************************************)
EXTENDS Naturals, Sequences, FiniteSets, SequencesExt

CONSTANTS
  User,           \* account names
  NoUser,         \* the empty name
  Contested,      \* bound: the names that other clients try to register
  MaxDialogs,     \* bound: dialogs made in the life of the process
  MaxInFlight     \* bound: requests and events that a new request may follow

ASSUME DialogsAssumption ==
  NoUser \notin User /\ Contested \subseteq User
  /\ MaxDialogs \in Nat /\ MaxInFlight \in Nat

Dialog == 1 .. MaxDialogs     \* numbered as they are made
Login  == 0                   \* the login dialog

VARIABLES
  process,        \* "up", "left" by the user or ended in "undefined" behaviour
  class,          \* of each dialog: "none" (not made yet), "regist", "regist2"
                  \* or "gone"
  user,           \* member user of each dialog
  atLogin,        \* is the login dialog shown, and no main window?
  windows,        \* main windows made
  modals,         \* modal windows, the one that takes the input last: dialogs,
                  \* and boxes that the slots of dialogs have shown
  requests,       \* requests the server has not handled, in order
  events,         \* events posted to this thread, in order
  profile,        \* table User: the profile of each account, or "none"
  accepted,       \* names registered for this client (history)
  unoffered,      \* those for which no profile dialog has been made (history)
  filledIn,       \* names with a profile submitted, neither refused nor followed
                  \* by another try to register the name here (history)
  rivals,         \* names that another client has tried to register (history)
  hasty,          \* has a request been sent, or a warning shown, while a dialog
                  \* that this concerns waited for an earlier answer? (history)
  strayed,        \* has one asked again before the answer, or has a regist been
                  \* made while there was another? (history)
  relogged        \* has login been clicked while it waited? (history)

server  == <<profile, accepted, filledIn, rivals>>
history == <<unoffered, hasty, strayed, relogged>>
dialogs == <<class, user>>
vars    == <<process, dialogs, atLogin, windows, modals, requests, events,
             server, history>>

Request(type, who, value) == [type |-> type, who |-> who, value |-> value]
Event(to, slot, ok)       == [to |-> to, slot |-> slot, ok |-> ok, loops |-> 0]
Deletion(d, loops)        == [to |-> d, slot |-> "deleteLater", ok |-> TRUE,
                              loops |-> loops]
Modal(of, text)           == [of |-> of, text |-> text]
Window(d)                 == Modal(d, "window")

IsBox(m) == m.text # "window"

\* How many event loops run inside that of main.
Loops == Cardinality({i \in DOMAIN modals : IsBox(modals[i])})

DefaultProfile_Empty == ""

DefaultProfile == "default"

All(c) == {d \in Dialog : class[d] = c}

Init ==
  /\ process = "up" /\ atLogin = TRUE /\ windows = 0
  /\ class = [d \in Dialog |-> "none"] /\ user = [d \in Dialog |-> NoUser]
  /\ modals = <<>> /\ requests = <<>> /\ events = <<>>
  /\ profile = [u \in User \cup {NoUser} |-> "none"]
  /\ accepted = {} /\ unoffered = {} /\ filledIn = {} /\ rivals = {}
  /\ hasty = FALSE /\ strayed = FALSE /\ relogged = FALSE

-----------------------------------------------------------------------------
(* The server, and what Client makes of its answers *)

\* The dialogs of class c in the order in which they were made.
Sorted(c) ==
  {l \in [1 .. Cardinality(All(c)) -> All(c)] :
     \A i, j \in DOMAIN l : i < j => l[i] < l[j]}

Emit_Twice(c, slot, ok) ==
  \E l \in Sorted(c) :
    events' = events \o [i \in DOMAIN l |-> Event(l[i], slot, ok)]
                     \o [i \in DOMAIN l |-> Event(l[i], slot, ok)]

\* A signal: an event for each of the dialogs of class c.
Emit(c, slot, ok) ==
  \E l \in Sorted(c) :
    events' = events \o [i \in DOMAIN l |-> Event(l[i], slot, ok)]

Register(u) ==
  LET new == profile[u] = "none"
  IN /\ IF new
        THEN /\ profile' = [profile EXCEPT ![u] = "bare"]
             /\ accepted' = accepted \cup {u}
             /\ unoffered' = unoffered \cup {u}
        ELSE UNCHANGED <<profile, accepted, unoffered>>
     /\ Emit("regist", "receiveData_Register", new)
     /\ UNCHANGED filledIn

\* Row u after the update, if there is such a row.
Updated_Once(u, value) ==
  IF profile[u] = "bare" THEN [profile EXCEPT ![u] = value] ELSE profile

Updated(u, value) ==
  IF profile[u] = "none" THEN profile ELSE [profile EXCEPT ![u] = value]

\* The database may refuse the update; that it matches no row is no error.
RegisterExtra(u, value) ==
  /\ \/ /\ profile' = Updated(u, value)
        /\ Emit("regist2", "receiveDate_Register1", TRUE)
        /\ UNCHANGED filledIn
     \/ /\ Emit("regist2", "receiveDate_Register1", FALSE)
        /\ filledIn' = filledIn \ {u}
        /\ UNCHANGED profile
  /\ UNCHANGED <<accepted, unoffered>>

\* receiveData_Login1 or receiveData_Login2
CheckLogin(u) ==
  /\ events' = Append(events, Event(Login, "receiveData_Login",
                                    profile[u] # "none"))
  /\ UNCHANGED <<profile, accepted, unoffered, filledIn>>

\* Server::Handler for the next request, and Client::Handler for the answer:
\* what happens between the two does not depend on it.
Answer ==
  /\ process = "up" /\ requests # <<>> /\ requests' = Tail(requests)
  /\ LET r == Head(requests)
     IN \/ r.type = "Register_Request"       /\ Register(r.who)
        \/ r.type = "Register_Extra_Request" /\ RegisterExtra(r.who, r.value)
        \/ r.type = "Login_Request"          /\ CheckLogin(r.who)
  /\ UNCHANGED <<process, dialogs, atLogin, windows, modals, rivals, hasty,
                 strayed, relogged>>

\* Another client registers the name u; its second request follows the first.
OthersRegister(u) ==
  /\ profile' = IF profile[u] = "none" THEN [profile EXCEPT ![u] = "bare"]
                ELSE profile
  /\ rivals' = rivals \cup {u}

OthersFillIn(u) ==
  /\ u \in rivals /\ profile' = Updated(u, DefaultProfile)
  /\ UNCHANGED rivals

Others ==
  /\ process = "up"
  /\ \E u \in Contested : OthersRegister(u) \/ OthersFillIn(u)
  /\ UNCHANGED <<process, dialogs, atLogin, windows, modals, requests, events,
                 accepted, filledIn, history>>

-----------------------------------------------------------------------------
(* The event loop *)

\* Does d wait for an answer, show one, or wait to be destroyed?
Awaits(d) ==
  \/ \E i \in DOMAIN requests :
       requests[i].type = IF class[d] = "regist" THEN "Register_Request"
                          ELSE "Register_Extra_Request"
  \/ \E i \in DOMAIN events : events[i].to = d
  \/ \E i \in DOMAIN modals : modals[i].of = d /\ IsBox(modals[i])

\* An object is not destroyed in an event loop that runs inside the one in
\* which it was told to go.
Deliverable(e) == e.slot = "deleteLater" => Loops <= e.loops

\* The events when the i-th is taken out: those passed over are posted anew.
After(i) == SubSeq(events, i + 1, Len(events)) \o SubSeq(events, 1, i - 1)

\* QObject::deleteLater, posted once.
DeleteLater(d, loops) ==
  events' = IF \E i \in DOMAIN events : events[i].to = d
                                        /\ events[i].slot = "deleteLater"
            THEN events ELSE Append(events, Deletion(d, loops))

Show(m) == modals' = Append(modals, m)

ReceiveRegister_AnyAnswer(d, ok) ==
  /\ Show(Modal(d, "registered")) /\ UNCHANGED <<process, class, atLogin, windows>>

ReceiveRegister(d, ok) ==
  /\ Show(Modal(d, IF ok THEN "registered" ELSE "taken"))
  /\ UNCHANGED <<process, class, atLogin, windows>>

ReceiveExtra(d, ok) ==
  /\ Show(Modal(d, IF ok THEN "submitted" ELSE "refused"))
  /\ UNCHANGED <<process, class, atLogin, windows>>

ReceiveLogin_Stays(ok) ==
  /\ IF ok THEN windows' = windows + 1 /\ UNCHANGED modals
     ELSE Show(Modal(Login, "wrong")) /\ UNCHANGED windows
  /\ UNCHANGED <<process, class, atLogin>>

\* A new main window each time, with requests of its own (see MainWindow).
ReceiveLogin(ok) ==
  /\ IF ok THEN windows' = windows + 1 /\ atLogin' = FALSE /\ UNCHANGED modals
     ELSE Show(Modal(Login, "wrong")) /\ UNCHANGED <<windows, atLogin>>
  /\ UNCHANGED <<process, class>>

\* A box is a child of its dialog, but stands on the stack of the slot that
\* shows it: it must not be destroyed with the dialog.
Destroy(d) ==
  /\ class' = [class EXCEPT ![d] = "gone"]
  /\ IF \E i \in DOMAIN modals : modals[i].of = d /\ IsBox(modals[i])
     THEN process' = "undefined" /\ UNCHANGED modals
     ELSE /\ \/ Window(d) \notin ToSet(modals) /\ UNCHANGED modals
             \/ \E i \in DOMAIN modals : /\ modals[i] = Window(d)
                                         /\ modals' = RemoveAt(modals, i)
          /\ UNCHANGED process
  /\ UNCHANGED <<atLogin, windows>>

\* Events of an object that is gone are gone too.
Deliver ==
  /\ process = "up"
  /\ \E i \in DOMAIN events :
       LET e == events[i]
       IN /\ Deliverable(e) /\ \A j \in 1 .. i - 1 : ~Deliverable(events[j])
          /\ events' = After(i)
          /\ IF e.to # Login /\ class[e.to] = "gone"
             THEN UNCHANGED <<process, class, atLogin, windows, modals>>
             ELSE \/ e.slot = "receiveData_Register" /\ ReceiveRegister(e.to, e.ok)
                  \/ e.slot = "receiveDate_Register1" /\ ReceiveExtra(e.to, e.ok)
                  \/ e.slot = "receiveData_Login" /\ ReceiveLogin(e.ok)
                  \/ e.slot = "deleteLater" /\ Destroy(e.to)
  /\ UNCHANGED <<user, requests, server, history>>

-----------------------------------------------------------------------------
(* Acts of the user *)

Top == Last(modals)

Room == Len(requests) + Len(events) < MaxInFlight

Asked(type) == Cardinality({i \in DOMAIN requests : requests[i].type = type})

NextNumber(d) == class[d] = "none" /\ \A e \in 1 .. d - 1 : class[e] # "none"

\* on_loginBtn_clicked.  With a wrong password it is as with no such name.
ClickLogin(u) ==
  /\ modals = <<>> /\ atLogin /\ Room
  /\ requests' = Append(requests, Request("Login_Request", u, ""))
  /\ relogged' = (\/ relogged \/ Asked("Login_Request") > 0
                  \/ \E i \in DOMAIN events : events[i].to = Login)
  /\ UNCHANGED <<process, dialogs, atLogin, windows, modals, events, server,
                 unoffered, hasty, strayed>>

\* on_registBtn_clicked.  Bound: two dialogs can be made, this one and another.
ClickRegist ==
  /\ modals = <<>> /\ atLogin /\ Cardinality(All("none")) >= 2
  /\ \E d \in Dialog : /\ NextNumber(d)
                       /\ class' = [class EXCEPT ![d] = "regist"]
                       /\ Show(Window(d))
  /\ strayed' = (strayed \/ All("regist") # {})
  /\ UNCHANGED <<process, user, atLogin, windows, requests, events, server,
                 unoffered, hasty, relogged>>

\* on_cancleBtn_clicked: the last window is closed.
Leave ==
  /\ modals = <<>> /\ atLogin /\ process' = "left"
  /\ UNCHANGED <<dialogs, atLogin, windows, modals, requests, events, server,
                 history>>

\* on_loginBtn_clicked or on_nextBtn_clicked with a field empty, or with two
\* passwords that differ: a box says so.
Warn(d) ==
  /\ Show(Modal(d, "warning"))
  /\ hasty' = (hasty \/ (d # Login /\ Awaits(d)))
  /\ UNCHANGED <<process, dialogs, atLogin, windows, requests, events, server,
                 unoffered, strayed, relogged>>

\* on_nextBtn_clicked.  The default profile is sent without waiting whether
\* the name is free.
ClickNext(d, u) ==
  /\ Room
  /\ user' = [user EXCEPT ![d] = u]
  /\ requests' = requests \o <<Request("Register_Request", u, ""),
                               Request("Register_Extra_Request", u, DefaultProfile)>>
  /\ filledIn' = filledIn \ {u}
  /\ hasty' = (hasty \/ \E e \in All("regist") \cup All("regist2") : Awaits(e))
  /\ strayed' = (strayed \/ Awaits(d))
  /\ UNCHANGED <<process, class, atLogin, windows, modals, events, profile,
                 accepted, rivals, unoffered, relogged>>

\* on_conBtn_clicked
ClickConfirm(d) ==
  /\ Room
  /\ requests' = Append(requests,
                        Request("Register_Extra_Request", user[d], "filled"))
  /\ filledIn' = filledIn \cup {user[d]}
  /\ hasty' = (hasty \/ \E e \in All("regist2") : Awaits(e))
  /\ UNCHANGED <<process, dialogs, atLogin, windows, modals, events, profile,
                 accepted, rivals, unoffered, strayed, relogged>>

CloseDialog_Deletes ==
  /\ modals' = Front(modals) /\ class' = [class EXCEPT ![Top.of] = "gone"]
  /\ UNCHANGED <<process, user, atLogin, windows, requests, events, server,
                 history>>

CloseDialog ==
  /\ modals' = Front(modals)
  /\ UNCHANGED <<process, dialogs, atLogin, windows, requests, events, server,
                 history>>

\* The rest of receiveData_Register, when its box has been closed.  (Bound: if
\* there is a dialog left; there is, unless one has strayed.)
MakeRegist2(d) ==
  \E e \in Dialog :
    /\ NextNumber(e)
    /\ class' = [class EXCEPT ![e] = "regist2"]
    /\ user' = [user EXCEPT ![e] = user[d]]
    /\ modals' = Append(Front(modals), Window(e))
    /\ DeleteLater(d, Loops - 1)
    /\ unoffered' = unoffered \ {user[d]}

\* A box is closed, and the slot that showed it goes on.
CloseBox ==
  /\ process = "up" /\ modals # <<>> /\ IsBox(Top)
  /\ \/ Top.text = "registered" /\ MakeRegist2(Top.of)
     \/ /\ Top.text = "submitted" /\ DeleteLater(Top.of, Loops - 1)
        /\ modals' = Front(modals)
        /\ UNCHANGED <<dialogs, unoffered>>
     \/ /\ Top.text \in {"warning", "taken", "refused", "wrong"}
        /\ modals' = Front(modals)
        /\ UNCHANGED <<dialogs, events, unoffered>>
  /\ UNCHANGED <<process, atLogin, windows, requests, server, hasty, strayed,
                 relogged>>

\* What the topmost window takes.
Input ==
  /\ process = "up"
  /\ \/ \E u \in User \cup {NoUser} : ClickLogin(u)
     \/ ClickRegist \/ Leave
     \/ modals = <<>> /\ atLogin /\ Warn(Login)
     \/ /\ modals # <<>> /\ ~IsBox(Top)
        /\ \/ CloseDialog
           \/ /\ class[Top.of] = "regist"
              /\ Warn(Top.of) \/ \E u \in User : ClickNext(Top.of, u)
           \/ class[Top.of] = "regist2" /\ ClickConfirm(Top.of)

Next == Answer \/ Others \/ Deliver \/ CloseBox \/ Input

\* Packets and events arrive, and the user closes boxes.
Fairness == WF_vars(Answer) /\ WF_vars(Deliver) /\ WF_vars(CloseBox)

Spec == Init /\ [][Next]_vars /\ Fairness

-----------------------------------------------------------------------------
(* Properties *)

Name == User \cup {NoUser}

Modals ==
  [of : Dialog, text : {"window", "warning", "taken", "registered", "submitted",
                        "refused"}]
  \cup [of : {Login}, text : {"warning", "wrong"}]

Requests ==
  [type : {"Register_Request"}, who : User, value : {""}]
  \cup [type : {"Register_Extra_Request"}, who : Name,
         value : {"default", "filled"}]
  \cup [type : {"Login_Request"}, who : Name, value : {""}]

Events ==
  [to : Dialog, slot : {"receiveData_Register", "receiveDate_Register1",
                        "deleteLater"}, ok : BOOLEAN, loops : Nat]
  \cup [to : {Login}, slot : {"receiveData_Login"}, ok : BOOLEAN, loops : Nat]

TypeOK ==
  /\ process \in {"up", "left", "undefined"}
  /\ class \in [Dialog -> {"none", "regist", "regist2", "gone"}]
  /\ user \in [Dialog -> Name]
  /\ atLogin \in BOOLEAN /\ windows \in Nat
  /\ modals \in Seq(Modals) /\ requests \in Seq(Requests)
  /\ events \in Seq(Events)
  /\ profile \in [Name -> {"none", "bare", "default", "filled"}]
  /\ accepted \subseteq User /\ unoffered \subseteq accepted
  /\ filledIn \subseteq Name /\ rivals \subseteq User
  /\ hasty \in BOOLEAN /\ strayed \in BOOLEAN /\ relogged \in BOOLEAN

\* A dialog is destroyed under a box of its own only if it was used while it
\* waited for an answer, for instance clicked twice.
EndNeedsHaste == process = "undefined" => hasty

\* A profile dialog is for a name that was registered by this client, unless
\* somebody asked again before the answer, or made a regist while an earlier
\* one, closed perhaps, still existed.
EditsTheRegistered ==
  \A d \in All("regist2") : user[d] \in accepted \/ strayed

\* When the server has handled everything, an account has the profile that was
\* submitted for it, and not the default one, although both requests may be on
\* their way at a time; unless another client has tried to register the name,
\* which gives it the default profile even if the name is taken.
ProfileIsKept ==
  requests = <<>> =>
    \A u \in (filledIn \cap accepted) \ rivals : profile[u] = "filled"

\* There is one main window at most, unless login is clicked twice.
OneMainWindow == windows <= 1 \/ relogged

\* Whoever registers is offered to fill in the profile, unless the program ends.
AcceptedIsOffered ==
  \A u \in User :
    u \in unoffered ~> u \notin unoffered \/ strayed \/ process # "up"
=============================================================================
