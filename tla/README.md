# TLA+ models of ZJU-ChatRoom

ZJU-ChatRoom is a chat program: a C++ server on boost::asio (`src/server`) that
keeps accounts, friendships and online users in a MariaDB database, and a Qt
client (`src/CHATROOM`) that talks to it over one TCP connection. This
directory holds TLA+ models of the program, TLC configurations that check them
on small instances, and proofs that TLAPS checks for all sizes.

## 1. The system

| part | state | operations | talks to |
|---|---|---|---|
| packet framing (`Message.cpp`, `on_read`, `ProcessData`; the same code in the client) | `h_cursor`, `b_cursor`, `content_length`, `chunk` | `do_read`, `on_read`, `Process`, `write_header`, `write_body`, `Clear` | gets pieces of the TCP stream, gives packets to `Handler` |
| server write queue (`tcp_connection_base`, `Server.cpp:21-77`) | `bq`, the writes under way | `send`, `do_write`, `on_write` | called by `Handler` and `check_alive`; completions from asio |
| client write queue (`connection_base.cpp`) | `bq` | the same, but it pops before it writes | called by the GUI thread and by the io thread |
| register and keep-alive (`Server`) | `conn_list`, `test_conn_map`, the timer, table `OnlineUser` | `handle_accept`, `RemoveClient`, `check_alive`, `remove_dead`, `RespondAlive`, constructor, destructor | sockets, timer, database |
| request handlers (`Server::Handler`) | tables `User`, `Relation`, `application`, `OnlineUser` | one `case` for each request | the write queues of the sender and of others |
| database wrapper (`Database.cpp`) | a connection, the last result | `query`, `insert`, `update`, `del` | MariaDB, one autocommitted statement at a time |
| client dispatch (`client.cpp`) | the connection | `Handler`, `handle_*`, `send` | turns packets into queued Qt signals |
| main window (`mainwindow.cpp`) | `friendlist`, `applicationlist`, `chatlist`, list widgets and pages | button slots and `receiveData_*` | client dispatch |
| login and registration dialogs (`login.cpp`, `regist.cpp`, `regist2.cpp`) | which exist, which are shown, member `user` of each, message boxes | buttons, `receiveData_Login`, `receiveData_Register`, `receiveDate_Register1`, `deleteLater` | client dispatch; the login dialog makes the main window |

How they interact. A slot of the client's GUI thread calls `Client::send`, which
fills a packet and queues its blocks. The server's one thread runs
`io_context::run`: it completes reads, cuts packets out of them, and runs
`Handler` to its end for each; `Handler` changes the tables and calls `send` on
the sender's connection and on others found through `OnlineUser`. The client's
io thread does the same at its end and emits signals that are queued for the
GUI thread. Every 60 seconds `check_alive` pings all connections and 5 seconds
later `remove_dead` drops the ones that have not answered.

What makes it hard:

- TCP cuts the stream anywhere; `content_length` starts with whatever was in
  memory; the client reads on at end of file.
- `send` starts a write without asking whether one is under way, `on_write` pops
  the front without asking whether there is one.
- iterators of a vector are kept for five seconds, while `erase` and
  `push_back` move what they point at; `remove_dead` erases what it stands on.
- completions are bound to raw pointers, and `remote_endpoint` throws for a
  connection that was reset, which ends the server.
- rows of `OnlineUser` name endpoints and outlive the connection in one case;
  some handlers use row 0 of an answer that may be empty.
- two tables' rows change by separate autocommitted statements, and the process
  may be killed, or the connection to the database lost, between two; nothing
  connects again, and a query that fails returns rows nobody has written.
- in the client, the answers to requests are applied to whatever is selected
  when they arrive.
- a message box runs an event loop inside the slot that shows it, `deleteLater`
  waits for the loop it was called in, a dialog that is closed goes on receiving
  signals, and each signal reaches every dialog of its class.

What makes each part correct: framing - packets come out whole, once, in order,
and in the end; write queue - the bytes of each packet go out once, in order,
from live memory, and in the end; register - the list is exactly the live
connections, silent ones go and others stay, rows do not outlive connections;
handlers - friendship is mutual, one application to answer, notices reach the
right user, both sides hear of a change; client - lists agree with what the
server last said, pages agree with `chatlist`; dialogs - a profile is filled in
for the account that was registered and kept, nothing is destroyed while a slot
of it runs, and one login makes one main window.

## 2. The modules

| module | models | EXTENDS / INSTANCE |
|---|---|---|
| `MessageChannel` | what one direction of a connection promises (abstract) | |
| `Framing` | the read side of a connection, both ends | instantiates `MessageChannel` |
| `FramingProofs` | proofs about `Framing` | `Framing` |
| `WriteQueue` | the write side of a server connection | |
| `WriteQueueProofs` | proofs about `WriteQueue` | `WriteQueue` |
| `Registry` | `conn_list`, the keep-alive, `OnlineUser` as endpoints | |
| `RegistryProofs` | proofs about `Registry` | `Registry`, `SequenceFacts` |
| `ChatServer` | `Handler` and the tables | |
| `ChatServerProofs` | proofs about `ChatServer` | `ChatServer` |
| `ClientWriteQueue` | the write side of the client's connection, two threads | |
| `ClientWriteQueueProofs` | proofs about `ClientWriteQueue` | `ClientWriteQueue` |
| `MainWindow` | the main window's lists, selections and pages, and what the client's dispatch makes of answers | |
| `MainWindowProofs` | proofs about `MainWindow` | `MainWindow`, `SequenceFacts` |
| `Dialogs` | the login, registration and profile dialogs | |
| `DialogsProofs` | proofs about `Dialogs` | `Dialogs`, `SequenceFacts` |
| `SequenceFacts` | lemmas about sequences, and counting in queues, for three of the proof modules | |
| `MCFraming`, `MCWriteQueue`, `MCRegistry`, `MCChatServer`, `MCClientWriteQueue`, `MCMainWindow`, `MCDialogs` | the small instances | the module they are named for |

Definitions keep the source's names. An operator `Name_Variant` that stands
before `Name` is a plausible bug in the code that `Name` translates; one of the
properties below must fail when it takes `Name`'s place. No behaviour uses it.

### Framing

A packet is identified by the stream position at which its header starts, so
bytes are positions and the only value that counts is the length field:
`DecodedLength` reads it off the header, and gives anything in `Indeterminate`
if the reader is out of step. `OnRead(k)` is `on_read` with `k` bytes;
`ProcessData` is one level of the recursion of `ProcessData`, with the call of
`Process`, which either completes a packet (`Complete`: `Handler`, `Clear`) or
keeps it for the next chunk (`Incomplete`). `OnEof` is `on_read` at end of file,
which differs between server (stop) and client (read again).

`MessageChannel` is the abstract specification: `sent`, `handled`, `closed`;
packets come out once, in order, and in the end if nobody closes. The refinement
mapping is the identity on these three variables; everything else is hidden.

### WriteQueue

`bq` holds blocks that know their packet, their index in it, how many bytes
`send` filled (`fill`), how many will be written (`size`) and which allocation
they have (`chunk`, counted up when `resize` moves it). `ops` are the writes
under way, `wire` what has gone out. `Send` is all of `send`, including the
`resize` of the front of the queue and the call of `do_write`; `OnWrite` is all
of `on_write`. `Transmit` stands for asio and the kernel, and reads the chunk
when it runs, dangling or not. `overlaps` (history) counts the sends that found
blocks queued.

### Registry

`conn_list` is a sequence of endpoints, and an iterator is a position in it;
`moved` says that the vector has reallocated since the iterators were taken, in
which case they are addresses in freed memory. A read that has completed is in
`read[c]` until `OnRead(c)` dispatches it; the connection may have been
destroyed before. `RemoveDead` erases in order of address, which is the map's
order: an erasure moves what stands behind it, so that the next iterator is on
another element. `Survivors` says in closed form which positions are left, so
that it can be proved about; `MCRegistry` compares it with the loop, step by
step, for vectors of up to four elements. Erasing the element that a range-for
stands on is undefined in C++, and the loop may go on all the same: `RemoveDead`
has both outcomes whenever there is something to erase.

`writing` are the connections with a write under way or completed and not
dispatched. Completions of reads and writes are bound to the connection by a raw
pointer, so that `OnRead` and `OnWrite` for a connection that has been destroyed are
undefined behaviour, and an endpoint comes back only when they have been
dispatched. Writes are counted as one, since it is the last completion that
matters; `WriteQueue` has them one by one.

`database` may be lost at any time (`LoseDatabase`). `Deleted` is a delete, which
leaves the rows as they were if it fails, and nobody notices. `Answers` are the
endpoints that row 0 of a query may name: those in `rows`, or, without a database,
any, since then nobody has written the answer; a row that is not there ends the
server (`ReadNoRow`). `Exit` is an exception that leaves `main` (`~Server` then
deletes the rows, if it can), `Undefined` the undefined behaviour, and `Restart` a
new server, with a database or without one. Requests are taken by what they do to
the register: `Pong`, `Login`, and those that send to others (`Notify`).
`silent`, `steady` and `evicted` are histories: who was pinged in the window and has
not answered, whether nobody left and the vector stayed, and whose last
connection `remove_dead` dropped.

### ChatServer

The tables are sets and bags of rows; each request is one action, since a
handler runs to its end on one thread; `sends` holds what it sent to whom in
what order. `Notices` is the piece of code that looks the other user up in
`OnlineUser`, takes row 0 of the answer (any of the rows) and the connection at
that endpoint. `CutDelete`, `CutAnswer` and `CutAgree` are handlers of which only the
first statements have run when the server is killed (`KillHalfway`) or when the
connection to the database is lost (`Lose`, with `LoginUnrecorded` and
`MemberInterrupted` for the handler this happens in). From then on handlers run
with statements that all fail (`GuestUnserved`, `MemberUnserved`): a query that
failed gives no rows, or row 0 of an answer nobody has written, which is
undefined behaviour (`NoRows`). `DB_init` is not checked, so a server may start
without a database too, and then leaves the rows of the one before (`Restart`).
`cut` (history) are the pairs of users whose request was cut short. Connections come from
`Connect`, `RemoveClient` and `Evict`, which `Registry` models in detail. `Guest`
and `Member` say which requests a client can send: those of the dialogs at any
time, those of the main window of a user who has logged in, about friends,
applicants and chats that it has been shown, perhaps long ago (`befriended`,
`applied`, `chats`).

### ClientWriteQueue

The client's `do_write` pops a block before it writes it, so that a write never
meets the block of another, and a send while writes are under way is harmless as
long as one thread is in the queue at a time. Two are: slots of the windows
call `send` on the GUI thread, and the io thread runs `on_write` and answers
`CheckAlive`. The queue is therefore modelled by the two cursors of its deque,
and each of `push`, `front`, `pop` and `size` by the loads and stores they
consist of: `Push` loads `finish` and `Store` stores the pointer and the new
`finish`; `Take` loads `start`, and `Pop` stores it, loaded anew or not, as the
build likes. `resized` says for which packet `resize` was called on a block.
`raced` (history) says whether both threads have been in the queue at a time.
`front` of an empty queue ends the model (`Running`).

### MainWindow

`friendlist`, `applicationlist` and `chatlist` are the code's vectors, together
with the list widgets that show the same; `row`, `appRow` and `chatRow` are the
selected rows, `pages` the stack of pages above the first, by the user a page
was added for; `acting` and `answering` are the visible buttons. A slot of a
button appends to `toServer` (`Client::send`), a slot of a signal takes the head
of `signals`. `Answer` is the server for the next request: it changes what it
knows (`relation`, `application`) and appends the signals that the client's
`Handler` makes of the answer; `Others` are the requests of other clients that
concern this user. The server tells of a change at the endpoint in row 0 of the
user's rows in `OnlineUser`, which is this window's, or that of another client of
the same user, or one left behind: `FriendsNotice` and `PeerApplies` have a case in
which this window is not told (with "elsewhere" in `Parts`). A second client of the user
answers applications (`AnsweredElsewhere`) and deletes friends, which this window
sees as a deletion by the other side without a notice; and this window may get a
notice meant for a user who was at its endpoint before (`Strays`). `untold` and
`appsUntold` (histories) say whether something has changed in this way since the
server last sent the list in question. `relation` counts this user's rows for each other user, and a list of
friends has them in any order. The question of `on_deleteBtn_clicked` runs an event loop of its own,
so `Delete` and `AnswerQuestion` are two actions with signals between them. A
row that is out of range where the code indexes or dereferences ends the
process (`Ends`), and `Relaunch` starts another. `asked`, `crossed` and `reopened`
are histories: which friend was selected when the question came up, whether a
friend list was under way when the next was asked for, whether an open chat has
been opened again. `Parts` says what the user does beside looking at friends; it
keeps runs small.
`appsCrossed` is `crossed` for the list of applications, and `several` says
whether the last answer named more than one. `OpenFile` is
`on_open_file_clicked`, which uses the selected chat without asking for one.

### Dialogs

`class` says which dialogs exist, numbered as they are made, `modals` which
windows are open, the one that takes the input last. A box belongs to a dialog
(`of`); it is open as long as the slot that shows it has not gone on, so that
the number of boxes is the number of nested event loops (`Loops`). `Deliver`
takes the first event that may be delivered: `deleteLater` is passed over in an
event loop deeper than the one it was called in. `CloseBox` is what the slot
does when its box has been closed: it makes the profile dialog (`MakeRegist2`) or
asks for the dialog to be destroyed. `CloseDialog` only hides: the dialog stays in
`class` and goes on receiving what `Emit` sends to all of its class. `Answer` is
the server for the next request and the signal the client makes of the answer,
`Others` another client that tries to register the same name. `unoffered`,
`filledIn`, `rivals`, `hasty`, `strayed` and `relogged` are histories that the
properties refer to: what the user has done without waiting for an answer.

## 3. The runs

| run | instance | what it shows |
|---|---|---|
| `framing_server` | header 3, chunk 4, bodies of 1 and 6 bytes, 3 packets | `PacketsIntact`, `ChunkConsumed`, and that Framing implements MessageChannel, liveness included |
| `framing_client` | header 2, chunk 3, bodies of 1 and 4, 2 packets, any start of `content_length` | `PacketsIntactOnceStarted`: the start may be wrong, but a right first packet is followed by right ones, end-of-file loop included |
| `write_queue` | header 2, chunk 4, contents of 1, 2 and 8 bytes, 3 sends | how many writes are under way (`SurplusWrites`), that sends which do not overlap go out whole, in order, in the sizes `send` gives and in the end, that overlapping sends are fatal |
| `write_queue_short` | same | violated: the front block is cut short, not the last one |
| `registry` | 2 endpoints that come back, 3 accepts, a database that is lost or missing | `ListIsExact`, `StaleRowsAreEvicted`, `EvictsTheSilent`, `DeadAreDropped`, and what it takes for behaviour to be undefined (`UndefinedNeedsRace`) |
| `chat_server` | 2 users, 2 endpoints, 2 copies of a row, kills and a lost database at every statement | `FriendsAreMutual`, `OneApplication`, `SentToTheUser`, `FriendsAreTold` |
| `chat_server_checked` | same | violated: row 0 of an empty answer is read |
| `client_queue` | packets of 1 and 2 blocks; 3 of them until the threads race, then 2 | order, no resize under a write, own sizes up to the first packet of several blocks, and delivery, if the threads take turns; if not, `EndNeedsRace`, and `NothingStranded` even then |
| `main_window_lists` | 2 other users, applications, notices that go elsewhere, a second client of the user | the list has the friends the server has, and nobody else, when all is quiet (`QuietListHasFriends`), unless something changed that this window was not told of; each once for each row, unless two refreshes crossed (`ExactUnlessCrossed`); and the applications there are to answer (`ApplicationsAreShown`) |
| `main_window_chats` | 2 other users, chats and deletions, 1 friendship at a time | `PagesMatchChats`, `DeletesTheOneAsked` |
| `main_window_asked` | same, 2 friendships at a time | violated: a chat is opened with a friend who was not asked about |
| `dialogs` | 2 names, one of which others register too; 3 dialogs, 2 messages in flight | `EndNeedsHaste`, `EditsTheRegistered`, `ProfileIsKept`, `OneMainWindow`, and that whoever registers is offered a profile (`AcceptedIsOffered`) |

Why the bounds are enough. *Framing*: with a header of 3 and chunks of 4 every
cut happens - a header over two or three chunks, a chunk with the end of one
packet and the start of the next, a body over three chunks - and three packets
give one in the middle; the proofs cover all sizes. *WriteQueue*: contents of 1
and 2 bytes are a short and an exactly full single block, 8 bytes are three blocks
with a short last one; three sends let one overlap be followed by another and by
none. *Registry*: two connections are the fewest for which an erasure moves
an iterator on to another connection; three accepts let an endpoint come back
and the vector reallocate with iterators out, at the second and at the third. The
bound on accepts is over the server's lives. For any number of connections and
accepts the safety properties are proved. *ChatServer*: two
users make all pairs; two endpoints let one pass from a user to the other and
let one user be logged in twice; two copies of a row are what a double answer
makes. The state graph is finite apart from `MaxRows`. In that run the variable
`sends`, which no action reads, is left out of the fingerprint (`MCView`), and
the properties about it are action properties, which TLC evaluates on every
step it generates. *ClientWriteQueue*: two packets are enough for the two pushes,
the two pops, and a push and a pop to meet; three, for a send to find two writes
under way (`MCFewWhenRaced` is the constraint). *MainWindow*: two other users make
the order of lists and the selected row matter. `MaxInFlight = 2` lets a refresh
find another on its way; an answer may still bring two signals. `MaxRows` bounds
the user's friendships at a time: two for the order of a list; with one, the
friend of a row still changes, and chats with both users are open at a time.
`MaxPages = 2` leaves pages for both, and 3 one for a chat opened again. Lists that
cross add up, so in `main_window_lists` lists of more than `MaxNames = 3` names are
checked when they come about and not followed further (`FewNames`).
*Dialogs*: three dialogs are a registration with its profile dialog and one more,
or two registrations that take each other's answers and a profile dialog for the
wrong one; two messages in flight let the user click again before the answer.

`CHECK_DEADLOCK FALSE` stands where the program or the model really stops: after
end of file, after undefined behaviour, when the user has left (`Leave`), and
when the bound on sends is reached.
The other runs check it.

Fairness. *Framing*: `WF(Read)` and `WF(ProcessData)`: io_context::run dispatches a
ready read and a handler runs to its end. *WriteQueue*: `WF(Transmit)`, the
kernel takes the bytes of a connected socket, and `WF(OnWrite)`, a completion is
dispatched. *Registry*: dispatch of completed reads, failing reads, and the two
timer handlers. *ClientWriteQueue*: the two threads run (`WF(Step(t))` for each),
and the same as in WriteQueue. *Dialogs*: `WF(Answer)`, the server answers;
`WF(Deliver)`, an event loop that runs delivers what it can; and `WF(CloseBox)`,
the user closes a box, since nothing else can be done while it is open.
Apart from that nobody is assumed to send, answer, leave,
accept, click or restart. *MainWindow* states no fairness: what is checked of it
is what holds once all is quiet, and symmetry, which liveness would rule out, is
what keeps its runs small.

## 4. Where the code departs from what it says

Three runs are expected to be violated; each checks what a comment says.

1. `send` resizes the front of the queue where the last block is meant
   (`Server.cpp:52-56`): a packet of several blocks goes out with a short first
   block and a padded last one, and a packet sent while another is queued
   changes that one's size (`write_queue_short`).
2. `PrivateMessage` and `AgreeApplication` read row 0 of an answer that may be
   empty (`Server.cpp:360`, `484`), also when CheckOnline has just said yes
   (`chat_server_checked`).
3. `receiveData_checkonline` opens the chat with whoever is selected when the
   answer comes (`mainwindow.cpp:392`), not with the friend who was asked about
   (`main_window_asked`).

Other departures are in the models as the code has them, and the properties that
hold say under which condition they do no harm.

- `Message_Packet()` leaves `content_length` unset and `Process` uses it before
  the header is complete (`Message.hpp:48`, `Message.cpp:23`): a 0 completes a
  packet before its header (constant `Indeterminate`; `PacketsIntact` needs
  0 not to be in it).
- The server's `send` starts a write whether or not one is under way
  (`Server.cpp:57`): blocks are written twice, others never, and in the end
  `front` of an empty queue is used (`OverlapIsFatal`). Overlaps do happen: the
  handlers of requests that come in a row (`mainwindow.cpp:59-60`) answer in a
  row, and `AddFriend` answers while a ping may be under way.
- A query that fails returns `return_rows`, which only a query that succeeds has
  set (`Database.cpp:51-58`), and the result of `DB_init` is dropped
  (`Server.cpp:145`): a server without a database answers as if there were no rows,
  or reads row 0 of an answer that is not there (`NoRows`).
- `remove_dead` leaves the row in `OnlineUser` (`Server.cpp:186`), so that
  CheckOnline goes on saying yes. `StaleRowsAreEvicted` says that no other rows are
  stale as long as the database is there. Without one, deletes fail unnoticed
  (`Database.cpp:79`), also those of the constructor and the destructor; a later
  server with a database deletes what has been left.
- `remove_dead` erases from the map that it iterates over and uses the erased key
  (`Server.cpp:183-186`). In a window in which nobody left and the vector stayed,
  this takes a connection that has not answered (`UndefinedNeedsRace`).
- Completions are bound to `this` (`Server.cpp:65`, `81`), and both
  `RemoveClient` and `remove_dead` may destroy a connection with a write under way:
  `on_write` then uses a queue that is gone. `UndefinedNeedsRace` says that this,
  a read queued in the same way, and `remove_dead`'s erasures are all that makes
  the register's behaviour undefined.
- Notices go to row 0 of a user's rows (`Server.cpp:446`, `484`, and `398` for
  applications). A user with two clients, or with a row left behind, is told at
  one endpoint only, and a window that is not told goes on showing a wrong list
  with nothing on its way. `QuietListHasFriends`, `ExactUnlessCrossed` and
  `ApplicationsAreShown` hold unless this has happened since the last list
  (`untold`, `appsUntold`).
- Nothing guards the client's queue (`connection_base.cpp:32-59`): two threads in
  it at a time lose a block, write one twice or use the front of an empty queue.
  The properties of `client_queue` say what holds until then, and that nothing
  is left in the queue for good.
- As in the server, the client's `send` resizes the front of the queue
  (`connection_base.cpp:46-49`), so a packet of several blocks goes out with a wrong
  first and last block, and may give the next one a wrong size. For packets of
  one block the sizes are right until the first of several (`SinglesIntactUnlessRaced`).
- Two refreshes of the friend list that cross empty it twice and add both
  answers (`mainwindow.cpp:615`): friends are shown twice (`ExactUnlessCrossed`;
  `QuietListHasFriends` holds all the same).
- `receiveData_checkonline` adds a page also if the chat is open
  (`mainwindow.cpp:389`), and from then on chats show each other's pages
  (`PagesMatchChats` until `reopened`).
- `handle_application` reads the first applicant each time (`client.cpp:244`), so
  that of two applications the first is shown twice (`ApplicationSignals`);
  `ApplicationsAreShown` says what the list is worth anyway: it is not longer than
  it should be, and right if there has been one application at a time.
- `receiveData_newfriend` removes the application selected by then
  (`mainwindow.cpp:573`), not the one that was answered; with one application at a
  time the refreshes that follow put that right (`ApplicationsAreShown`). None selected
  ends the process (`ReceiveNewFriend`): it is enough that an application arrives
  while an answer is on its way, since that refreshes the list. So do the buttons
  that stay visible after a refresh has taken the selection away (`Chat`,
  `AnswerQuestion`, `Accept`, `Reject`), the button for files with no chat selected
  (`OpenFile`), and the echo of a message to somebody whose chat has been closed
  (`ReceivePrivate`).
- `on_nextBtn_clicked` sends the default profile without waiting to hear whether the
  name is free (`regist.cpp:67`), and the server takes the profile of any account
  (`RegisterExtra`): whoever tries a name that is taken resets its profile.
  `ProfileIsKept` says that this is the only way to lose one.
- A profile dialog takes the answer to the automatic request for one to its own, and
  after two clicks the second answer destroys the dialog under the box of the first
  (`regist2.cpp:69`; `EndNeedsHaste`). A registration dialog that has been closed
  still takes the answer of the one after it, and makes a profile dialog for its own
  name (`EditsTheRegistered`). Login clicked twice makes two main windows
  (`login.cpp:71`; `OneMainWindow`).

## 5. The proofs

All proofs are checked by TLAPS with no step left out, for all values of the
constants that satisfy the modules' assumptions.

**Framing** (`FramingProofs`). `CursorInv` is the inductive invariant for
everything that does not depend on `content_length`: the cursors stay within
chunk, header and body, and outside of `ProcessData` the chunk is consumed. From
it follow `TypeCorrect`, `CursorsCorrect` and `ChunkAlwaysConsumed`. For
`PacketsIntact` two more parts are needed: `Layout`, packets lie end to end in
the stream, so that a position is the start of at most one; and `Aligned`, the
reader is in step - the packet being read starts where the last one ended,
and a length in force is that of this packet. `Aligned` is inductive if 0 is not
a possible start of `content_length` (`PacketsAlwaysIntact`); without that,
"wrong for good or aligned" is (`IntactOnceStarted`). `FramingRefinesChannel`
shows under the same assumption that each step is a step of `MessageChannel`
or a stutter.

**WriteQueue** (`WriteQueueProofs`). The inductive invariant is the type
invariant, with the bounds on `index` that make each block's `fill` positive,
together with `SurplusWrites` and `CrashNeedsOverlap`, which need each other: a
completion with an empty queue is possible only if there is a surplus write.
The arithmetic of cutting a packet into blocks is in the lemmas `Division`,
`BlockInPacket` and `FillFits`. `IntactWithoutOverlap` needs `InStep` (`IntactIfNoOverlap`):
without overlaps the queue is what is left of the latest packet (`Queued`), the
only write is that of the block in front (`WritesFront`), and what went out ends
where the queue begins, or with the block in front if its completion is still to
come (`Position`), so that the next block that goes out follows the last one. The
sizes are what the `resize` of `send` makes of a packet when nothing else is in the
queue (`WireSize`): the first block gets the length to which the last one is
filled, the others stay full. So packets of one block go out exactly; that longer
ones do not is what `write_queue_short` shows.

**Registry** (`RegistryProofs`). `ListInv` is `ListIsExact` put so that it is
inductive with the types: an endpoint is in the list once if it has a socket and
not at all otherwise, and the iterators are positions within the storage. Taking
elements out by position keeps that whatever the positions were
(`InOrderProperties`, `RemoveAtElements`), so it does not matter whether they had
shifted. From it come `TypeCorrect` and `ListCorrect`. `RowsCorrect` is inductive
with it: while the database is there, rows go with their connections unless
`remove_dead` drops one, which `evicted` then has; without it nothing is claimed,
and it comes back only with a server whose first delete works. What the
iterators stand for holds only within
a window in which nobody leaves and the vector stays: `WindowInv` says that the keys
are then exactly the unanswered (`KeysCorrect`), that there are none outside of
windows, and that who was pinged is still in the list. A step of `remove_dead`
that starts in such a state with one key erases that one and shifts none that
counts (`SingleErasure`), which gives `EvictsTheSilent` (`EvictionCorrect`).
`UndefinedNeedsRace` (`RaceCorrect`) goes over the three places where behaviour becomes
undefined, and has from `WindowInv` that what `remove_dead` has to erase in such a
window is somebody's silence. All this is for any set of endpoints and any number
of accepts.

**ChatServer** (`ChatServerProofs`). The inductive invariant is the conjunction of
the type invariant, `FriendsAreMutual`, `OneApplication` and `RowsHaveLogins`: a
row of `OnlineUser` names a connection on which its user has logged in, or an
endpoint that was evicted. The first three are theorems as they stand
(`FriendsStayMutual` also needs that the two inserts of an answered application
are of different rows, which is why nobody can apply to himself in the client; `PairFacts`, `InsertingBoth`, `DeletingBoth` and
`ChangingOne` say what one and two statements do to a pair of rows, so that a
handler that is cut short, by a kill or for want of the database, changes only a
pair that `cut` has);
`RowsHaveLogins` gives the action property `SentToTheUser`
(`PersonalPacketsArriveRight`), through the lemma that a notice looked up in
`OnlineUser` goes to one of the user's rows. `FriendsAreTold` needs the converse
(`ChangesAreTold`): while the database is there, who is logged in on a connection has
the row that says so (`LoginsHaveRows`). The side that asks then has a row for the
connection it asked from, and the answer counts as its notice; the other side's
notice goes out because its rows name connections. An answer to an application
whose applicant has no row ends the server, so the property need not say who
is told then.

**ClientWriteQueue** (`ClientWriteQueueProofs`). `TypeInv` is the type invariant
with `Loaded`: what a thread has loaded of a cursor is a place in the deque.
`Turns` says that as long as the threads have taken turns at most one is in the
queue and what it has loaded is still current; it is inductive with `TypeInv`
and implies `EndNeedsRace` (`FrontNeedsRace`). `InOrder` extends
`InOrderUnlessRaced` from idle states to those in the middle of a `do_write`,
where the block that has been popped is on its way (`BlocksInOrder`).
`NothingStranded` is inductive with the types alone, races included
(`NoneStranded`). `SinglesIntactUnlessRaced` (`SinglesKeepTheirSize`) needs four facts
about threads that have taken turns, for packets of any sizes. `Once`: all slots
of the deque hold different blocks, so that what has been popped is not found in
the queue again. So the block that `resize` finds in front is in no write, and
every write under way keeps the size it was started with (`Steady`).
`Singly`: as long as all packets have had one block, a thread has the only block of the
queue between its push and its pop, so that the one in front is its own.
`Behind`: once a packet of several blocks has come, no block of the ones before it is
left in the queue, so that what goes wrong with it does not reach them. Together
they give each write of those packets its own size (`OwnSizes`), although there may
be any number of writes.

**MainWindow** (`MainWindowProofs`). `TypeInv` is the type invariant with "no more
chats than pages", without which a chat could be closed that has no page to take
away; with it `PagesMatchChats` is inductive (`PagesStayWithChats`), by the facts
about taking an element out of a list (`RemoveAtProperties`, `InjectiveLists`).
`QuietListHasFriends` is not inductive: it says nothing while messages are on
their way. `ListInv` says what holds meanwhile. A friend in a signal that no
change follows is a friend; while no change is on its way, only friends are
shown; and if no refresh is on its way either, each friend is shown or
coming. A change of `relation` comes with a signal whose slot refreshes, or makes
`untold` true, which is why `untold \/ Listed` is inductive; a list that the server
sends when no other is on its way starts anew. When the queues are empty it is the
property (`QuietListIsRight`). The bounds play no part in it.

How often each friend is shown is a matter of counting (`ExactUnlessCrossed`,
`ListIsExact`). `Hits(s, S)` is how many elements of the queue `s` are in `S`;
`SequenceFacts` has what appending, joining and taking the first do to it
(`HitsQueue`, `HitsConcat`). `ExactInv` says of a window whose last refresh crossed no
list: either the list has been asked for once and nothing of it is shown or
coming (`ListAsked`), or it has not been asked for, and then, unless a change is
announced or was made without a notice, what is shown of a friend and what comes of it add up to the rows in
`Relation` (`ListHere`). A refresh that crosses nothing leads to the first, its
answer to the second.

`ApplicationsAreShown` (`ApplicationsAreRight`) has the same two cases in `AppInv`, the
first with "asked for after every answer to an application", and a third,
`AppsElsewhere`, for applications that changed without a notice, until the next list. The second bounds the
list (`Counted`): what is shown, comes, or has been rejected is at most what the
server has, and what it has made friends of without the window's knowing
(`newfriend` on its way). Since an application that was accepted stays on the list
until `newfriend` comes, and one that was rejected goes at once although the server
still has it, neither side can be counted alone. If the last answer had one
application at most, `Single` adds that whatever is shown, comes or is being
answered is that one, and that it is not lost on the way; this is what puts right
that `receiveData_newfriend` takes off whatever is selected. Both are stated with
the list, the table and the queues as parameters, so that each step is a lemma
about them (`ShowsOne`, `TakesOne`, `AnswersShown`, `AnswerMade`, `SendsApps`) and
`SameQueues` covers every step that is not about applications.

`DeletesTheOneAsked` follows from `AskedInv` (`DeletesWhoWasAsked`): while the question is
on the screen the friend in the selected row, if there is one, is the one that
was selected when it came up. A refresh empties the list and moves the selection
to the user's own row or to none, and additions come behind the selected row.

**Dialogs** (`DialogsProofs`). What a dialog waits for is a request, then an event,
then a box. `AtMostOne` says that there is one of the three at most and one of its
kind; the lemmas `OneAnswer`, `OneDeliver`, `OneCloseBox`, `OneShown` and `OneAsked` say
that each kind of step keeps it, by facts about how many elements of a queue lie
in a set (`LeftOverFacts`, `AppendFacts`, `ConcatFacts`). `Patient` applies it to every
dialog and adds that between two profiles on their way there is a registration
(`Separated`): a new profile dialog is made for an answer, so that no other
registration is under way, and finds one profile request at most. It gives
`EndNeedsHaste` (`HasteCorrect`), since a dialog that is told to go then has no box.
`Orderly` applies `AtMostOne` to the boxes that show answers, and adds that there is
one registration dialog at most and that the request on its way, the answer and
the box are about its `user` (`EditorCorrect`). Both need `KindInv`: a dialog that has
not been made gets nothing, and only a registration dialog shows that a name was
registered. `LoginInv` says that a login is on its way at most once and only before
there is a main window (`OneWindow`). `KeptInv` is about the requests alone: of those
about a name that was filled in, the last on its way fills it in; without any, the
row has the profile (`ProfileCorrect`). The bounds play no part in these proofs.

Every safety invariant and every action property that a passing run checks is the
subject of a theorem. Only model-checked: liveness (`ImplementsChannel`'s fairness
part, `DrainsWithoutOverlap`, `OverlapIsFatal`, `DeadAreDropped`, `DrainsUnlessRaced`,
`AcceptedIsOffered`), which is out of the proof system's reach, and the three
properties that are violated.

## 6. What is not modelled

The values of bytes and strings, SQL quoting and widths of fields. A single
statement that the database refuses while it accepts others, since its tables'
definitions, which would say what it may refuse, are not in the repository; the
profile update in `Dialogs` may be refused. What a deque does at the end of one
of its arrays, and writes of the client that fail or of which the kernel takes a
part. The public chat and the texts of private ones; which page of the stack is
in view; boxes of the main window that only inform. `ChangeState_Request`, which
the client sends and the server's `Handler` has no case for, so that nobody is
ever `STEALTH`. `chat_record`, which shows a calendar, and the other windows that
only show something. In `Dialogs`, a wrong password is treated as an unknown name,
and the main windows are counted, not followed (that is `MainWindow`). In
`MainWindow` the server is seen from one window: which row is row 0 is not
followed but chosen at each notice, so the module has more behaviours than
`ChatServer` with one client to each user. There the server keeps running and has
its database; what it does without one is in `ChatServer` and `Registry`. The
properties of the module's lists are about a window that was told of the last
change, and say so (`untold`, `appsUntold`). Several properties likewise excuse
what goes wrong in the code as it is, by a history (`raced`, `reopened`, `hasty`,
`strayed`, `relogged`, `cut`); what they show is that there is no other way to it. The empty
error handlers, the byte-level test client, layout and project files.

## 7. The plan

Done: `MessageChannel`, `Framing`, `WriteQueue`, `Registry`, `ChatServer` with
the loss of its database, `ClientWriteQueue`, `MainWindow`, `Dialogs`, and the
proofs of section 5.

What is left:

1. `Chat`: `ChatServer` and two main windows' friend lists, joined by
   `MessageChannel`s; when all is quiet each list shows what `Relation` says. The
   server of `MainWindow` becomes the one of `ChatServer`.
2. `Connection`: `WriteQueue` into `Framing`; without overlaps and with one block per
   packet the two implement `MessageChannel`.
3. Proofs: the refinement of `Connection`; the safety parts of the liveness
   properties, such as what a measure of the queues loses with each step.
