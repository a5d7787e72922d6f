------------------------------ MODULE Registry ------------------------------
(***************************************************************************)
(* The server's register of connections and its keep-alive protocol.       *)
(*                                                                         *)
(* conn_list is a vector of connections.  Every Check_Interval seconds     *)
(* check_alive pings all of them and enters, for each, an iterator of the  *)
(* vector in test_conn_map; a pong takes the sender's iterator out; five   *)
(* seconds later remove_dead erases what the map still holds.  Between the *)
(* two (the window) connections come and go.  An iterator is an address: a *)
(* position in the vector's storage, whatever stands there.                *)
(*                                                                         *)
(* All handlers run on the one thread of io_context.  A read that has      *)
(* completed stays queued until its handler is dispatched, and the timer's *)
(* handler may be dispatched before it.  The same goes for writes, and the *)
(* handlers of both are bound to the connection by a raw pointer.          *)
(*                                                                         *)
(* The connection to the database may be lost at any time.  Nothing checks *)
(* that, and from then on statements fail and queries answer with rows     *)
(* that nobody has written.  How queued blocks are written, one after the  *)
(* other, is in WriteQueue, what the tables hold in ChatServer.            *)
(***************************************************************************)
EXTENDS Integers, SequencesExt

CONSTANTS
  Conn,            \* endpoints (address and port) that clients connect from
  MaxAccepts       \* bound: connections accepted in the server's life

ASSUME RegistryAssumption == MaxAccepts \in Nat

VARIABLES
  state,           \* "running", "exited" by an exception, "query" if a handler
                   \* has read a row that is not there, "undefined" otherwise
  database,        \* the connection to it: "up" or "lost"
  conn_list,       \* the vector
  capacity,        \* and the room it has before it reallocates
  test_conn_map,   \* positions in the vector of the iterators that are keys
  moved,           \* has the vector reallocated since they were entered
  timer,           \* the handler the timer will call
  sock,            \* socket of each endpoint: "none", "open", closed ("eof")
                   \* or "reset" by the peer
  read,            \* "none", "pending", or the completion that is queued: a
                   \* request, "eof" or "reset"
  writing,         \* endpoints with a write that has not been completed, or
                   \* whose completion has not been dispatched
  asked,           \* endpoints with a ping to answer
  rows,            \* endpoints in table OnlineUser
  accepts,         \* connections accepted
  silent,          \* connections still there that were pinged in this window and
                   \* have not answered (history)
  steady,          \* nobody left nor has the vector moved in it (history)
  evicted          \* endpoints whose last connection remove_dead has dropped
                   \* (history)

vector  == <<conn_list, capacity, test_conn_map, moved>>
net     == <<sock, read, asked>>
tables  == <<database, rows>>
history == <<silent, steady, evicted>>
vars    == <<state, vector, timer, net, writing, tables, accepts, history>>

Requests == {"pong", "request"}

InList == ToSet(conn_list)

\* std::find
Position(c) == CHOOSE i \in DOMAIN conn_list : conn_list[i] = c

Init ==
  /\ state = "running"
  /\ conn_list = <<>> /\ capacity = 0 /\ test_conn_map = {} /\ moved = FALSE
  /\ timer = "check_alive"
  /\ sock = [c \in Conn |-> "none"] /\ read = [c \in Conn |-> "none"]
  /\ writing = {} /\ asked = {} /\ database = "up" /\ rows = {} /\ accepts = 0
  /\ silent = {} /\ steady = TRUE /\ evicted = {}

-----------------------------------------------------------------------------
(* The clients and the network *)

PeerSends(c, m) ==
  /\ sock[c] = "open" /\ read[c] = "pending"
  /\ m = "pong" => c \in asked
  /\ read' = [read EXCEPT ![c] = m]
  /\ asked' = IF m = "pong" THEN asked \ {c} ELSE asked
  /\ UNCHANGED <<state, vector, timer, sock, writing, tables, accepts, history>>

PeerCloses(c) ==
  /\ sock[c] = "open"
  /\ sock' = [sock EXCEPT ![c] = "eof"]
  /\ UNCHANGED <<state, vector, timer, read, asked, writing, tables, accepts,
                 history>>

PeerResets(c) ==
  /\ sock[c] \in {"open", "eof"}
  /\ sock' = [sock EXCEPT ![c] = "reset"]
  /\ UNCHANGED <<state, vector, timer, read, asked, writing, tables, accepts,
                 history>>

ReadFails(c) ==
  /\ sock[c] \in {"eof", "reset"} /\ read[c] = "pending"
  /\ read' = [read EXCEPT ![c] = sock[c]]
  /\ UNCHANGED <<state, vector, timer, sock, asked, writing, tables, accepts,
                 history>>

LoseDatabase ==
  /\ database = "up" /\ database' = "lost"
  /\ UNCHANGED <<state, vector, timer, net, writing, rows, accepts, history>>

-----------------------------------------------------------------------------
(* How the server ends *)

\* remote_endpoint throws on a socket that was reset.
Throws(c) == sock[c] = "reset"

\* What a delete leaves of the rows: nothing tells that it has failed.
Deleted(left) == IF database = "up" THEN left ELSE rows

\* Nobody is connected, and the timer has just been set.  (What a process that has
\* gone wrong still holds does not matter.)
Cleared ==
  /\ conn_list' = <<>> /\ capacity' = 0 /\ test_conn_map' = {}
  /\ moved' = FALSE /\ timer' = "check_alive"
  /\ sock' = [c \in Conn |-> "none"] /\ read' = [c \in Conn |-> "none"]
  /\ writing' = {} /\ asked' = {}
  /\ silent' = {} /\ steady' = TRUE /\ evicted' = {}

\* The exception leaves io_context::run, and ~Server deletes the rows on the
\* way out of main.
Exit ==
  /\ state' = "exited" /\ Cleared
  /\ rows' = Deleted({}) /\ UNCHANGED database

\* Row 0 is used of an answer that has no row, or whose rows nobody has written.
ReadNoRow ==
  /\ state' = "query" /\ Cleared
  /\ UNCHANGED <<tables, accepts>>

\* A connection or an iterator is used that is not there any more.
Undefined ==
  /\ state' = "undefined" /\ Cleared
  /\ UNCHANGED <<tables, accepts>>

\* Server(), which deletes what rows an earlier server has left, unless DB_init,
\* whose result is dropped, has not reached the database.
Restart ==
  /\ state # "running" /\ state' = "running" /\ Cleared
  /\ \/ database' = "up" /\ rows' = {}
     \/ database' = "lost" /\ UNCHANGED rows
  /\ UNCHANGED accepts

-----------------------------------------------------------------------------
(* Accepting and reading *)

\* handle_accept.  The peer may already have reset the new connection, and
\* then remote_endpoint, called to log it, throws.  (An endpoint comes back when
\* the completions of its last connection have been dispatched: they are queued
\* when that is destroyed.)
HandleAccept(c) ==
  /\ accepts < MaxAccepts
  /\ sock[c] = "none" /\ read[c] = "none" /\ c \notin writing
  /\ accepts' = accepts + 1
  /\ \/ Exit
     \/ LET full == Len(conn_list) = capacity
        IN /\ capacity' = IF ~full THEN capacity
                          ELSE IF capacity = 0 THEN 1 ELSE 2 * capacity
           /\ moved' = (moved \/ (full /\ test_conn_map # {}))
           /\ conn_list' = Append(conn_list, c)
           /\ sock' = [sock EXCEPT ![c] = "open"]
           /\ read' = [read EXCEPT ![c] = "pending"]
           /\ asked' = asked \ {c}
           /\ silent' = silent \ {c}
           /\ steady' = (steady /\ ~full) /\ evicted' = evicted \ {c}
           /\ UNCHANGED <<state, test_conn_map, timer, writing, tables>>

ForgetPosition_Never(i) == test_conn_map

\* test_conn_map.erase(it): no key equals an iterator of newer storage.
ForgetPosition(i) == IF moved THEN test_conn_map ELSE test_conn_map \ {i}

Thrown == Exit /\ UNCHANGED accepts

\* The handler of a request has sent to the connections in to, and reads again.
Served(c, to) ==
  /\ read' = [read EXCEPT ![c] = "pending"]
  /\ writing' = writing \cup to
  /\ UNCHANGED <<state, timer, sock, asked, database, accepts>>

Pong(c) ==
  /\ Served(c, {})
  /\ test_conn_map' = ForgetPosition(Position(c))
  /\ silent' = silent \ {c}
  /\ UNCHANGED <<conn_list, capacity, moved, rows, steady, evicted>>

\* A request that only its sender is answered, perhaps a login that enters a row.
Login(c) ==
  /\ Served(c, {c})
  /\ \/ database = "up" /\ rows' = rows \cup {c}
     \/ UNCHANGED rows
  /\ UNCHANGED <<vector, history>>

\* The loop of PrivateMessage, AddFriend, DeleteFriend and AgreeApplication
\* over conn_list compares every endpoint until it meets d's.
Walk(d) ==
  {conn_list[i] : i \in {j \in DOMAIN conn_list :
                           \A k \in 1 .. j - 1 : conn_list[k] # d}}

\* Endpoints that a query may answer with: any, in rows that nobody has written.
Answers == IF database = "up" THEN rows ELSE Conn

\* A request that others hear of: the connection at the endpoint of another user
\* is looked for, unless that user is not online; or all of them are sent to.
Notify(c) ==
  \/ \E d \in Answers :
       LET walked == Walk(d)
       IN \/ /\ \A e \in walked : ~Throws(e)
             /\ Served(c, {c} \cup ({d} \cap InList))
             /\ UNCHANGED <<vector, rows, history>>
          \/ (\E e \in walked : Throws(e)) /\ Thrown
  \/ /\ \E to \in {{}, {c}, InList} : Served(c, to)
     /\ UNCHANGED <<vector, rows, history>>

\* Handler starts by logging the sender's endpoint, which may throw.
Serve(c, m) ==
  \/ Throws(c) /\ Thrown
  \/ /\ ~Throws(c) /\ m = "pong"
     /\ Pong(c)
  \/ /\ ~Throws(c) /\ m = "request"
     /\ Login(c) \/ Notify(c) \/ ReadNoRow

RowsWithout_Kept(c) == rows

\* The rows when RemoveClient has deleted that of c.
RowsWithout(c) == Deleted(rows \ {c})

ListWithout_Last(c) == Front(conn_list)

ListWithout(c) == RemoveAt(conn_list, Position(c))

\* RemoveClient, called at end of file; the connection is then destroyed, and
\* what was being written completes with an error.
RemoveClient(c) ==
  IF Throws(c) THEN Thrown
  ELSE
    /\ rows' = RowsWithout(c)
    /\ conn_list' = ListWithout(c)
    /\ test_conn_map' = ForgetPosition(Position(c))
    /\ sock' = [sock EXCEPT ![c] = "none"]
    /\ read' = [read EXCEPT ![c] = "none"]
    /\ asked' = asked \ {c}
    /\ silent' = silent \ {c}
    /\ steady' = FALSE
    /\ UNCHANGED <<state, capacity, moved, timer, writing, database, accepts,
                   evicted>>

\* Error_Handler does nothing at any other error: the connection stays in the
\* list, and nothing reads from it any more.
IgnoreError(c) ==
  /\ read' = [read EXCEPT ![c] = "none"]
  /\ UNCHANGED <<state, vector, timer, sock, asked, writing, tables, accepts,
                 history>>

\* on_read, dispatched for a connection that may have been destroyed since.
OnRead(c) ==
  \/ /\ read[c] = "reset" /\ IgnoreError(c)
  \/ /\ read[c] \in Requests \cup {"eof"} /\ sock[c] = "none"
     /\ Undefined
  \/ /\ read[c] \in Requests /\ sock[c] # "none"
     /\ Serve(c, read[c])
  \/ /\ read[c] = "eof" /\ sock[c] # "none"
     /\ RemoveClient(c)

\* on_write for the last block that is under way.  It takes a block off the
\* queue of the connection, which may have been destroyed since.
OnWrite(c) ==
  \/ /\ c \in writing /\ sock[c] # "none"
     /\ writing' = writing \ {c}
     /\ UNCHANGED <<state, vector, timer, net, tables, accepts, history>>
  \/ /\ c \in writing /\ sock[c] = "none"
     /\ Undefined

-----------------------------------------------------------------------------
(* The timer *)

Iterators_FromZero == 0 .. Len(conn_list)
Iterators_PastEnd  == 1 .. Len(conn_list) + 1
Iterators_None     == {}

\* What check_alive iterates over.
Iterators == DOMAIN conn_list

CheckAlive ==
  /\ timer = "check_alive" /\ timer' = "remove_dead"
  /\ asked' = asked \cup InList /\ writing' = writing \cup InList
  /\ test_conn_map' = test_conn_map \cup Iterators
  /\ moved' = FALSE
  /\ silent' = InList /\ steady' = TRUE
  /\ UNCHANGED <<state, conn_list, capacity, sock, read, tables, accepts,
                 evicted>>

\* What the loop erases, which takes the iterators in map in order of address:
\* each erasure moves the elements behind it one position forward.
Hit(map) == {i + Cardinality({k \in map : k < i}) : i \in map}

\* What stays of n elements.  At or beyond the end, and in old storage, erase
\* moves nothing (in libstdc++) and destroys the last element.
Survivors(n, map, old) ==
  LET unhit == 1 .. n \ (IF old THEN {} ELSE Hit(map))
  IN {i \in unhit :
        Cardinality({k \in unhit : k <= i}) <= n - Cardinality(map)}

\* Elements of l at the positions in S, in order.
InOrder(l, S) ==
  {[i \in DOMAIN order |-> l[order[i]]] :
     order \in {o \in [1 .. Cardinality(S) -> S] :
                  \A i, j \in DOMAIN o : i < j => o[i] < o[j]}}

\* The loop erases the element it stands on from the map, uses it once more to
\* erase from the vector, and goes on from it, all of which is undefined; but it
\* may go well, if the vector is not empty.
RemoveDead ==
  /\ timer = "remove_dead"
  /\ \/ test_conn_map # {} /\ Undefined
     \/ /\ Cardinality(test_conn_map) <= Len(conn_list)
        /\ timer' = "check_alive"
        /\ LET left == Survivors(Len(conn_list), test_conn_map, moved)
               gone == InList \ {conn_list[i] : i \in left}
           IN /\ conn_list' \in InOrder(conn_list, left)
              /\ sock' = [c \in Conn |-> IF c \in gone THEN "none" ELSE sock[c]]
              /\ read' = [c \in Conn |->
                            IF c \in gone /\ read[c] = "pending" THEN "none"
                            ELSE read[c]]
              /\ asked' = asked \ gone
              /\ evicted' = evicted \cup gone
        /\ test_conn_map' = {}
        /\ silent' = {} /\ steady' = TRUE
        /\ UNCHANGED <<state, capacity, moved, writing, tables, accepts>>

-----------------------------------------------------------------------------
Running(A) == state = "running" /\ A

Dispatch == \E c \in Conn : OnRead(c) \/ OnWrite(c)

Next ==
  \/ Running(\E c \in Conn, m \in Requests : PeerSends(c, m))
  \/ Running(\E c \in Conn :
               PeerCloses(c) \/ PeerResets(c) \/ ReadFails(c))
  \/ Running(LoseDatabase)
  \/ Running(\E c \in Conn : HandleAccept(c))
  \/ Running(Dispatch)
  \/ Running(CheckAlive)
  \/ Running(RemoveDead)
  \/ Restart

\* io_context::run completes and dispatches what is ready, and timers expire.
\* Nobody is obliged to send, to answer, to leave or to restart the server.
Fairness ==
  /\ \A c \in Conn : /\ WF_vars(Running(OnRead(c)))
                     /\ WF_vars(Running(ReadFails(c)))
  /\ WF_vars(Running(CheckAlive)) /\ WF_vars(Running(RemoveDead))

Spec == Init /\ [][Next]_vars /\ Fairness

-----------------------------------------------------------------------------
(* Properties *)

TypeOK ==
  /\ state \in {"running", "exited", "query", "undefined"}
  /\ database \in {"up", "lost"}
  /\ conn_list \in Seq(Conn) /\ capacity \in Nat
  /\ test_conn_map \subseteq Nat \ {0} /\ moved \in BOOLEAN
  /\ timer \in {"check_alive", "remove_dead"}
  /\ sock \in [Conn -> {"none", "open", "eof", "reset"}]
  /\ read \in [Conn -> Requests \cup {"none", "pending", "eof", "reset"}]
  /\ writing \subseteq Conn /\ asked \subseteq Conn
  /\ rows \subseteq Conn /\ accepts \in 0 .. MaxAccepts
  /\ silent \subseteq Conn /\ steady \in BOOLEAN /\ evicted \subseteq Conn

\* The list holds each connection that exists once, and nothing else, so that
\* std::find in RemoveClient and RespondAlive always finds the right entry,
\* although remove_dead erases by position.
ListIsExact ==
  state = "running" =>
    /\ InList = {c \in Conn : sock[c] # "none"}
    /\ Len(conn_list) = Cardinality(InList)
    /\ Len(conn_list) <= capacity

\* As long as nobody leaves and the vector does not move, the iterators in
\* test_conn_map are those of the connections that have not answered.
KeysAreUnanswered ==
  state = "running" /\ timer = "remove_dead" /\ steady =>
    test_conn_map = {i \in DOMAIN conn_list : conn_list[i] \in silent}

\* The window closes.
CloseWindow ==
  /\ state = "running" /\ state' = "running"
  /\ timer = "remove_dead" /\ timer' = "check_alive"

\* In such a window, with at most one silent connection, remove_dead drops the
\* silent connection and no other.  (With two, the first erasure shifts the
\* second iterator on to another connection.)
EvictsTheSilent ==
  [][CloseWindow /\ steady /\ Cardinality(silent) <= 1
       => evicted' \ evicted \subseteq silent
          /\ InList' = InList \ silent]_vars

\* As long as the database is there, OnlineUser never shows as online an endpoint
\* that is not connected, but for the ones whose last connection remove_dead
\* dropped, whose rows it does not delete: what a server without a database has
\* left, for that reason or for any other, is gone when one with a database starts.
StaleRowsAreEvicted ==
  state = "running" /\ database = "up" => rows \ InList \subseteq evicted

\* The register leads to undefined behaviour only if a connection was destroyed
\* with a completion to come, or if remove_dead has something to erase: and that,
\* if nobody left and the vector stayed since the pings, is somebody's silence.
UndefinedNeedsRace ==
  [][state = "running" /\ state' = "undefined" =>
       \/ \E c \in Conn :
            sock[c] = "none" /\ (read[c] \in Requests \cup {"eof"} \/ c \in writing)
       \/ timer = "remove_dead" /\ (steady => silent # {})]_vars

\* A connection that was reset and is not read from any more is dropped by the
\* keep-alive sooner or later, if the server lives.
DeadAreDropped ==
  \A c \in Conn :
    read[c] = "none" /\ sock[c] = "reset" ~>
      sock[c] = "none" \/ state # "running"
=============================================================================
