-------------------------- MODULE ClientWriteQueue --------------------------
(***************************************************************************)
(* How the client writes packets to its connection, with two threads.      *)
(*                                                                         *)
(* Slots of the windows call send on the GUI thread.  The io thread runs   *)
(* on_write when a write completes, and answers CheckAlive with a send of  *)
(* its own.  Both end in do_write, which, unlike the server's, pops a block *)
(* before it writes it.  Nothing guards the queue.                         *)
(*                                                                         *)
(* std::queue is a deque of pointers with two cursors, start and finish,   *)
(* that front, pop, push and size load and store; the threads interleave   *)
(* between these.  A build may load start again for pop or use what it has *)
(* loaded for front.  What a deque does at the end of one of its arrays,   *)
(* one push in 64, is left out.  Of the sizes there is only what matters:  *)
(* whether resize has been given to a block, and on behalf of which packet.*)
(***************************************************************************)
EXTENDS Integers, Sequences

CONSTANTS
  MaxSends,      \* bound: packets sent
  MaxBlocks      \* bound: blocks of a packet

ASSUME ClientWriteQueueAssumption ==
  MaxSends \in Nat /\ MaxBlocks \in Nat \ {0}

VARIABLES
  slots,         \* pointers the deque has stored, as [packet, index]
  start, finish, \* its cursors: slots before finish are filled, those before
                 \* start popped
  resized,       \* for each block the packet it was resized for; 0: none
  pc,            \* what each thread does next
  todo,          \* blocks its send has still to push
  at,            \* the cursor it has loaded
  block,         \* the block it has loaded
  ops,           \* writes under way: [block, for]
  done,          \* completions that on_write has not been called for
  wire,          \* what has been written: [block, for, dangling]
  packets,       \* number of blocks of each packet sent (history)
  raced          \* have both threads been in the queue at a time? (history)

queue   == <<slots, start, finish, resized>>
threads == <<pc, todo, at, block>>
socket  == <<ops, done, wire>>
vars    == <<queue, threads, socket, packets, raced>>

Thread == {"gui", "io"}
Block  == [packet : 1 .. MaxSends, index : 1 .. MaxBlocks]
None   == [packet |-> 0, index |-> 0]

Blocks_FromZero(p, n) == [i \in 1 .. n |-> [packet |-> p, index |-> i - 1]]

Blocks(p, n) == [i \in 1 .. n |-> [packet |-> p, index |-> i]]

Init ==
  /\ slots = <<>> /\ start = 0 /\ finish = 0
  /\ resized = [b \in Block |-> 0]
  /\ pc = [t \in Thread |-> "idle"] /\ todo = [t \in Thread |-> <<>>]
  /\ at = [t \in Thread |-> 0] /\ block = [t \in Thread |-> None]
  /\ ops = <<>> /\ done = 0 /\ wire = <<>>
  /\ packets = <<>> /\ raced = FALSE

Goto(t, step) ==
  /\ pc' = [pc EXCEPT ![t] = step]
  /\ raced' = (raced \/ \A u \in Thread : pc'[u] # "idle")

-----------------------------------------------------------------------------
(* send *)

\* A packet of n blocks is cut up; that of the io thread is RespondAlive.
Send(t, n) ==
  /\ pc[t] = "idle" /\ Len(packets) < MaxSends
  /\ t = "io" => n = 1
  /\ packets' = Append(packets, n)
  /\ todo' = [todo EXCEPT ![t] = Blocks(Len(packets'), n)]
  /\ Goto(t, "push")
  /\ UNCHANGED <<queue, at, block, socket>>

\* push, its load of finish
Push(t) ==
  /\ pc[t] = "push"
  /\ at' = [at EXCEPT ![t] = finish]
  /\ Goto(t, "store")
  /\ UNCHANGED <<queue, todo, block, socket, packets>>

\* push, its stores
Store(t) ==
  /\ pc[t] = "store"
  /\ slots' = [i \in 1 .. IF at[t] < Len(slots) THEN Len(slots) ELSE at[t] + 1
                 |-> IF i = at[t] + 1 THEN Head(todo[t]) ELSE slots[i]]
  /\ finish' = at[t] + 1
  /\ todo' = [todo EXCEPT ![t] = Tail(@)]
  /\ Goto(t, IF Len(todo[t]) > 1 THEN "push" ELSE "front")
  /\ block' = [block EXCEPT ![t] = Head(todo[t])]
  /\ UNCHANGED <<start, resized, at, socket, packets>>

\* The rest of send: which block is to be resized.  (block[t] names the packet
\* that is sent until then.)
Front(t) ==
  /\ pc[t] = "front"
  /\ IF start >= finish
     THEN Goto(t, "ended") /\ UNCHANGED <<todo, at, block>>
     ELSE /\ at' = [at EXCEPT ![t] = block[t].packet]
          /\ block' = [block EXCEPT ![t] = slots[start + 1]]
          /\ Goto(t, "resize") /\ UNCHANGED todo
  /\ UNCHANGED <<queue, socket, packets>>

Resize_Forgotten(t) ==
  /\ pc[t] = "resize" /\ Goto(t, "size")
  /\ UNCHANGED <<queue, todo, at, block, socket, packets>>

Resize(t) ==
  /\ pc[t] = "resize"
  /\ resized' = [resized EXCEPT ![block[t]] = at[t]]
  /\ Goto(t, "size")
  /\ UNCHANGED <<slots, start, finish, todo, at, block, socket, packets>>

-----------------------------------------------------------------------------
(* do_write *)

Size_Unasked(t) ==
  /\ pc[t] = "size" /\ Goto(t, "take")
  /\ UNCHANGED <<queue, todo, at, block, socket, packets>>

Size(t) ==
  /\ pc[t] = "size"
  /\ Goto(t, IF start = finish THEN "idle" ELSE "take")
  /\ UNCHANGED <<queue, todo, at, block, socket, packets>>

\* front; of an empty queue, it is undefined.
Take(t) ==
  /\ pc[t] = "take"
  /\ IF start >= finish
     THEN Goto(t, "ended") /\ UNCHANGED <<todo, at, block>>
     ELSE /\ at' = [at EXCEPT ![t] = start]
          /\ block' = [block EXCEPT ![t] = slots[start + 1]]
          /\ Goto(t, "pop") /\ UNCHANGED todo
  /\ UNCHANGED <<queue, socket, packets>>

Pop_Never(t) ==
  /\ pc[t] = "pop" /\ Goto(t, "write")
  /\ UNCHANGED <<queue, todo, at, block, socket, packets>>

Pop(t) ==
  /\ pc[t] = "pop"
  /\ start' \in {at[t] + 1, start + 1}
  /\ Goto(t, "write")
  /\ UNCHANGED <<slots, finish, resized, todo, at, block, socket, packets>>

Write(t) ==
  /\ pc[t] = "write"
  /\ ops' = Append(ops, [block |-> block[t], for |-> resized[block[t]]])
  /\ Goto(t, "idle")
  /\ UNCHANGED <<queue, todo, at, block, done, wire, packets>>

-----------------------------------------------------------------------------
(* The io thread and the socket *)

OnWrite_Once ==
  /\ pc["io"] = "idle" /\ done > 0 /\ done' = done - 1
  /\ UNCHANGED <<queue, threads, ops, wire, packets, raced>>

\* on_write is a call of do_write.
OnWrite ==
  /\ pc["io"] = "idle" /\ done > 0 /\ done' = done - 1
  /\ Goto("io", "size")
  /\ UNCHANGED <<queue, todo, at, block, ops, wire, packets>>

\* The oldest write goes out whole; its bytes are those that resize left where
\* they were.
Transmit ==
  /\ ops # <<>> /\ ops' = Tail(ops)
  /\ wire' = Append(wire, [block |-> Head(ops).block, for |-> Head(ops).for,
                           dangling |-> resized[Head(ops).block]
                                          # Head(ops).for])
  /\ done' = done + 1
  /\ UNCHANGED <<queue, threads, packets, raced>>

Step(t) ==
  \/ Push(t) \/ Store(t) \/ Front(t) \/ Resize(t)
  \/ Size(t) \/ Take(t) \/ Pop(t) \/ Write(t)

\* Nothing is said of the program after undefined behaviour.
Running == \A t \in Thread : pc[t] # "ended"

Next ==
  /\ Running
  /\ \/ \E t \in Thread : Step(t) \/ \E n \in 1 .. MaxBlocks : Send(t, n)
     \/ OnWrite
     \/ Transmit

\* Threads run, the kernel takes the bytes, and completions are dispatched.
Fairness ==
  /\ \A t \in Thread : WF_vars(Running /\ Step(t))
  /\ WF_vars(Running /\ OnWrite) /\ WF_vars(Running /\ Transmit)

Spec == Init /\ [][Next]_vars /\ Fairness

-----------------------------------------------------------------------------
(* Properties *)

AnyBlock == Block \cup {None}

TypeOK ==
  /\ slots \in Seq(Block) /\ start \in Nat /\ finish \in 0 .. Len(slots)
  /\ resized \in [Block -> 0 .. MaxSends]
  /\ pc \in [Thread -> {"idle", "push", "store", "front", "resize", "size",
                        "take", "pop", "write", "ended"}]
  /\ todo \in [Thread -> Seq(Block)] /\ at \in [Thread -> Nat]
  /\ block \in [Thread -> AnyBlock]
  /\ ops \in Seq([block : Block, for : 0 .. MaxSends]) /\ done \in Nat
  /\ wire \in Seq([block : Block, for : 0 .. MaxSends, dangling : BOOLEAN])
  /\ packets \in Seq(1 .. MaxBlocks) /\ Len(packets) <= MaxSends
  /\ raced \in BOOLEAN

Idle == \A t \in Thread : pc[t] = "idle"

\* If the threads take turns, what has been and is being written are the first
\* blocks of those queued, each once and in order, although several writes may
\* be under way: a block is popped by whoever writes it.
InOrderUnlessRaced ==
  ~raced /\ Idle =>
    /\ Len(wire) + Len(ops) = start
    /\ \A i \in DOMAIN wire : wire[i].block = slots[i]
    /\ \A i \in DOMAIN ops : ops[i].block = slots[Len(wire) + i]

\* If the threads take turns, front is not used of an empty queue: there is no
\* surplus completion for which a block is missing, as there is in the server.
EndNeedsRace == ~Running => raced

\* Even if they do not, and blocks are lost or written twice, what is left in
\* the queue is not left there for good: a completion is to come that looks.
NothingStranded == Idle /\ start # finish => ops # <<>> \/ done > 0

SinglesUpTo(p) == \A q \in 1 .. p : packets[q] = 1

\* If the threads take turns, no block is resized while it is being written,
\* however many writes are under way, and packets of one block get their own
\* size until the first of several is sent, be it under way or not.  (One that
\* is sent later may find a block of that packet in front, and resize it.)
SinglesIntactUnlessRaced ==
  ~raced => \A i \in DOMAIN wire :
    /\ ~wire[i].dangling
    /\ SinglesUpTo(wire[i].block.packet) => wire[i].for = wire[i].block.packet

Written(b) == \E i \in DOMAIN wire : wire[i].block = b

AllWritten ==
  \A p \in DOMAIN packets : \A i \in 1 .. packets[p] :
    Written([packet |-> p, index |-> i])

\* If the threads take turns, everything queued has gone out in the end, when the
\* callers stop sending (which MaxSends makes them do).
DrainsUnlessRaced == []~raced => <>[]AllWritten
=============================================================================
