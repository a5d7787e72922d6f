----------------------------- MODULE WriteQueue -----------------------------
(***************************************************************************)
(* How the server writes packets to one connection.                        *)
(*                                                                         *)
(* send cuts a packet into blocks of CHUNK_SIZE bytes, pushes them on the  *)
(* queue bq, resizes one block, and calls do_write, which starts an        *)
(* asynchronous write of the front block.  When a write completes,         *)
(* on_write deletes and pops the front block and calls do_write again.     *)
(* All of this runs on the one thread of io_context, but between two       *)
(* completions the Handler may send any number of packets to the same      *)
(* connection: nothing tells send that a write is under way already.       *)
(*                                                                         *)
(* Bytes are counted, not represented: a block knows which piece of which  *)
(* packet it holds and how many of its bytes are filled.  A write puts its *)
(* bytes on the wire at one time between its start and its completion,     *)
(* writes of one socket in the order they were started.                    *)
(***************************************************************************)
EXTENDS Integers, Sequences

CONSTANTS
  HeaderSize,    \* Header_Size
  ChunkSize,     \* CHUNK_SIZE
  ContentSizes,  \* content sizes of the packets sent
  MaxSends       \* bound: packets sent to the connection

ASSUME WriteQueueAssumption ==
  /\ HeaderSize \in Nat \ {0} /\ ChunkSize \in Nat /\ HeaderSize < ChunkSize
  /\ ContentSizes \subseteq Nat \ {0}
  /\ MaxSends \in Nat

VARIABLES
  bq,            \* blocks: [packet, index, fill, size, chunk]
  ops,           \* writes started and not completed, in order:
                 \* [packet, index, size, chunk, done]
  wire,          \* pieces written: [packet, index, size, dangling]
  packets,       \* content size of each packet sent (history)
  overlaps,      \* sends made while blocks were queued (history)
  broken,        \* the peer is gone: writes complete with an error
  crashed        \* front of an empty queue has been used

vars == <<bq, ops, wire, packets, overlaps, broken, crashed>>

-----------------------------------------------------------------------------
(* Cutting a packet into blocks *)

NumBlocks(c) == (HeaderSize + c + ChunkSize - 1) \div ChunkSize

Cursor_Skipping(i) == (ChunkSize - HeaderSize) + (i - 1) * ChunkSize

\* Content bytes in the blocks before block i (i > 1): the variable cursor.
Cursor(i) == (ChunkSize - HeaderSize) + (i - 2) * ChunkSize

\* Bytes that send copies into block i.
Fill(c, i) ==
  IF i = 1
  THEN IF c > ChunkSize - HeaderSize THEN ChunkSize ELSE HeaderSize + c
  ELSE IF Cursor(i) + ChunkSize > c THEN c - Cursor(i) ELSE ChunkSize

BlocksOf(p, c) ==
  [i \in 1 .. NumBlocks(c) |->
     [packet |-> p, index |-> i, fill |-> Fill(c, i),
      size |-> ChunkSize, chunk |-> 0]]

\* resize: a different size reallocates the chunk, perhaps elsewhere.
Resize(b, s, moves) ==
  IF s = b.size THEN b
  ELSE [b EXCEPT !.size = s, !.chunk = IF moves THEN @ + 1 ELSE @]

WriteOp(b) == [packet |-> b.packet, index |-> b.index, size |-> b.size,
               chunk |-> b.chunk, done |-> FALSE]

DoWrite_Unless(q, os) ==
  IF q = <<>> \/ os # <<>> THEN os ELSE Append(os, WriteOp(Head(q)))

DoWrite_Each(q, os) == os \o [i \in DOMAIN q |-> WriteOp(q[i])]

DoWrite_Last(q, os) == IF q = <<>> THEN os ELSE Append(os, WriteOp(q[Len(q)]))

\* do_write: the writes under way once the front of q is being written.
DoWrite(q, os) == IF q = <<>> THEN os ELSE Append(os, WriteOp(Head(q)))

-----------------------------------------------------------------------------
Init ==
  /\ bq = <<>> /\ ops = <<>> /\ wire = <<>>
  /\ packets = <<>> /\ overlaps = 0
  /\ broken = FALSE /\ crashed = FALSE

\* The block resize is applied to is the front of the whole queue, and its new
\* size is the fill of the last block of the packet.
Send(c) ==
  /\ Len(packets) < MaxSends
  /\ packets' = Append(packets, c)
  /\ overlaps' = IF bq = <<>> THEN overlaps ELSE overlaps + 1
  /\ LET pushed == bq \o BlocksOf(Len(packets) + 1, c)
     IN \E moves \in BOOLEAN :
          bq' = <<Resize(Head(pushed), Fill(c, NumBlocks(c)), moves)>>
                  \o Tail(pushed)
  /\ ops' = DoWrite(bq', ops)
  /\ UNCHANGED <<wire, broken, crashed>>

\* Is the memory that a write reads still the chunk of a queued block?
Allocated(op) ==
  \E i \in DOMAIN bq : /\ bq[i].packet = op.packet /\ bq[i].index = op.index
                       /\ bq[i].chunk = op.chunk

\* The bytes of the oldest write not done go out, read where the chunk was.
Transmit ==
  /\ ~broken
  /\ \E i \in DOMAIN ops :
       /\ ~ops[i].done /\ \A j \in 1 .. i - 1 : ops[j].done
       /\ wire' = Append(wire,
                    [packet |-> ops[i].packet, index |-> ops[i].index,
                     size |-> ops[i].size, dangling |-> ~Allocated(ops[i])])
       /\ ops' = [ops EXCEPT ![i].done = TRUE]
  /\ UNCHANGED <<bq, packets, overlaps, broken, crashed>>

OnWrite_Once ==
  /\ ops # <<>> /\ (Head(ops).done \/ broken)
  /\ crashed' = (bq = <<>>)
  /\ bq' = IF bq = <<>> THEN bq ELSE Tail(bq)
  /\ ops' = Tail(ops)
  /\ UNCHANGED <<wire, packets, overlaps, broken>>

\* on_write frees the block in front, whichever block was written, and looks
\* neither at the error nor at the length of the queue; with nothing queued,
\* front and pop are undefined.
OnWrite ==
  /\ ops # <<>> /\ (Head(ops).done \/ broken)
  /\ IF bq = <<>>
     THEN /\ crashed' = TRUE
          /\ UNCHANGED <<bq, ops>>
     ELSE /\ bq' = Tail(bq)
          /\ ops' = DoWrite(bq', Tail(ops))
          /\ UNCHANGED crashed
  /\ UNCHANGED <<wire, packets, overlaps, broken>>

Break ==
  /\ ~broken /\ broken' = TRUE
  /\ UNCHANGED <<bq, ops, wire, packets, overlaps, crashed>>

\* Nothing is said of the program after the undefined behaviour.
Next ==
  /\ ~crashed
  /\ \/ \E c \in ContentSizes : Send(c)
     \/ Transmit
     \/ OnWrite
     \/ Break

\* The kernel takes the bytes of a connected socket, and io_context::run
\* dispatches a completion.  Nothing makes a caller send or a peer leave.
Fairness == WF_vars(~crashed /\ Transmit) /\ WF_vars(~crashed /\ OnWrite)

Spec == Init /\ [][Next]_vars /\ Fairness

-----------------------------------------------------------------------------
(* Properties *)

Block == [packet : 1 .. MaxSends, index : Nat \ {0}, fill : Nat \ {0},
          size : Nat \ {0}, chunk : Nat]
Op    == [packet : 1 .. MaxSends, index : Nat \ {0}, size : Nat \ {0},
          chunk : Nat, done : BOOLEAN]
Piece == [packet : 1 .. MaxSends, index : Nat \ {0}, size : Nat \ {0},
          dangling : BOOLEAN]

TypeOK ==
  /\ bq \in Seq(Block) /\ ops \in Seq(Op) /\ wire \in Seq(Piece)
  /\ packets \in Seq(ContentSizes) /\ Len(packets) <= MaxSends
  /\ overlaps \in Nat /\ broken \in BOOLEAN /\ crashed \in BOOLEAN

\* One write is under way for the front block, and one more for each send that
\* found the queue occupied: do_write starts a write without asking, and
\* on_write starts one for each it ends, so a surplus write is never absorbed.
SurplusWrites ==
  Len(ops) = (IF bq = <<>> THEN 0 ELSE 1) + overlaps

\* on_write finds the queue empty only if some send overlapped a write.
CrashNeedsOverlap == crashed => overlaps > 0

\* The block y comes after x in the packets sent, one after the other.
Follows(x, y) ==
  IF x.index < NumBlocks(packets[x.packet])
  THEN y.packet = x.packet /\ y.index = x.index + 1
  ELSE y.packet = x.packet + 1 /\ y.index = 1

\* The last block of packet p is the last that went out; of no packet, nothing.
SentUpTo(p) ==
  IF p = 0 THEN wire = <<>>
  ELSE /\ wire # <<>>
       /\ wire[Len(wire)].packet = p
       /\ wire[Len(wire)].index = NumBlocks(packets[p])

\* With no send overlapping a write, resize meets the packet's own first block,
\* and gives it the fill of the packet's last one; the others stay full.
WireSize(c, i) == IF i = 1 THEN Fill(c, NumBlocks(c)) ELSE ChunkSize

\* As long as no send overlaps a write, the blocks of the packets go out from the
\* first on, each once and in order, read from live memory: the first block of a
\* packet as long as its last one is filled, which is exact for a packet of one
\* block, and every other block full; and when the queue runs empty nothing is
\* left unsent.
IntactWithoutOverlap ==
  overlaps = 0 =>
    /\ wire # <<>> => wire[1].packet = 1 /\ wire[1].index = 1
    /\ \A i \in 1 .. Len(wire) - 1 : Follows(wire[i], wire[i + 1])
    /\ \A i \in DOMAIN wire : /\ wire[i].packet \in DOMAIN packets
                              /\ ~wire[i].dangling
                              /\ wire[i].size = WireSize(packets[wire[i].packet],
                                                         wire[i].index)
    /\ bq = <<>> /\ ~broken => SentUpTo(Len(packets))

\* With a live peer and sends that do not overlap, whatever was queued has
\* gone out in the end, block after block.
DrainsWithoutOverlap ==
  <>[](overlaps = 0 /\ ~broken)
    => <>[](bq = <<>> /\ SentUpTo(Len(packets)))

\* A send that overlaps a write is fatal: when the callers stop sending (which
\* MaxSends makes them do), the surplus completion finds the queue empty.
OverlapIsFatal == overlaps > 0 ~> crashed

\* What send's comment "the last chunk may be unfilled" says: no other chunk of
\* a packet is.  The code resizes the front block instead.
OnlyLastChunkShort ==
  \A i \in DOMAIN bq :
    bq[i].index < NumBlocks(packets[bq[i].packet]) => bq[i].size = ChunkSize
=============================================================================
