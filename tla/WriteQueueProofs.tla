-------------------------- MODULE WriteQueueProofs --------------------------
(***************************************************************************)
(* Proofs about module WriteQueue, for every header and block size, every  *)
(* set of content sizes and any number of packets.                         *)
(***************************************************************************)
EXTENDS WriteQueue, SequenceTheorems, TLAPS

-----------------------------------------------------------------------------
(* Cutting a packet into blocks *)

LEMMA Division ==
  ASSUME NEW a \in Nat, NEW b \in Nat \ {0}
  PROVE  /\ a \div b \in Nat
         /\ b * (a \div b) <= a /\ a < b * (a \div b) + b
OBVIOUS

\* Block i starts inside the packet exactly when it is one of the blocks: the
\* rounding in send's std::ceil counts neither one too few nor one too many.
LEMMA BlockInPacket ==
  ASSUME NEW c \in Nat \ {0}, NEW i \in 1 .. NumBlocks(c)
  PROVE  /\ NumBlocks(c) \in Nat \ {0}
         /\ (i - 1) * ChunkSize < HeaderSize + c
         /\ HeaderSize + c <= NumBlocks(c) * ChunkSize
<1> DEFINE t == HeaderSize + c + ChunkSize - 1
           q == t \div ChunkSize
<1>1. /\ HeaderSize \in Nat \ {0} /\ ChunkSize \in Nat \ {0} /\ t \in Nat
      /\ t = HeaderSize + c + ChunkSize - 1
  BY WriteQueueAssumption
<1>2. NumBlocks(c) = q
  BY DEF NumBlocks
<1>3. q \in Nat /\ ChunkSize * q <= t /\ t < ChunkSize * q + ChunkSize
  BY <1>1, Division
<1> HIDE DEF q, t
<1>4. i \in Nat /\ i <= q /\ i >= 1
  BY <1>2, <1>3
<1>5. ChunkSize * i <= ChunkSize * q
  BY <1>1, <1>3, <1>4
<1>6. (i - 1) * ChunkSize = ChunkSize * i - ChunkSize
  BY <1>1, <1>4
<1>7. ChunkSize * q = q * ChunkSize /\ ChunkSize * q \in Nat
      /\ ChunkSize * i \in Nat
  BY <1>1, <1>3, <1>4
<1> QED BY <1>1, <1>2, <1>3, <1>4, <1>5, <1>6, <1>7

\* What send copies into a block is at least one byte and never more than the
\* block has room for, and the last block ends where the packet ends.
LEMMA FillFits ==
  ASSUME NEW c \in Nat \ {0}, NEW i \in 1 .. NumBlocks(c)
  PROVE  /\ Fill(c, i) \in 1 .. ChunkSize
         /\ i < NumBlocks(c) => Fill(c, i) = ChunkSize
         /\ i = NumBlocks(c) =>
              Fill(c, i) = HeaderSize + c - (i - 1) * ChunkSize
<1>1. PICK m \in Nat : m = (i - 1) * ChunkSize
  BY WriteQueueAssumption, BlockInPacket
<1>2. /\ HeaderSize \in Nat \ {0} /\ ChunkSize \in Nat \ {0}
      /\ HeaderSize < ChunkSize /\ i \in Nat
  BY WriteQueueAssumption, BlockInPacket
<1>3. NumBlocks(c) \in Nat \ {0} /\ m < HeaderSize + c
      /\ HeaderSize + c <= NumBlocks(c) * ChunkSize
  BY <1>1, BlockInPacket
<1>4. Cursor(i) = m - HeaderSize
  <2>1. (i - 2) * ChunkSize = (i - 1) * ChunkSize - ChunkSize
    BY <1>2
  <2> QED BY <1>1, <1>2, <2>1 DEF Cursor
<1>5. i = 1 <=> m = 0
  BY <1>1, <1>2
<1>6. CASE i < NumBlocks(c)
  <2>1. i + 1 \in 1 .. NumBlocks(c)
    BY <1>2, <1>3, <1>6
  <2>2. i * ChunkSize < HeaderSize + c
    <3>1. (i + 1) - 1 = i
      BY <1>2
    <3> QED BY <2>1, <3>1, BlockInPacket
  <2>3. i * ChunkSize = m + ChunkSize
    BY <1>1, <1>2
  <2> QED BY <1>1, <1>2, <1>3, <1>4, <1>5, <1>6, <2>2, <2>3 DEF Fill
<1>7. CASE i = NumBlocks(c)
  <2>1. i * ChunkSize = m + ChunkSize
    BY <1>1, <1>2
  <2>2. HeaderSize + c <= m + ChunkSize
    BY <1>3, <1>7, <2>1
  <2> QED BY <1>1, <1>2, <1>3, <1>4, <1>5, <1>7, <2>2 DEF Fill
<1> QED BY <1>2, <1>3, <1>6, <1>7

LEMMA BlocksOfType ==
  ASSUME NEW p \in 1 .. MaxSends, NEW c \in ContentSizes
  PROVE  BlocksOf(p, c) \in Seq(Block) /\ BlocksOf(p, c) # <<>>
<1>1. c \in Nat \ {0}
  BY WriteQueueAssumption
<1>2. ChunkSize \in Nat \ {0}
  BY WriteQueueAssumption
<1>3. NumBlocks(c) \in Nat \ {0}
  <2>1. /\ HeaderSize + c + ChunkSize - 1 \in Nat
        /\ HeaderSize + c + ChunkSize - 1 >= ChunkSize
    BY <1>1, <1>2, WriteQueueAssumption
  <2> QED BY <1>2, <2>1 DEF NumBlocks
<1>4. \A i \in 1 .. NumBlocks(c) :
        [packet |-> p, index |-> i, fill |-> Fill(c, i),
         size |-> ChunkSize, chunk |-> 0] \in Block
  BY <1>1, <1>2, <1>3, FillFits DEF Block
<1>5. BlocksOf(p, c) \in [1 .. NumBlocks(c) -> Block]
  BY <1>4 DEF BlocksOf
<1>6. BlocksOf(p, c) \in Seq(Block)
  BY <1>3, <1>5, SeqDef
<1>7. Len(BlocksOf(p, c)) = NumBlocks(c)
  BY <1>3, <1>5, <1>6, LenProperties
<1> QED BY <1>3, <1>6, <1>7, EmptySeq

-----------------------------------------------------------------------------
(* The helpers of send and on_write *)

LEMMA DoWriteType ==
  ASSUME NEW q \in Seq(Block), NEW os \in Seq(Op)
  PROVE  /\ DoWrite(q, os) \in Seq(Op)
         /\ Len(os) \in Nat
         /\ Len(DoWrite(q, os)) = Len(os) + (IF q = <<>> THEN 0 ELSE 1)
<1>1. Len(os) \in Nat
  BY LenProperties
<1>2. CASE q = <<>>
  BY <1>1, <1>2 DEF DoWrite
<1>3. CASE q # <<>>
  <2>1. Head(q) \in Block
    BY <1>3, HeadTailProperties
  <2>2. WriteOp(Head(q)) \in Op
    BY <2>1 DEF WriteOp, Block, Op
  <2>3. DoWrite(q, os) = Append(os, WriteOp(Head(q)))
    BY <1>3 DEF DoWrite
  <2> QED BY <1>1, <1>3, <2>2, <2>3, AppendProperties
<1> QED BY <1>2, <1>3

LEMMA ResizeType ==
  ASSUME NEW b \in Block, NEW s \in Nat \ {0}, NEW moves \in BOOLEAN
  PROVE  Resize(b, s, moves) \in Block
<1>1. CASE s = b.size
  BY <1>1 DEF Resize
<1>2. CASE s # b.size
  <2>1. Resize(b, s, moves) =
          [b EXCEPT !.size = s, !.chunk = IF moves THEN @ + 1 ELSE @]
    BY <1>2 DEF Resize
  <2>2. b.chunk + 1 \in Nat
    BY DEF Block
  <2> QED BY <2>1, <2>2 DEF Block
<1> QED BY <1>1, <1>2

\* The queue after a send: never empty, and all of it blocks.
LEMMA SendQueue ==
  ASSUME TypeOK, NEW c \in ContentSizes, Send(c)
  PROVE  bq' \in Seq(Block) /\ bq' # <<>>
<1> DEFINE p == Len(packets) + 1
           pushed == bq \o BlocksOf(p, c)
<1>1. p \in 1 .. MaxSends
  <2>1. Len(packets) \in Nat /\ Len(packets) < MaxSends
    BY LenProperties DEF TypeOK, Send
  <2> QED BY <2>1, WriteQueueAssumption
<1>2. BlocksOf(p, c) \in Seq(Block) /\ BlocksOf(p, c) # <<>>
  BY <1>1, BlocksOfType
<1>3. pushed \in Seq(Block) /\ pushed # <<>>
  BY <1>2, ConcatProperties, ConcatEqualIffEmpty DEF TypeOK
<1>4. PICK moves \in BOOLEAN :
        bq' = <<Resize(Head(pushed), Fill(c, NumBlocks(c)), moves)>>
                \o Tail(pushed)
  BY DEF Send
<1>5. Fill(c, NumBlocks(c)) \in Nat \ {0}
  <2>1. c \in Nat \ {0} /\ ChunkSize \in Nat /\ HeaderSize \in Nat \ {0}
    BY WriteQueueAssumption
  <2>2. NumBlocks(c) \in 1 .. NumBlocks(c)
    <3>1. /\ HeaderSize + c + ChunkSize - 1 \in Nat
          /\ HeaderSize + c + ChunkSize - 1 >= ChunkSize /\ ChunkSize # 0
      BY <2>1, WriteQueueAssumption
    <3>2. NumBlocks(c) \in Nat \ {0}
      BY <2>1, <3>1, Division DEF NumBlocks
    <3> QED BY <3>2
  <2> QED BY <2>1, <2>2, FillFits
<1> HIDE DEF pushed
<1>6. Head(pushed) \in Block /\ Tail(pushed) \in Seq(Block)
  BY <1>3, HeadTailProperties
<1>7. Resize(Head(pushed), Fill(c, NumBlocks(c)), moves) \in Block
  BY <1>5, <1>6, ResizeType
<1> DEFINE b == Resize(Head(pushed), Fill(c, NumBlocks(c)), moves)
<1> HIDE DEF b
<1>8. <<b>> \in Seq(Block) /\ <<b>> # <<>>
  BY <1>7 DEF b
<1>9. bq' = <<b>> \o Tail(pushed)
  BY <1>4 DEF b
<1> QED BY <1>6, <1>8, <1>9, ConcatProperties, ConcatEqualIffEmpty

-----------------------------------------------------------------------------
(* The invariant *)

Inv == TypeOK /\ SurplusWrites /\ CrashNeedsOverlap

LEMMA InvInit == Init => Inv
<1> SUFFICES ASSUME Init PROVE Inv
  OBVIOUS
<1>1. /\ bq = <<>> /\ ops = <<>> /\ wire = <<>> /\ packets = <<>>
      /\ overlaps = 0 /\ broken = FALSE /\ crashed = FALSE
  BY DEF Init
<1>2. /\ bq \in Seq(Block) /\ ops \in Seq(Op) /\ wire \in Seq(Piece)
      /\ packets \in Seq(ContentSizes) /\ Len(ops) = 0 /\ Len(packets) = 0
  BY <1>1, EmptySeq
<1>3. TypeOK
  <2>1. broken \in BOOLEAN /\ crashed \in BOOLEAN
    BY DEF Init
  <2>2. overlaps \in Nat /\ Len(packets) <= MaxSends
    BY <1>2, WriteQueueAssumption DEF Init
  <2> QED BY <1>2, <2>1, <2>2 DEF TypeOK
<1> QED BY <1>1, <1>2, <1>3 DEF Inv, SurplusWrites, CrashNeedsOverlap

LEMMA InvSend ==
  ASSUME Inv, NEW c \in ContentSizes, Send(c) PROVE Inv'
<1>1. bq' \in Seq(Block) /\ bq' # <<>>
  BY SendQueue DEF Inv
<1>2. /\ ops' \in Seq(Op) /\ Len(ops) \in Nat /\ Len(ops') = Len(ops) + 1
  BY <1>1, DoWriteType DEF Inv, TypeOK, Send
<1>3. /\ packets' \in Seq(ContentSizes) /\ Len(packets') <= MaxSends
  <2>1. packets' = Append(packets, c) /\ Len(packets) < MaxSends
        /\ packets \in Seq(ContentSizes)
    BY DEF Inv, TypeOK, Send
  <2>2. Len(packets) \in Nat
    BY <2>1, LenProperties
  <2> QED BY <2>1, <2>2, AppendProperties, WriteQueueAssumption
<1>4. /\ UNCHANGED <<wire, broken, crashed>>
      /\ overlaps' = IF bq = <<>> THEN overlaps ELSE overlaps + 1
  BY DEF Send
<1>5. TypeOK'
  BY <1>1, <1>2, <1>3, <1>4 DEF Inv, TypeOK
<1>6. SurplusWrites'
  BY <1>1, <1>2, <1>4 DEF Inv, TypeOK, SurplusWrites
<1>7. CrashNeedsOverlap'
  BY <1>4 DEF Inv, TypeOK, CrashNeedsOverlap
<1> QED BY <1>5, <1>6, <1>7 DEF Inv

LEMMA InvTransmit ==
  ASSUME Inv, Transmit PROVE Inv'
<1>1. PICK i \in DOMAIN ops :
        /\ wire' = Append(wire,
             [packet |-> ops[i].packet, index |-> ops[i].index,
              size |-> ops[i].size, dangling |-> ~Allocated(ops[i])])
        /\ ops' = [ops EXCEPT ![i].done = TRUE]
  BY DEF Transmit
<1>2. ops \in Seq(Op) /\ i \in 1 .. Len(ops) /\ ops[i] \in Op
  BY LenProperties, ElementOfSeq DEF Inv, TypeOK
<1> DEFINE d == ~Allocated(ops[i])
           w == [packet |-> ops[i].packet, index |-> ops[i].index,
                 size |-> ops[i].size, dangling |-> d]
           o == [ops[i] EXCEPT !.done = TRUE]
<1>3. w \in Piece
  <2>1. d \in BOOLEAN
    OBVIOUS
  <2> HIDE DEF d
  <2> QED BY <1>2, <2>1 DEF Op, Piece
<1>4. o \in Op
  BY <1>2 DEF Op
<1> HIDE DEF w, o
<1>5. wire' \in Seq(Piece)
  <2>1. wire' = Append(wire, w)
    BY <1>1 DEF w
  <2> QED BY <1>3, <2>1, AppendProperties DEF Inv, TypeOK
<1>6. ops' \in Seq(Op) /\ Len(ops') = Len(ops)
  <2>1. ops' = [ops EXCEPT ![i] = o]
    BY <1>1 DEF o
  <2> QED BY <1>2, <1>4, <2>1, ExceptSeq
<1> QED BY <1>5, <1>6
        DEF Inv, TypeOK, SurplusWrites, CrashNeedsOverlap, Transmit

LEMMA InvOnWrite ==
  ASSUME Inv, OnWrite PROVE Inv'
<1>1. UNCHANGED <<wire, packets, overlaps, broken>> /\ ops # <<>>
  BY DEF OnWrite
<1>2. Len(ops) \in Nat \ {0}
  BY <1>1, EmptySeq DEF Inv, TypeOK
<1>3. CASE bq = <<>>
  <2>1. crashed' = TRUE /\ UNCHANGED <<bq, ops>>
    BY <1>3 DEF OnWrite
  <2>2. overlaps > 0
    BY <1>2, <1>3 DEF Inv, TypeOK, SurplusWrites
  <2> QED BY <1>1, <2>1, <2>2
          DEF Inv, TypeOK, SurplusWrites, CrashNeedsOverlap
<1>4. CASE bq # <<>>
  <2>1. bq' = Tail(bq) /\ ops' = DoWrite(bq', Tail(ops)) /\ crashed' = crashed
    BY <1>4 DEF OnWrite
  <2>2. bq' \in Seq(Block)
    BY <1>4, <2>1, HeadTailProperties DEF Inv, TypeOK
  <2>3. Tail(ops) \in Seq(Op) /\ Len(Tail(ops)) = Len(ops) - 1
    BY <1>1, HeadTailProperties DEF Inv, TypeOK
  <2>4. /\ ops' \in Seq(Op)
        /\ Len(ops') = Len(ops) - 1 + (IF bq' = <<>> THEN 0 ELSE 1)
    BY <2>1, <2>2, <2>3, DoWriteType
  <2>5. SurplusWrites'
    BY <1>1, <1>2, <1>4, <2>4 DEF Inv, TypeOK, SurplusWrites
  <2> QED BY <1>1, <2>1, <2>2, <2>4, <2>5 DEF Inv, TypeOK, CrashNeedsOverlap
<1> QED BY <1>3, <1>4

LEMMA InvStep == Inv /\ [Next]_vars => Inv'
<1> SUFFICES ASSUME Inv, [Next]_vars PROVE Inv'
  OBVIOUS
<1>1. ASSUME NEW c \in ContentSizes, Send(c) PROVE Inv'
  BY <1>1, InvSend
<1>2. CASE Transmit
  BY <1>2, InvTransmit
<1>3. CASE OnWrite
  BY <1>3, InvOnWrite
<1>4. CASE Break
  BY <1>4 DEF Inv, TypeOK, SurplusWrites, CrashNeedsOverlap, Break
<1>5. CASE UNCHANGED vars
  BY <1>5 DEF Inv, TypeOK, SurplusWrites, CrashNeedsOverlap, vars
<1> QED BY <1>1, <1>2, <1>3, <1>4, <1>5 DEF Next

\* Blocks, writes and pieces keep their types: no block is empty, and none
\* holds more than it has room for.
THEOREM WriteQueueTypes == Spec => []TypeOK
<1>1. Inv => TypeOK
  BY DEF Inv
<1> QED BY InvInit, InvStep, <1>1, PTL DEF Spec

\* Every send that finds the queue occupied adds one write that nothing will
\* ever take away again.
THEOREM SurplusIsKept == Spec => []SurplusWrites
<1>1. Inv => SurplusWrites
  BY DEF Inv
<1> QED BY InvInit, InvStep, <1>1, PTL DEF Spec

\* The server never pops an empty queue as long as nobody sends to a
\* connection before the previous packet has been written.
THEOREM NoCrashWithoutOverlap == Spec => []CrashNeedsOverlap
<1>1. Inv => CrashNeedsOverlap
  BY DEF Inv
<1> QED BY InvInit, InvStep, <1>1, PTL DEF Spec

-----------------------------------------------------------------------------
(* Sends that do not overlap a write *)

Latest == Len(packets)

\* The queue holds what is left of the latest packet, whose first block has been
\* resized and whose others have not.
Queued ==
  \A i \in 1 .. Len(bq) :
    /\ bq[i].packet = Latest
    /\ bq[i].index = NumBlocks(packets[Latest]) - Len(bq) + i
    /\ bq[i].size = WireSize(packets[Latest], bq[i].index)

\* The only write is that of the front block, from where the block has its bytes.
WritesFront ==
  bq # <<>> =>
    /\ Latest >= 1 /\ Len(bq) <= NumBlocks(packets[Latest])
    /\ ops[1].packet = bq[1].packet /\ ops[1].index = bq[1].index
    /\ ops[1].size = bq[1].size /\ ops[1].chunk = bq[1].chunk

SentBlock(p, i) ==
  /\ wire # <<>>
  /\ wire[Len(wire)].packet = p /\ wire[Len(wire)].index = i

\* As long as the peer is there, what went out ends where the queue begins, or
\* with the front block, whose completion is then still to come.
Position ==
  ~broken =>
    /\ bq = <<>> => SentUpTo(Latest)
    /\ bq # <<>> /\ ops[1].done => SentBlock(Latest, bq[1].index)
    /\ bq # <<>> /\ ~ops[1].done /\ bq[1].index > 1
         => SentBlock(Latest, bq[1].index - 1)
    /\ bq # <<>> /\ ~ops[1].done /\ bq[1].index = 1 => SentUpTo(Latest - 1)

WireInOrder ==
  /\ wire # <<>> => wire[1].packet = 1 /\ wire[1].index = 1
  /\ \A i \in 1 .. Len(wire) - 1 : Follows(wire[i], wire[i + 1])
  /\ \A i \in 1 .. Len(wire) : /\ wire[i].packet \in 1 .. Latest
                               /\ ~wire[i].dangling
                               /\ wire[i].size =
                                    WireSize(packets[wire[i].packet],
                                             wire[i].index)

InStep ==
  overlaps = 0 => Queued /\ WritesFront /\ Position /\ WireInOrder

LEMMA NumBlocksPositive ==
  ASSUME NEW c \in ContentSizes PROVE NumBlocks(c) \in Nat \ {0}
<1>1. c \in Nat \ {0} /\ ChunkSize \in Nat \ {0} /\ HeaderSize \in Nat
  BY WriteQueueAssumption
<1>2. /\ HeaderSize + c + ChunkSize - 1 \in Nat
      /\ HeaderSize + c + ChunkSize - 1 >= ChunkSize
  BY <1>1
<1> QED BY <1>1, <1>2 DEF NumBlocks

\* The blocks of a packet once the one in front has been resized.
Resized(p, c, s, moves) ==
  <<Resize(Head(BlocksOf(p, c)), s, moves)>> \o Tail(BlocksOf(p, c))

LEMMA ResizedBlocks ==
  ASSUME NEW p \in 1 .. MaxSends, NEW c \in ContentSizes, NEW s, NEW moves
  PROVE  /\ Len(Resized(p, c, s, moves)) = NumBlocks(c)
         /\ Resized(p, c, s, moves) # <<>>
         /\ Resized(p, c, s, moves)[1].size = s
         /\ \A i \in 1 .. NumBlocks(c) :
              /\ Resized(p, c, s, moves)[i].packet = p
              /\ Resized(p, c, s, moves)[i].index = i
         /\ \A i \in 1 .. NumBlocks(c) :
              i # 1 => Resized(p, c, s, moves)[i].size = ChunkSize
<1> DEFINE q == Resized(p, c, s, moves)
           blocks == BlocksOf(p, c)
           b == Resize(Head(blocks), s, moves)
<1>1. NumBlocks(c) \in Nat \ {0}
  BY NumBlocksPositive
<1>2. /\ blocks \in Seq(Block) /\ blocks # <<>> /\ Len(blocks) = NumBlocks(c)
      /\ \A i \in 1 .. NumBlocks(c) : /\ blocks[i].packet = p
                                      /\ blocks[i].index = i
                                      /\ blocks[i].size = ChunkSize
  BY <1>1, BlocksOfType DEF BlocksOf
<1>3. /\ blocks[1] \in Block /\ Head(blocks) = blocks[1]
      /\ blocks[1].packet = p /\ blocks[1].index = 1
  BY <1>1, <1>2
<1>4. b.packet = p /\ b.index = 1 /\ b.size = s
  <2>1. CASE s = blocks[1].size
    BY <1>3, <2>1 DEF Resize
  <2>2. CASE s # blocks[1].size
    BY <1>3, <2>2 DEF Resize, Block
  <2> QED BY <2>1, <2>2
<1>5. /\ Tail(blocks) \in Seq(Block) /\ Len(Tail(blocks)) = NumBlocks(c) - 1
      /\ \A i \in 1 .. NumBlocks(c) - 1 : Tail(blocks)[i] = blocks[i + 1]
  BY <1>2, HeadTailProperties
<1> HIDE DEF blocks, b, q
<1>6. q = <<b>> \o Tail(blocks)
  BY DEF q, b, blocks, Resized
<1>7. /\ Len(q) = NumBlocks(c) /\ q[1] = b
      /\ \A i \in 2 .. Len(q) : q[i] = Tail(blocks)[i - 1]
  BY <1>1, <1>5, <1>6
<1>8. ASSUME NEW i \in 1 .. Len(q)
      PROVE  /\ q[i].packet = p /\ q[i].index = i
             /\ i # 1 => q[i].size = ChunkSize
  <2>1. CASE i = 1
    BY <1>4, <1>7, <2>1
  <2>2. CASE i # 1
    <3>1. i \in 2 .. Len(q) /\ i - 1 \in 1 .. NumBlocks(c) - 1
          /\ (i - 1) + 1 = i /\ i \in 1 .. NumBlocks(c)
      BY <1>1, <1>7, <2>2
    <3>2. q[i] = blocks[(i - 1) + 1]
      BY <1>5, <1>7, <3>1
    <3> QED BY <1>2, <3>1, <3>2
  <2> QED BY <2>1, <2>2
<1>9. q # <<>>
  BY <1>1, <1>7, EmptySeq
<1> QED BY <1>4, <1>7, <1>8, <1>9 DEF q

\* The packets sent so far are what they were, when another is sent.
LEMMA OlderPackets ==
  ASSUME TypeOK, NEW c \in ContentSizes, packets' = Append(packets, c)
  PROVE  /\ Latest \in Nat /\ Latest' = Latest + 1 /\ packets'[Latest'] = c
         /\ \A p \in 1 .. Latest : packets'[p] = packets[p]
BY DEF TypeOK, Latest

LEMMA InStepSend ==
  ASSUME Inv, InStep, NEW c \in ContentSizes, Send(c) PROVE InStep'
<1> SUFFICES ASSUME overlaps' = 0
             PROVE  Queued' /\ WritesFront' /\ Position' /\ WireInOrder'
  BY DEF InStep
<1>1. /\ overlaps = 0 /\ bq = <<>>
  BY DEF Send, Inv, TypeOK
<1>2. TypeOK /\ ops = <<>>
  <2>1. ops \in Seq(Op) /\ Len(ops) = 0
    BY <1>1 DEF Inv, TypeOK, SurplusWrites
  <2> QED BY <2>1, EmptySeq DEF Inv
<1>3. /\ packets' = Append(packets, c) /\ wire' = wire /\ broken' = broken
      /\ ops' = DoWrite(bq', ops) /\ Len(packets) < MaxSends
  BY DEF Send
<1>4. /\ Latest \in Nat /\ Latest' = Latest + 1 /\ packets'[Latest'] = c
      /\ \A p \in 1 .. Latest : packets'[p] = packets[p]
  BY <1>2, <1>3, OlderPackets
<1>5. /\ Len(bq') = NumBlocks(c) /\ bq' # <<>>
      /\ bq'[1].size = Fill(c, NumBlocks(c))
      /\ \A i \in 1 .. Len(bq') : bq'[i].packet = Latest' /\ bq'[i].index = i
      /\ \A i \in 1 .. Len(bq') : i # 1 => bq'[i].size = ChunkSize
  <2> DEFINE p == Len(packets) + 1
  <2>1. p \in 1 .. MaxSends /\ p = Latest'
    BY <1>3, <1>4, WriteQueueAssumption DEF Latest
  <2>2. bq \o BlocksOf(p, c) = BlocksOf(p, c)
    BY <1>1, <2>1, BlocksOfType
  <2>3. PICK moves \in BOOLEAN :
          bq' = <<Resize(Head(BlocksOf(p, c)), Fill(c, NumBlocks(c)), moves)>>
                  \o Tail(BlocksOf(p, c))
    BY <2>2 DEF Send
  <2>4. bq' = Resized(p, c, Fill(c, NumBlocks(c)), moves)
    BY <2>3 DEF Resized
  <2> HIDE DEF p
  <2> QED BY <2>1, <2>4, ResizedBlocks
<1>6. NumBlocks(c) \in Nat \ {0}
  BY NumBlocksPositive
<1>7. /\ Head(bq') = bq'[1] /\ bq'[1].packet = Latest' /\ bq'[1].index = 1
  BY <1>5, <1>6
<1>8. /\ ops'[1].packet = bq'[1].packet /\ ops'[1].index = bq'[1].index
      /\ ops'[1].size = bq'[1].size /\ ops'[1].chunk = bq'[1].chunk
      /\ ~ops'[1].done
  <2>1. ops' = <<WriteOp(bq'[1])>>
    BY <1>2, <1>3, <1>5, <1>7 DEF DoWrite
  <2> QED BY <2>1 DEF WriteOp
<1>9. Queued'
  <2> SUFFICES ASSUME NEW i \in 1 .. Len(bq')
               PROVE  /\ bq'[i].packet = Latest'
                      /\ bq'[i].index =
                           NumBlocks(packets'[Latest']) - Len(bq') + i
                      /\ bq'[i].size =
                           WireSize(packets'[Latest'], bq'[i].index)
    BY DEF Queued, WireSize
  <2>1. bq'[i].packet = Latest' /\ bq'[i].index = i /\ i \in Nat
    BY <1>5, <1>6
  <2>2. bq'[i].index = NumBlocks(packets'[Latest']) - Len(bq') + i
    BY <1>4, <1>5, <1>6, <2>1
  <2>3. bq'[i].size = WireSize(c, i)
    BY <1>5 DEF WireSize
  <2> QED BY <1>4, <2>1, <2>2, <2>3
<1>10. WritesFront'
  <2>1. Latest' >= 1 /\ Len(bq') <= NumBlocks(packets'[Latest'])
    BY <1>4, <1>5, <1>6
  <2> QED BY <1>8, <2>1 DEF WritesFront
<1>11. Position'
  <2>1. ~broken => SentUpTo(Latest)
    BY <1>1 DEF InStep, Position
  <2>2. Latest' - 1 = Latest
    BY <1>4
  <2>3. SentUpTo(Latest) => SentUpTo(Latest - 1)'
    <3>1. Latest # 0 => packets'[Latest] = packets[Latest]
      BY <1>4
    <3> QED BY <1>3, <2>2, <3>1 DEF SentUpTo
  <2> QED BY <1>3, <1>5, <1>7, <1>8, <2>1, <2>3 DEF Position
<1>12. WireInOrder'
  <2>1. WireInOrder /\ Len(wire) \in Nat
    BY <1>1, <1>2 DEF InStep, TypeOK
  <2>2. ASSUME NEW i \in 1 .. Len(wire)
        PROVE  /\ wire[i].packet \in 1 .. Latest'
               /\ packets'[wire[i].packet] = packets[wire[i].packet]
    BY <1>4, <2>1 DEF WireInOrder
  <2>3. ASSUME NEW i \in 1 .. Len(wire) - 1
        PROVE  Follows(wire[i], wire[i + 1])'
    <3>1. i \in 1 .. Len(wire) /\ Follows(wire[i], wire[i + 1])
      BY <2>1 DEF WireInOrder
    <3> QED BY <1>3, <2>2, <3>1 DEF Follows
  <2>4. ASSUME NEW i \in 1 .. Len(wire)
        PROVE  /\ ~wire[i].dangling
               /\ wire[i].size = WireSize(packets'[wire[i].packet],
                                          wire[i].index)
    BY <2>1, <2>2 DEF WireInOrder
  <2> QED BY <1>3, <2>1, <2>2, <2>3, <2>4 DEF WireInOrder
<1> QED BY <1>9, <1>10, <1>11, <1>12

\* The front block and the only write, when the queue is not empty.
LEMMA FrontBlock ==
  ASSUME Inv, InStep, overlaps = 0, ops # <<>>
  PROVE  /\ bq \in Seq(Block) /\ bq # <<>> /\ Len(bq) \in Nat \ {0}
         /\ Len(ops) = 1 /\ ops[1] \in Op
         /\ Latest \in Nat \ {0} /\ packets[Latest] \in ContentSizes
         /\ NumBlocks(packets[Latest]) \in Nat \ {0}
         /\ Len(bq) <= NumBlocks(packets[Latest])
         /\ bq[1].packet = Latest
         /\ bq[1].index = NumBlocks(packets[Latest]) - Len(bq) + 1
<1>1. bq \in Seq(Block) /\ ops \in Seq(Op) /\ packets \in Seq(ContentSizes)
  BY DEF Inv, TypeOK
<1>2. Len(ops) \in Nat \ {0}
  BY <1>1, EmptySeq
<1>3. bq # <<>> /\ Len(ops) = 1
  BY <1>2 DEF Inv, SurplusWrites
<1>4. Len(bq) \in Nat \ {0}
  BY <1>1, <1>3, EmptySeq
<1>5. ops[1] \in Op
  BY <1>1, <1>3
<1>6. Latest \in Nat \ {0} /\ packets[Latest] \in ContentSizes
  BY <1>1, <1>3 DEF InStep, WritesFront, Latest
<1>7. NumBlocks(packets[Latest]) \in Nat \ {0}
  BY <1>6, NumBlocksPositive
<1>8. /\ Len(bq) <= NumBlocks(packets[Latest]) /\ bq[1].packet = Latest
      /\ bq[1].index = NumBlocks(packets[Latest]) - Len(bq) + 1
  BY <1>3, <1>4 DEF InStep, WritesFront, Queued
<1> QED BY <1>1, <1>3, <1>4, <1>5, <1>6, <1>7, <1>8

LEMMA InStepTransmit ==
  ASSUME Inv, InStep, Transmit PROVE InStep'
<1> SUFFICES ASSUME overlaps' = 0
             PROVE  Queued' /\ WritesFront' /\ Position' /\ WireInOrder'
  BY DEF InStep
<1>1. overlaps = 0 /\ bq' = bq /\ packets' = packets /\ ~broken
      /\ Latest' = Latest
  BY DEF Transmit, Latest
<1>2. PICK i \in DOMAIN ops :
        /\ ~ops[i].done
        /\ wire' = Append(wire,
             [packet |-> ops[i].packet, index |-> ops[i].index,
              size |-> ops[i].size, dangling |-> ~Allocated(ops[i])])
        /\ ops' = [ops EXCEPT ![i].done = TRUE]
  BY DEF Transmit
<1>3. ops \in Seq(Op) /\ ops # <<>> /\ wire \in Seq(Piece)
      /\ Len(wire) \in Nat
  BY <1>2 DEF Inv, TypeOK
<1>4. /\ bq \in Seq(Block) /\ bq # <<>> /\ Len(bq) \in Nat \ {0}
      /\ Len(ops) = 1 /\ ops[1] \in Op
      /\ Latest \in Nat \ {0}
      /\ NumBlocks(packets[Latest]) \in Nat \ {0}
      /\ Len(bq) <= NumBlocks(packets[Latest])
      /\ bq[1].packet = Latest
      /\ bq[1].index = NumBlocks(packets[Latest]) - Len(bq) + 1
  BY <1>1, <1>3, FrontBlock
<1>5. i = 1
  BY <1>3, <1>4
<1>6. /\ ops[1].packet = bq[1].packet /\ ops[1].index = bq[1].index
      /\ ops[1].size = bq[1].size /\ ops[1].chunk = bq[1].chunk
  BY <1>1, <1>4 DEF InStep, WritesFront
<1>7. Allocated(ops[1])
  <2>1. 1 \in DOMAIN bq
    BY <1>4
  <2> QED BY <1>6, <2>1 DEF Allocated
<1> DEFINE w == [packet |-> ops[1].packet, index |-> ops[1].index,
                 size |-> ops[1].size, dangling |-> ~Allocated(ops[1])]
<1>8. /\ w.packet = Latest /\ w.index = bq[1].index /\ w.size = bq[1].size
      /\ ~w.dangling /\ wire' = Append(wire, w)
  BY <1>2, <1>4, <1>5, <1>6, <1>7
<1> HIDE DEF w
<1>9. /\ Len(wire') = Len(wire) + 1 /\ wire'[Len(wire) + 1] = w
      /\ \A j \in 1 .. Len(wire) : wire'[j] = wire[j]
      /\ wire' # <<>>
  <2>1. /\ Len(wire') = Len(wire) + 1 /\ wire'[Len(wire) + 1] = w
        /\ \A j \in 1 .. Len(wire) : wire'[j] = wire[j]
    BY <1>3, <1>8
  <2>2. wire' # <<>>
    BY <1>3, <2>1, EmptySeq
  <2> QED BY <2>1, <2>2
<1>10. /\ ops'[1].packet = ops[1].packet /\ ops'[1].index = ops[1].index
       /\ ops'[1].size = ops[1].size /\ ops'[1].chunk = ops[1].chunk
       /\ ops'[1].done
  BY <1>2, <1>4, <1>5 DEF Op
<1>11. Queued' /\ WritesFront'
  <2>1. Queued /\ WritesFront
    BY <1>1 DEF InStep
  <2>2. Queued'
    BY <1>1, <2>1 DEF Queued
  <2>3. WritesFront'
    BY <1>1, <1>10, <2>1 DEF WritesFront
  <2> QED BY <2>2, <2>3
<1>12. Position'
  <2>1. SentBlock(Latest, bq[1].index)'
    BY <1>1, <1>8, <1>9 DEF SentBlock
  <2> QED BY <1>1, <1>4, <1>10, <2>1 DEF Position
<1>13. WireInOrder /\ Position
  BY <1>1 DEF InStep
<1>14. wire # <<>> => Follows(wire[Len(wire)], w)
  <2> DEFINE x == wire[Len(wire)]
  <2>1. CASE bq[1].index > 1
    <3>1. x.packet = Latest /\ x.index = bq[1].index - 1
      BY <1>1, <1>2, <1>4, <1>5, <1>13, <2>1 DEF Position, SentBlock
    <3>2. x.index < NumBlocks(packets[x.packet]) /\ w.index = x.index + 1
      BY <1>4, <1>8, <3>1
    <3> QED BY <1>8, <3>1, <3>2 DEF Follows
  <2>2. CASE bq[1].index = 1
    <3>1. SentUpTo(Latest - 1)
      BY <1>1, <1>2, <1>4, <1>5, <1>13, <2>2 DEF Position
    <3>2. CASE wire # <<>>
      <4>1. x.packet = Latest - 1 /\ x.index = NumBlocks(packets[x.packet])
        BY <3>1, <3>2 DEF SentUpTo
      <4>2. x.packet \in 1 .. Latest
        <5>1. Len(wire) \in 1 .. Len(wire)
          BY <1>3, <3>2, EmptySeq
        <5> QED BY <1>13, <5>1 DEF WireInOrder
      <4>3. NumBlocks(packets[x.packet]) \in Nat
        <5>1. packets[x.packet] \in ContentSizes
          BY <4>2 DEF Inv, TypeOK, Latest
        <5> QED BY <5>1, NumBlocksPositive
      <4>4. ~(x.index < NumBlocks(packets[x.packet]))
            /\ w.packet = x.packet + 1 /\ w.index = 1
        BY <1>4, <1>8, <2>2, <4>1, <4>3
      <4> QED BY <4>4 DEF Follows
    <3> QED BY <3>2
  <2> QED BY <1>4, <2>1, <2>2
<1>15. wire = <<>> => w.packet = 1 /\ w.index = 1
  <2>1. CASE bq[1].index > 1
    BY <1>1, <1>2, <1>4, <1>5, <1>13, <2>1 DEF Position, SentBlock
  <2>2. CASE bq[1].index = 1
    <3>1. SentUpTo(Latest - 1)
      BY <1>1, <1>2, <1>4, <1>5, <1>13, <2>2 DEF Position
    <3> QED BY <1>4, <1>8, <2>2, <3>1 DEF SentUpTo
  <2> QED BY <1>4, <2>1, <2>2
<1>16. w.size = WireSize(packets[w.packet], w.index)
  <2>1. bq[1].size = WireSize(packets[Latest], bq[1].index)
    BY <1>1, <1>4 DEF InStep, Queued
  <2> QED BY <1>8, <2>1
<1>17. WireInOrder'
  <2>1. \A x, y : Follows(x, y)' <=> Follows(x, y)
    BY <1>1 DEF Follows
  <2>2. wire'[1].packet = 1 /\ wire'[1].index = 1
    <3>1. CASE wire = <<>>
      <4>1. wire'[1] = w
        BY <1>8, <3>1
      <4> QED BY <1>15, <3>1, <4>1
    <3>2. CASE wire # <<>>
      <4>1. 1 \in 1 .. Len(wire)
        BY <1>3, <3>2, EmptySeq
      <4> QED BY <1>9, <1>13, <3>2, <4>1 DEF WireInOrder
    <3> QED BY <3>1, <3>2
  <2>3. ASSUME NEW j \in 1 .. Len(wire') - 1
        PROVE  Follows(wire'[j], wire'[j + 1])
    <3>1. CASE j = Len(wire)
      <4>1. wire # <<>> /\ Len(wire) \in 1 .. Len(wire)
        BY <1>3, <3>1
      <4> QED BY <1>9, <1>14, <3>1, <4>1
    <3>2. CASE j # Len(wire)
      <4>1. j \in 1 .. Len(wire) - 1 /\ j \in 1 .. Len(wire)
            /\ j + 1 \in 1 .. Len(wire)
        BY <1>3, <1>9, <3>2
      <4> QED BY <1>9, <1>13, <4>1 DEF WireInOrder
    <3> QED BY <3>1, <3>2
  <2>4. ASSUME NEW j \in 1 .. Len(wire')
        PROVE  /\ wire'[j].packet \in 1 .. Latest
               /\ ~wire'[j].dangling
               /\ wire'[j].size = WireSize(packets[wire'[j].packet],
                                           wire'[j].index)
    <3>1. CASE j = Len(wire) + 1
      <4>1. w.packet \in 1 .. Latest
        BY <1>4, <1>8
      <4> QED BY <1>8, <1>9, <1>16, <3>1, <4>1
    <3>2. CASE j # Len(wire) + 1
      <4>1. j \in 1 .. Len(wire)
        BY <1>3, <1>9, <3>2
      <4> QED BY <1>9, <1>13, <4>1 DEF WireInOrder
    <3> QED BY <3>1, <3>2
  <2> QED BY <1>1, <2>1, <2>2, <2>3, <2>4 DEF WireInOrder, WireSize
<1> QED BY <1>11, <1>12, <1>17

LEMMA InStepOnWrite ==
  ASSUME Inv, InStep, OnWrite PROVE InStep'
<1> SUFFICES ASSUME overlaps' = 0
             PROVE  Queued' /\ WritesFront' /\ Position' /\ WireInOrder'
  BY DEF InStep
<1>1. /\ overlaps = 0 /\ packets' = packets /\ wire' = wire
      /\ broken' = broken /\ Latest' = Latest /\ ops # <<>>
      /\ Head(ops).done \/ broken
  BY DEF OnWrite, Latest
<1>2. /\ bq \in Seq(Block) /\ bq # <<>> /\ Len(bq) \in Nat \ {0}
      /\ Len(ops) = 1 /\ ops[1] \in Op
      /\ Latest \in Nat \ {0}
      /\ NumBlocks(packets[Latest]) \in Nat \ {0}
      /\ Len(bq) <= NumBlocks(packets[Latest])
      /\ bq[1].packet = Latest
      /\ bq[1].index = NumBlocks(packets[Latest]) - Len(bq) + 1
  BY <1>1, FrontBlock
<1>3. bq' = Tail(bq) /\ ops' = DoWrite(bq', Tail(ops))
  BY <1>2 DEF OnWrite
<1>4. /\ Len(bq') = Len(bq) - 1 /\ bq' \in Seq(Block)
      /\ \A i \in 1 .. Len(bq') : bq'[i] = bq[i + 1]
  BY <1>2, <1>3, HeadTailProperties
<1>5. ops \in Seq(Op) /\ Head(ops) = ops[1] /\ Tail(ops) = <<>>
  <2>1. ops \in Seq(Op)
    BY DEF Inv, TypeOK
  <2>2. Head(ops) = ops[1]
    BY <2>1
  <2>3. Tail(ops) \in Seq(Op) /\ Len(Tail(ops)) = Len(ops) - 1
    BY <1>1, <2>1, HeadTailProperties
  <2>4. Len(ops) = 1
    BY <1>2
  <2>5. Tail(ops) \in Seq(Op) /\ Len(Tail(ops)) = 0
    BY <2>3, <2>4
  <2>6. PICK rest \in Seq(Op) : rest = Tail(ops) /\ Len(rest) = 0
    BY Zenon, <2>5
  <2>7. rest = <<>>
    BY <2>6, EmptySeq
  <2> QED BY <2>1, <2>2, <2>6, <2>7
<1>6. bq' # <<>> =>
        /\ Len(bq') >= 1 /\ Head(bq') = bq'[1] /\ bq'[1] = bq[2]
        /\ ops' = <<WriteOp(bq'[1])>>
  <2> SUFFICES ASSUME bq' # <<>>
               PROVE  /\ Len(bq') >= 1 /\ Head(bq') = bq'[1] /\ bq'[1] = bq[2]
                      /\ ops' = <<WriteOp(bq'[1])>>
    OBVIOUS
  <2>1. Len(bq') >= 1
    BY <1>4, EmptySeq
  <2>2. Head(bq') = bq'[1] /\ bq'[1] = bq[2]
    BY <1>4, <2>1
  <2>3. ops' = Append(<<>>, WriteOp(bq'[1]))
    BY <1>3, <1>5, <2>2 DEF DoWrite
  <2> HIDE DEF WriteOp
  <2>4. ops' = <<WriteOp(bq'[1])>>
    BY <2>3
  <2> QED BY <2>1, <2>2, <2>4
<1>7. Queued /\ Position /\ WireInOrder
  BY <1>1 DEF InStep
<1>8. Queued'
  <2> SUFFICES ASSUME NEW i \in 1 .. Len(bq')
               PROVE  /\ bq'[i].packet = Latest
                      /\ bq'[i].index =
                           NumBlocks(packets[Latest]) - Len(bq') + i
                      /\ bq'[i].size = WireSize(packets[Latest], bq'[i].index)
    BY <1>1 DEF Queued, WireSize
  <2>1. i + 1 \in 1 .. Len(bq) /\ i \in Nat
    BY <1>2, <1>4
  <2>2. bq'[i] = bq[i + 1]
    BY <1>4
  <2>3. /\ bq[i + 1].packet = Latest
        /\ bq[i + 1].index = NumBlocks(packets[Latest]) - Len(bq) + (i + 1)
        /\ bq[i + 1].size = WireSize(packets[Latest], bq[i + 1].index)
    BY <1>7, <2>1 DEF Queued
  <2> QED BY <1>2, <1>4, <2>1, <2>2, <2>3
<1>9. WritesFront'
  <2>1. bq' # <<>> =>
          /\ ops'[1].packet = bq'[1].packet /\ ops'[1].index = bq'[1].index
          /\ ops'[1].size = bq'[1].size /\ ops'[1].chunk = bq'[1].chunk
    BY <1>6 DEF WriteOp
  <2>2. Latest >= 1 /\ Len(bq') <= NumBlocks(packets[Latest])
    BY <1>2, <1>4
  <2> QED BY <1>1, <2>1, <2>2 DEF WritesFront
<1>10. Position'
  <2> SUFFICES ASSUME ~broken PROVE Position'
    BY <1>1 DEF Position
  <2>1. SentBlock(Latest, bq[1].index)
    BY <1>1, <1>2, <1>5, <1>7 DEF Position
  <2>2. CASE bq' = <<>>
    <3>1. bq[1].index = NumBlocks(packets[Latest])
      <4>1. Len(<<>>) = 0
        OBVIOUS
      <4>2. Len(bq') = 0 /\ Len(bq') = Len(bq) - 1
        BY <1>4, <2>2, <4>1
      <4>3. Len(bq) = 1
        BY <1>2, <4>2
      <4> QED BY <1>2, <4>3
    <3>2. SentUpTo(Latest)'
      BY <1>1, <1>2, <2>1, <3>1 DEF SentBlock, SentUpTo
    <3> QED BY <2>2, <3>2 DEF Position
  <2>3. CASE bq' # <<>>
    <3>1. ~ops'[1].done
      BY <1>6, <2>3 DEF WriteOp
    <3>2. bq'[1].index = bq[1].index + 1 /\ bq'[1].index > 1
          /\ bq'[1].index - 1 = bq[1].index
      <4>1. 1 \in 1 .. Len(bq')
        BY <1>4, <1>6, <2>3
      <4>2. bq'[1].index = NumBlocks(packets[Latest]) - Len(bq') + 1
        BY <1>1, <1>8, <4>1 DEF Queued
      <4>3. Len(bq') = Len(bq) - 1 /\ Len(bq) \in Nat
        BY <1>4
      <4>4. /\ NumBlocks(packets[Latest]) \in Nat
            /\ Len(bq) <= NumBlocks(packets[Latest])
            /\ bq[1].index = NumBlocks(packets[Latest]) - Len(bq) + 1
        BY <1>2
      <4> QED BY <4>2, <4>3, <4>4
    <3>3. SentBlock(Latest, bq[1].index - 1)'
      BY <1>1, <2>1, <3>2 DEF SentBlock
    <3> QED BY <2>3, <3>1, <3>2, <3>3 DEF Position
  <2> QED BY <2>2, <2>3
<1>11. WireInOrder'
  BY <1>1, <1>7 DEF WireInOrder, Follows, WireSize
<1> QED BY <1>8, <1>9, <1>10, <1>11

LEMMA InStepStep == Inv /\ InStep /\ [Next]_vars => InStep'
<1> SUFFICES ASSUME Inv, InStep, [Next]_vars PROVE InStep'
  OBVIOUS
<1>1. ASSUME NEW c \in ContentSizes, Send(c) PROVE InStep'
  BY <1>1, InStepSend
<1>2. CASE Transmit
  BY <1>2, InStepTransmit
<1>3. CASE OnWrite
  BY <1>3, InStepOnWrite
<1>4. ASSUME Break \/ UNCHANGED vars PROVE InStep'
  <2>1. /\ bq' = bq /\ ops' = ops /\ wire' = wire /\ packets' = packets
        /\ overlaps' = overlaps /\ Latest' = Latest
        /\ ~broken' => ~broken
    BY <1>4 DEF Break, vars, Latest
  <2>2. overlaps = 0 => Queued' /\ WritesFront' /\ WireInOrder'
    BY <2>1 DEF InStep, Queued, WritesFront, WireInOrder, Follows, WireSize
  <2>3. overlaps = 0 => Position'
    BY <2>1 DEF InStep, Position, SentBlock, SentUpTo
  <2> QED BY <2>1, <2>2, <2>3 DEF InStep
<1> QED BY <1>1, <1>2, <1>3, <1>4 DEF Next

LEMMA InStepInit == Init => InStep
<1> SUFFICES ASSUME Init PROVE Queued /\ WritesFront /\ Position /\ WireInOrder
  BY DEF InStep
<1>1. /\ bq = <<>> /\ wire = <<>> /\ packets = <<>>
      /\ Len(bq) = 0 /\ Len(wire) = 0 /\ Latest = 0
  BY DEF Init, Latest
<1> QED BY <1>1 DEF Queued, WritesFront, Position, WireInOrder, SentUpTo

\* As long as nobody sends to a connection before the previous packet has been
\* written, what goes out is every block of every packet, once and in order,
\* from memory that is still the block's.  The first block goes out as long as
\* the last one of its packet is filled and the others go out full, so that only
\* a packet of one block is sure of its own size; for every header and block
\* size and all content sizes.
THEOREM IntactIfNoOverlap == Spec => []IntactWithoutOverlap
<1>1. Inv /\ InStep => IntactWithoutOverlap
  <2> SUFFICES ASSUME Inv, InStep, overlaps = 0
               PROVE  /\ WireInOrder
                      /\ DOMAIN wire = 1 .. Len(wire)
                      /\ DOMAIN packets = 1 .. Latest
                      /\ bq = <<>> /\ ~broken => SentUpTo(Latest)
    BY DEF IntactWithoutOverlap, WireInOrder, Latest
  <2>1. DOMAIN wire = 1 .. Len(wire) /\ DOMAIN packets = 1 .. Latest
    BY LenProperties DEF Inv, TypeOK, Latest
  <2> QED BY <2>1 DEF InStep, Position
<1> QED BY InvInit, InvStep, InStepInit, InStepStep, <1>1, PTL DEF Spec

=============================================================================
