------------------------------ MODULE Framing -------------------------------
(***************************************************************************)
(* How a connection turns the TCP byte stream back into packets.           *)
(*                                                                         *)
(* on_read receives an arbitrary piece of the stream, at most CHUNK_SIZE   *)
(* bytes, in the member array chunk.  ProcessData feeds it to              *)
(* Message_Packet::Process, which fills the fixed-size header, reads the   *)
(* body length out of it, and fills the body; when a packet is complete it *)
(* goes to Handler, the packet is cleared, and ProcessData recurses on     *)
(* what is left of the chunk.  server/Message.cpp and CHATROOM/message.cpp *)
(* are the same code; the two ends differ only in what on_read does at end *)
(* of file (RereadsAtEof).                                                 *)
(*                                                                         *)
(* A packet is identified by the stream position its header starts at, so  *)
(* bytes are positions and their values are left out, except for the       *)
(* length field.                                                           *)
(***************************************************************************)
EXTENDS Naturals, Sequences

CONSTANTS
  HeaderSize,      \* Header_Size
  ChunkSize,       \* CHUNK_SIZE
  BodyLens,        \* content sizes that the peer sends
  Indeterminate,   \* values a length nobody wrote can have: content_length
                   \* before the first header, or a field read off a header
  RereadsAtEof,    \* does on_read go on at end of file (the client's does)
  MaxMessages      \* bound: packets sent on the stream

\* Every sender of the program writes at least one byte of content.
ASSUME FramingAssumption ==
  /\ HeaderSize \in Nat \ {0} /\ ChunkSize \in Nat \ {0}
  /\ BodyLens \subseteq Nat \ {0}
  /\ Indeterminate \subseteq Nat /\ Indeterminate # {}
  /\ RereadsAtEof \in BOOLEAN /\ MaxMessages \in Nat

VARIABLES
  sent,            \* packets written by the peer: [start, len]
  limit,           \* bytes of the stream that will ever arrive
  closed,          \* the peer has closed or died
  recvd,           \* bytes given to on_read so far
  size,            \* bytes of chunk not processed yet
  h_cursor, b_cursor, content_length,   \* members of Message_Packet
  pc,              \* "waiting" in async_read_some, "processing", "stopped"
  handled          \* packets given to Handler: [start, len]

peer   == <<sent, limit, closed>>
packet == <<h_cursor, b_cursor, content_length>>
vars   == <<sent, limit, closed, recvd, size, h_cursor, b_cursor,
            content_length, pc, handled>>

\* Where the packet being read begins in the stream.
Base == recvd - (size + h_cursor + b_cursor)

Written ==
  IF sent = <<>> THEN 0
  ELSE sent[Len(sent)].start + HeaderSize + sent[Len(sent)].len

TypeOK ==
  /\ sent \in Seq([start : Nat, len : BodyLens])
  /\ handled \in Seq([start : Nat, len : Nat])
  /\ limit \in Nat /\ recvd \in 0 .. limit /\ closed \in BOOLEAN
  /\ size \in 0 .. ChunkSize
  /\ h_cursor \in 0 .. HeaderSize /\ b_cursor \in Nat
  /\ content_length \in Nat
  /\ pc \in {"waiting", "processing", "stopped"}

Init ==
  /\ sent = <<>> /\ limit = 0 /\ closed = FALSE
  /\ recvd = 0 /\ size = 0
  /\ h_cursor = 0 /\ b_cursor = 0
  /\ content_length \in Indeterminate     \* the constructor leaves it unset
  /\ pc = "waiting" /\ handled = <<>>

-----------------------------------------------------------------------------
(* The peer and the network *)

Send(len) ==
  /\ ~closed /\ Len(sent) < MaxMessages
  /\ sent' = Append(sent, [start |-> Written, len |-> len])
  /\ limit' = Written + HeaderSize + len
  /\ UNCHANGED <<closed, recvd, size, packet, pc, handled>>

\* The peer goes; what it had not yet got onto the network is lost.
PeerClose ==
  /\ ~closed /\ closed' = TRUE
  /\ limit' \in recvd .. limit
  /\ UNCHANGED <<sent, recvd, size, packet, pc, handled>>

-----------------------------------------------------------------------------
(* Message_Packet *)

WriteHeader_NoLimit(room, sz) == sz

\* write_header: bytes of the chunk that go to the header.
WriteHeader(room, sz) == IF sz < room THEN sz ELSE room

WriteBody_Greedy(room, sz) == sz

\* write_body: bytes of the chunk that go to the body.
WriteBody(room, sz) == IF room > sz THEN sz ELSE room

DecodedLength_Stale(base) == {content_length}

\* The value of the content length field of a header that starts at base.
DecodedLength(base) ==
  IF \E i \in DOMAIN sent : sent[i].start = base
  THEN {sent[i].len : i \in {j \in DOMAIN sent : sent[j].start = base}}
  ELSE Indeterminate

\* What one call of Process takes out of the chunk.
HeaderRead ==
  IF h_cursor < HeaderSize
  THEN WriteHeader(HeaderSize - h_cursor, size) ELSE 0

HeaderFull == h_cursor + HeaderRead = HeaderSize

BodyRead(cl) ==
  IF HeaderFull THEN WriteBody(cl - b_cursor, size - HeaderRead) ELSE 0

\* content_length afterwards: decoded if this call completes the header.
LengthAfter ==
  IF h_cursor < HeaderSize /\ HeaderFull
  THEN DecodedLength(Base) ELSE {content_length}

\* Process returns incomplete: the packet waits for the next chunk.
Incomplete(cl) ==
  /\ b_cursor + BodyRead(cl) # cl
  /\ h_cursor' = h_cursor + HeaderRead
  /\ b_cursor' = b_cursor + BodyRead(cl)
  /\ pc' = "waiting"
  /\ UNCHANGED handled

ClearedBody_Kept == b_cursor

\* Clear: b_cursor after a packet has been handled.
ClearedBody == 0

Recurse_Never(sz) == "waiting"

\* ProcessData recurses while bytes are left, then on_read calls do_read.
Recurse(sz) == IF sz # 0 THEN "processing" ELSE "waiting"

\* Process returns complete: Handler gets the packet, which is then cleared.
\* The test does not ask whether the header is complete.
Complete(cl) ==
  /\ b_cursor + BodyRead(cl) = cl
  /\ handled' = Append(handled, [start |-> Base, len |-> cl])
  /\ h_cursor' = 0 /\ b_cursor' = ClearedBody
  /\ pc' = Recurse(size')

\* One call of ProcessData.
ProcessData ==
  /\ pc = "processing"
  /\ \E cl \in LengthAfter :
       /\ size' = size - (HeaderRead + BodyRead(cl))
       /\ content_length' = cl
       /\ Complete(cl) \/ Incomplete(cl)
  /\ UNCHANGED <<peer, recvd>>

-----------------------------------------------------------------------------
(* The connection *)

\* on_read without error: the next k bytes of the stream, from chunk[0] on.
OnRead(k) ==
  /\ pc = "waiting" /\ k <= limit - recvd
  /\ recvd' = recvd + k /\ size' = k
  /\ pc' = "processing"
  /\ UNCHANGED <<peer, packet, handled>>

\* on_read at end of file.  The server's Error_Handler removes the client
\* and nothing is read any more; the client's processes zero bytes and goes on,
\* for ever (the last conjunct bounds the packets it can handle that way).
OnEof ==
  /\ pc = "waiting" /\ closed /\ recvd = limit
  /\ Len(handled) <= MaxMessages
  /\ size' = 0
  /\ pc' = IF RereadsAtEof THEN "processing" ELSE "stopped"
  /\ UNCHANGED <<peer, recvd, packet, handled>>

Read == \E k \in 1 .. ChunkSize : OnRead(k)

Next ==
  \/ \E len \in BodyLens : Send(len)
  \/ PeerClose
  \/ ProcessData
  \/ Read
  \/ OnEof

\* io_context::run dispatches a ready read, and a handler runs to its end.
Fairness == WF_vars(Read) /\ WF_vars(ProcessData)

Spec == Init /\ [][Next]_vars /\ Fairness

-----------------------------------------------------------------------------
(* Properties *)

\* What Handler has been given is a prefix of what the peer sent: no packet is
\* split, merged, skipped or invented however TCP cuts the stream, because
\* Process resumes an unfinished packet exactly where the last chunk ended.
PacketsIntact ==
  /\ Len(handled) <= Len(sent)
  /\ \A i \in DOMAIN handled : handled[i] = sent[i]

\* Whatever value content_length started with: once the first packet has come
\* out right, content_length is never the 0 that completes a packet early, and
\* all the later ones come out right.
PacketsIntactOnceStarted ==
  (handled # <<>> /\ sent # <<>> /\ handled[1] = sent[1]) => PacketsIntact

\* do_read overwrites chunk, so it is called only when ProcessData has
\* consumed all of it: no received byte is dropped between two reads.
ChunkConsumed == pc = "waiting" => size = 0

Channel == INSTANCE MessageChannel
             WITH Message <- [start : Nat, len : BodyLens]

\* on_read, ProcessData and Process together implement the packet channel,
\* including its promise that a packet sent on an open connection is handled.
ImplementsChannel == Channel!Spec
=============================================================================
