---------------------------- MODULE FramingProofs ---------------------------
(***************************************************************************)
(* Proofs about module Framing, for every header size, chunk size, set of  *)
(* body lengths and number of packets, and for every way TCP may cut the   *)
(* stream into pieces.                                                     *)
(***************************************************************************)
EXTENDS Framing, SequenceTheorems, TLAPS

\* Where packet i of the stream ends.
End(i) == IF i = 0 THEN 0 ELSE sent[i].start + HeaderSize + sent[i].len

\* What holds whatever value content_length started with: Process never takes
\* more bytes than the chunk has, nor a body longer than its length says.
CursorInv ==
  /\ TypeOK
  /\ limit <= Written
  /\ size + h_cursor + b_cursor <= recvd
  /\ h_cursor < HeaderSize => b_cursor = 0
  /\ b_cursor <= content_length
  /\ pc # "processing" => size = 0

\* The packets lie end to end in the stream, so a position is the start of
\* one packet at most.
Layout ==
  /\ \A i \in DOMAIN sent : sent[i].start = End(i - 1)
  /\ \A i, j \in DOMAIN sent : i < j => End(i) <= sent[j].start

\* The reader is in step with the writer: what is handled is right, the
\* packet being read starts where the last one ended, and a length that is in
\* force is the length of that packet.
Aligned ==
  /\ PacketsIntact
  /\ Base = End(Len(handled))
  /\ h_cursor = HeaderSize =>
       /\ Len(handled) < Len(sent)
       /\ content_length = sent[Len(handled) + 1].len
       /\ b_cursor < content_length
  /\ content_length = 0 => handled = <<>>

-----------------------------------------------------------------------------
(* What one call of Process reads *)

LEMMA SentType ==
  ASSUME TypeOK, NEW i \in DOMAIN sent
  PROVE  /\ sent[i].start \in Nat
         /\ sent[i].len \in Nat \ {0} /\ sent[i].len \in BodyLens
<1>1. sent[i] \in [start : Nat, len : BodyLens]
  <2>1. sent \in Seq([start : Nat, len : BodyLens])
    BY DEF TypeOK
  <2>2. i \in 1 .. Len(sent)
    BY <2>1, LenProperties
  <2> QED BY <2>1, <2>2, ElementOfSeq
<1>2. BodyLens \subseteq Nat \ {0}
  BY FramingAssumption
<1> QED BY <1>1, <1>2

\* The length Process works with is a number, and no smaller than what is
\* already in the body (ProcessData never underflows content_length - b_cursor).
LEMMA LengthAfterType ==
  ASSUME CursorInv, NEW cl \in LengthAfter
  PROVE  cl \in Nat /\ b_cursor <= cl
<1>1. CASE h_cursor < HeaderSize /\ HeaderFull
  <2>1. cl \in DecodedLength(Base)
    BY <1>1 DEF LengthAfter
  <2>2. DecodedLength(Base) \subseteq Nat
    <3>1. \A i \in DOMAIN sent : sent[i].len \in Nat
      BY SentType DEF CursorInv
    <3>2. Indeterminate \subseteq Nat
      BY FramingAssumption
    <3> QED BY <3>1, <3>2 DEF DecodedLength
  <2>3. b_cursor = 0
    BY <1>1 DEF CursorInv
  <2> QED BY <2>1, <2>2, <2>3
<1>2. CASE ~(h_cursor < HeaderSize /\ HeaderFull)
  BY <1>2 DEF LengthAfter, CursorInv, TypeOK
<1> QED BY <1>1, <1>2

\* write_header and write_body take no more than there is and no more than
\* they need, and when the packet stays incomplete they leave nothing.
LEMMA ReadBounds ==
  ASSUME CursorInv, NEW cl \in Nat, b_cursor <= cl
  PROVE  /\ HeaderRead \in Nat /\ HeaderRead <= size
         /\ h_cursor + HeaderRead <= HeaderSize
         /\ BodyRead(cl) \in Nat /\ BodyRead(cl) <= size - HeaderRead
         /\ b_cursor + BodyRead(cl) <= cl
         /\ ~HeaderFull => BodyRead(cl) = 0 /\ HeaderRead = size
         /\ HeaderFull /\ b_cursor + BodyRead(cl) # cl
              => BodyRead(cl) = size - HeaderRead
<1>1. /\ size \in Nat /\ h_cursor \in Nat /\ b_cursor \in Nat
      /\ h_cursor <= HeaderSize /\ HeaderSize \in Nat
  BY FramingAssumption DEF CursorInv, TypeOK
<1>2. /\ HeaderRead \in Nat /\ HeaderRead <= size
      /\ h_cursor + HeaderRead <= HeaderSize
      /\ ~HeaderFull => HeaderRead = size
  BY <1>1 DEF HeaderRead, WriteHeader, HeaderFull
<1>3. CASE HeaderFull
  BY <1>1, <1>2, <1>3 DEF BodyRead, WriteBody
<1>4. CASE ~HeaderFull
  BY <1>1, <1>2, <1>4 DEF BodyRead
<1> QED BY <1>2, <1>3, <1>4

\* Where the stream's end is after one more packet.
LEMMA WrittenType ==
  ASSUME TypeOK PROVE Written \in Nat
<1>1. CASE sent = <<>>
  BY <1>1 DEF Written
<1>2. CASE sent # <<>>
  <2>1. Len(sent) \in DOMAIN sent
    BY <1>2 DEF TypeOK
  <2>2. sent[Len(sent)].start \in Nat /\ sent[Len(sent)].len \in Nat
    BY <2>1, SentType
  <2>3. HeaderSize \in Nat
    BY FramingAssumption
  <2> QED BY <1>2, <2>2, <2>3 DEF Written
<1> QED BY <1>1, <1>2

LEMMA SendWritten ==
  ASSUME TypeOK, NEW len \in BodyLens, Send(len)
  PROVE  /\ Written' = Written + HeaderSize + len
         /\ sent' \in Seq([start : Nat, len : BodyLens])
         /\ Len(sent) \in Nat /\ Len(sent') = Len(sent) + 1
         /\ \A i \in 1 .. Len(sent) : sent'[i] = sent[i]
         /\ sent'[Len(sent) + 1] = [start |-> Written, len |-> len]
<1>1. Written \in Nat
  BY WrittenType
<1>2. sent' = Append(sent, [start |-> Written, len |-> len])
  BY DEF Send
<1> DEFINE P == [start : Nat, len : BodyLens]
           p == [start |-> Written, len |-> len]
<1>3. sent \in Seq(P) /\ p \in P
  BY <1>1 DEF TypeOK
<1> HIDE DEF P
<1>4. /\ sent' \in Seq(P) /\ sent' # <<>> /\ Len(sent') = Len(sent) + 1
      /\ \A i \in 1 .. Len(sent) : sent'[i] = sent[i]
      /\ sent'[Len(sent) + 1] = p
      /\ Len(sent) \in Nat
  BY <1>2, <1>3, AppendProperties, LenProperties
<1>5. Written' = IF sent' = <<>> THEN 0
                 ELSE sent'[Len(sent')].start + HeaderSize
                      + sent'[Len(sent')].len
  BY DEF Written
<1>6. Written' = Written + HeaderSize + len
  <2>1. Written' = sent'[Len(sent')].start + HeaderSize + sent'[Len(sent')].len
    BY <1>4, <1>5
  <2> QED BY <1>4, <2>1
<1> QED BY <1>4, <1>6 DEF P

-----------------------------------------------------------------------------
(* The cursors *)

LEMMA CursorInit == Init => CursorInv
<1> SUFFICES ASSUME Init PROVE CursorInv
  OBVIOUS
<1>1. sent \in Seq([start : Nat, len : BodyLens])
      /\ handled \in Seq([start : Nat, len : Nat])
  BY EmptySeq DEF Init
<1>2. /\ limit = 0 /\ closed = FALSE /\ recvd = 0 /\ size = 0
      /\ h_cursor = 0 /\ b_cursor = 0 /\ content_length \in Nat
      /\ pc = "waiting" /\ Written = 0
  BY FramingAssumption DEF Init, Written
<1>3. HeaderSize \in Nat /\ ChunkSize \in Nat
  BY FramingAssumption
<1>4. TypeOK
  <2>1. /\ recvd \in 0 .. limit /\ size \in 0 .. ChunkSize
        /\ h_cursor \in 0 .. HeaderSize
    BY <1>2, <1>3
  <2> QED BY <1>1, <1>2, <2>1 DEF TypeOK
<1> QED BY <1>2, <1>4 DEF CursorInv

LEMMA CursorProcess ==
  ASSUME CursorInv, ProcessData PROVE CursorInv'
<1> DEFINE hr == HeaderRead
<1>1. PICK cl \in LengthAfter :
        /\ size' = size - (hr + BodyRead(cl))
        /\ content_length' = cl
        /\ Complete(cl) \/ Incomplete(cl)
  BY DEF ProcessData
<1> DEFINE br == BodyRead(cl)
<1>2. cl \in Nat /\ b_cursor <= cl
  BY LengthAfterType
<1>3. /\ hr \in Nat /\ hr <= size /\ h_cursor + hr <= HeaderSize
      /\ br \in Nat /\ br <= size - hr /\ b_cursor + br <= cl
      /\ ~HeaderFull => br = 0 /\ hr = size
      /\ HeaderFull /\ b_cursor + br # cl => br = size - hr
  BY <1>2, ReadBounds
<1>4. UNCHANGED <<sent, limit, closed, recvd>>
  BY DEF ProcessData, peer
<1>5. Written' = Written
  BY <1>4 DEF Written
<1>6. /\ size \in Nat /\ h_cursor \in Nat /\ b_cursor \in Nat
      /\ size <= ChunkSize /\ recvd \in Nat /\ limit \in Nat
      /\ HeaderSize \in Nat \ {0} /\ ChunkSize \in Nat
      /\ size + h_cursor + b_cursor <= recvd
  BY FramingAssumption DEF CursorInv, TypeOK
<1>7. size' \in Nat /\ size' <= size /\ size' = size - (hr + br)
  BY <1>1, <1>3, <1>6
<1> HIDE DEF hr, br
<1>8. CASE Complete(cl)
  <2>1. /\ h_cursor' = 0 /\ b_cursor' = 0
        /\ handled' = Append(handled, [start |-> Base, len |-> cl])
        /\ pc' = IF size' # 0 THEN "processing" ELSE "waiting"
    BY <1>8 DEF Complete, ClearedBody, Recurse
  <2>2. Base \in Nat
    BY <1>6 DEF Base
  <2>3. handled' \in Seq([start : Nat, len : Nat])
    BY <1>2, <2>1, <2>2 DEF CursorInv, TypeOK
  <2>4. TypeOK'
    BY <1>1, <1>2, <1>4, <1>6, <1>7, <2>1, <2>3 DEF CursorInv, TypeOK
  <2>5. /\ (limit <= Written)'
        /\ (size + h_cursor + b_cursor <= recvd)'
    BY <1>4, <1>5, <1>6, <1>7, <2>1 DEF CursorInv
  <2> QED BY <1>1, <1>2, <1>6, <2>1, <2>4, <2>5 DEF CursorInv
<1>9. CASE Incomplete(cl)
  <2>1. /\ h_cursor' = h_cursor + hr /\ b_cursor' = b_cursor + br
        /\ b_cursor + br # cl /\ pc' = "waiting" /\ handled' = handled
    BY <1>9 DEF Incomplete, hr, br
  <2>2. size' = 0
    BY <1>3, <1>6, <1>7, <2>1
  <2>3. TypeOK'
    BY <1>1, <1>2, <1>3, <1>4, <1>6, <2>1, <2>2 DEF CursorInv, TypeOK
  <2>4. /\ (limit <= Written)'
        /\ (size + h_cursor + b_cursor <= recvd)'
    BY <1>3, <1>4, <1>5, <1>6, <1>7, <2>1 DEF CursorInv
  <2>5. (h_cursor < HeaderSize => b_cursor = 0)'
    <3>1. HeaderFull <=> h_cursor + hr = HeaderSize
      BY DEF HeaderFull, hr
    <3>2. CASE h_cursor' < HeaderSize
      BY <1>3, <1>6, <2>1, <3>1, <3>2 DEF CursorInv
    <3> QED BY <3>2
  <2> QED BY <1>1, <1>3, <2>1, <2>2, <2>3, <2>4, <2>5 DEF CursorInv
<1> QED BY <1>1, <1>8, <1>9

LEMMA CursorStep == CursorInv /\ [Next]_vars => CursorInv'
<1> SUFFICES ASSUME CursorInv, [Next]_vars PROVE CursorInv'
  OBVIOUS
<1>1. ASSUME NEW len \in BodyLens, Send(len) PROVE CursorInv'
  <2>1. /\ Written \in Nat /\ Written' = Written + HeaderSize + len
        /\ sent' \in Seq([start : Nat, len : BodyLens])
    BY <1>1, WrittenType, SendWritten DEF CursorInv
  <2>2. limit' = Written'
    BY <1>1, <2>1 DEF Send
  <2>3. recvd <= limit' /\ limit' \in Nat /\ recvd \in Nat
    BY <2>1, <2>2, FramingAssumption DEF CursorInv, TypeOK
  <2>4. UNCHANGED <<closed, recvd, size, h_cursor, b_cursor, content_length,
                    pc, handled>>
    BY <1>1 DEF Send, packet
  <2> QED BY <2>1, <2>2, <2>3, <2>4 DEF CursorInv, TypeOK
<1>2. CASE PeerClose
  <2>1. UNCHANGED <<sent, recvd, size, h_cursor, b_cursor, content_length, pc,
                    handled>>
        /\ closed' = TRUE /\ limit' \in recvd .. limit
    BY <1>2 DEF PeerClose, packet
  <2>2. Written' = Written /\ Written \in Nat
    BY <2>1, WrittenType DEF Written, CursorInv
  <2>3. TypeOK'
    BY <2>1 DEF CursorInv, TypeOK
  <2> QED BY <2>1, <2>2, <2>3 DEF CursorInv, TypeOK
<1>3. CASE ProcessData
  BY <1>3, CursorProcess
<1>4. ASSUME NEW k \in 1 .. ChunkSize, OnRead(k) PROVE CursorInv'
  <2>1. size = 0 /\ size' = k /\ recvd' = recvd + k /\ recvd' <= limit
    BY <1>4, FramingAssumption DEF OnRead, CursorInv, TypeOK
  <2>2. UNCHANGED <<sent, limit, closed, h_cursor, b_cursor, content_length,
                    handled>> /\ pc' = "processing"
    BY <1>4 DEF OnRead, peer, packet
  <2> QED BY <2>1, <2>2, FramingAssumption DEF CursorInv, TypeOK, Written
<1>5. CASE OnEof
  BY <1>5, FramingAssumption DEF CursorInv, TypeOK, OnEof, peer, packet, Written
<1>6. CASE UNCHANGED vars
  BY <1>6 DEF CursorInv, TypeOK, vars, Written
<1> QED BY <1>1, <1>2, <1>3, <1>4, <1>5, <1>6 DEF Next, Read

\* Every variable keeps its type: in particular the cursors of Message_Packet
\* stay within the header and the body, whatever value content_length had
\* before the first header arrived.
THEOREM TypeCorrect == Spec => []TypeOK
<1>1. CursorInv => TypeOK
  BY DEF CursorInv
<1> QED BY CursorInit, CursorStep, <1>1, PTL DEF Spec

\* The cursors are always consistent with the chunk.
THEOREM CursorsCorrect == Spec => []CursorInv
BY CursorInit, CursorStep, PTL DEF Spec

\* do_read is never called with unprocessed bytes in the chunk.
THEOREM ChunkAlwaysConsumed == Spec => []ChunkConsumed
<1>1. CursorInv => ChunkConsumed
  BY DEF CursorInv, ChunkConsumed
<1> QED BY CursorsCorrect, <1>1, PTL

-----------------------------------------------------------------------------
(* Where the packets lie in the stream *)

LEMMA EndOfStream ==
  ASSUME TypeOK PROVE Written = End(Len(sent))
<1>1. Len(sent) \in Nat /\ (Len(sent) = 0 <=> sent = <<>>)
  BY EmptySeq, LenProperties DEF TypeOK
<1> QED BY <1>1 DEF Written, End

LEMMA EndType ==
  ASSUME TypeOK, NEW i \in 0 .. Len(sent) PROVE End(i) \in Nat
<1>1. Len(sent) \in Nat /\ DOMAIN sent = 1 .. Len(sent)
  BY LenProperties DEF TypeOK
<1>2. CASE i = 0
  BY <1>2 DEF End
<1>3. CASE i # 0
  <2>1. sent[i].start \in Nat /\ sent[i].len \in Nat
    BY <1>1, <1>3, SentType
  <2> QED BY <1>3, <2>1, FramingAssumption DEF End
<1> QED BY <1>2, <1>3

LEMMA LayoutInit == Init => Layout
BY DEF Init, Layout

LEMMA LayoutSend ==
  ASSUME TypeOK, Layout, NEW len \in BodyLens, Send(len) PROVE Layout'
<1> DEFINE n == Len(sent)
<1>1. /\ n \in Nat /\ Len(sent') = n + 1
      /\ DOMAIN sent = 1 .. n /\ DOMAIN sent' = 1 .. n + 1
      /\ \A i \in 1 .. n : sent'[i] = sent[i]
      /\ sent'[n + 1] = [start |-> Written, len |-> len]
  BY SendWritten, LenProperties DEF TypeOK
<1>2. \A i \in 0 .. n : End(i)' = End(i) /\ End(i) \in Nat
  BY <1>1, EndType DEF End
<1>3. sent'[n + 1].start = End(n)
  BY <1>1, EndOfStream
<1>4. \A i \in 1 .. n : /\ sent[i].start = End(i - 1)
                        /\ sent[i].start \in Nat /\ sent[i].start < End(i)
  <2> SUFFICES ASSUME NEW i \in 1 .. n
               PROVE  /\ sent[i].start = End(i - 1)
                      /\ sent[i].start \in Nat /\ sent[i].start < End(i)
    OBVIOUS
  <2>1. sent[i].start \in Nat /\ sent[i].len \in Nat
    BY <1>1, SentType
  <2>2. sent[i].start = End(i - 1)
    BY <1>1 DEF Layout
  <2> QED BY <1>1, <2>1, <2>2, FramingAssumption DEF End
<1>5. ASSUME NEW i \in 1 .. n + 1 PROVE sent'[i].start = End(i - 1)'
  <2>1. i - 1 \in 0 .. n /\ End(i - 1)' = End(i - 1)
    BY <1>1, <1>2
  <2>2. CASE i = n + 1
    BY <1>1, <1>3, <2>1, <2>2
  <2>3. CASE i # n + 1
    BY <1>1, <1>4, <2>1, <2>3
  <2> QED BY <2>2, <2>3
<1>6. ASSUME NEW i \in 1 .. n + 1, NEW j \in 1 .. n + 1, i < j
      PROVE  End(i)' <= sent'[j].start
  <2>1. i \in 1 .. n /\ End(i)' = End(i)
    BY <1>1, <1>2, <1>6
  <2>2. CASE j \in 1 .. n
    BY <1>1, <1>6, <2>1, <2>2 DEF Layout
  <2>3. CASE j = n + 1 /\ i = n
    BY <1>1, <1>2, <1>3, <2>1, <2>3
  <2>4. CASE j = n + 1 /\ i # n
    <3>1. End(i) <= sent[n].start
      BY <1>1, <2>1, <2>4 DEF Layout
    <3>2. sent[n].start < End(n) /\ sent[n].start \in Nat
      BY <1>1, <1>4, <2>1
    <3>3. End(i) \in Nat /\ End(n) \in Nat
      BY <1>1, <1>2, <2>1
    <3> QED BY <1>3, <2>1, <2>4, <3>1, <3>2, <3>3
  <2> QED BY <1>1, <2>2, <2>3, <2>4
<1> QED BY <1>1, <1>5, <1>6 DEF Layout

LEMMA LayoutStep == CursorInv /\ Layout /\ [Next]_vars => Layout'
<1> SUFFICES ASSUME CursorInv, Layout, [Next]_vars PROVE Layout'
  OBVIOUS
<1>1. ASSUME NEW len \in BodyLens, Send(len) PROVE Layout'
  BY <1>1, LayoutSend DEF CursorInv
<1>2. CASE UNCHANGED sent
  BY <1>2 DEF Layout, End
<1>3. CASE PeerClose \/ ProcessData \/ OnEof
  BY <1>2, <1>3 DEF PeerClose, ProcessData, OnEof, peer
<1>4. CASE Read
  BY <1>2, <1>4 DEF Read, OnRead, peer
<1>5. CASE UNCHANGED vars
  BY <1>2, <1>5 DEF vars
<1> QED BY <1>1, <1>3, <1>4, <1>5 DEF Next

\* A header that starts where the handled packets end is the header of the
\* next packet, so its length field is the length of that packet.
LEMMA DecodedRight ==
  ASSUME TypeOK, Layout, Len(handled) < Len(sent), Base = End(Len(handled))
  PROVE  DecodedLength(Base) = {sent[Len(handled) + 1].len}
<1> DEFINE k == Len(handled) + 1
<1>1. /\ DOMAIN sent = 1 .. Len(sent) /\ Len(sent) \in Nat
      /\ k \in 1 .. Len(sent) /\ k - 1 = Len(handled)
  BY LenProperties DEF TypeOK
<1>2. sent[k].start = Base
  BY <1>1 DEF Layout
<1> HIDE DEF k
<1>3. ASSUME NEW j \in DOMAIN sent, sent[j].start = Base PROVE j = k
  <2>1. /\ sent[j].start \in Nat /\ sent[j].start < End(j)
        /\ sent[k].start \in Nat /\ sent[k].start < End(k)
    BY <1>1, SentType, FramingAssumption DEF End
  <2>2. End(j) \in Nat /\ End(k) \in Nat
    BY <1>1, EndType
  <2>3. ~(j < k)
    BY <1>1, <1>2, <1>3, <2>1, <2>2 DEF Layout
  <2>4. ~(k < j)
    BY <1>1, <1>2, <1>3, <2>1, <2>2 DEF Layout
  <2> QED BY <1>1, <2>3, <2>4
<1>4. {j \in DOMAIN sent : sent[j].start = Base} = {k}
  BY <1>1, <1>2, <1>3
<1> QED BY <1>1, <1>2, <1>4 DEF DecodedLength, k

\* As long as there are bytes of a packet, that packet was sent.
LEMMA NextExists ==
  ASSUME CursorInv, Aligned, size # 0 \/ h_cursor # 0
  PROVE  Len(handled) < Len(sent)
<1>1. Len(handled) \in Nat /\ Len(sent) \in Nat /\ Len(handled) <= Len(sent)
  BY LenProperties DEF CursorInv, TypeOK, Aligned, PacketsIntact
<1>2. CASE Len(handled) = Len(sent)
  <2>1. Base = Written /\ limit <= Written /\ Written \in Nat
    BY <1>2, EndOfStream, WrittenType DEF CursorInv, Aligned
  <2>2. /\ size \in Nat /\ h_cursor \in Nat /\ b_cursor \in Nat
        /\ recvd \in Nat /\ limit \in Nat /\ recvd <= limit
    BY FramingAssumption DEF CursorInv, TypeOK
  <2> QED BY <2>1, <2>2 DEF Base
<1> QED BY <1>1, <1>2

-----------------------------------------------------------------------------
(* Staying in step *)

LEMMA AlignedInit == Init => Aligned
<1> SUFFICES ASSUME Init PROVE Aligned
  OBVIOUS
<1>1. handled = <<>> /\ sent = <<>> /\ Len(handled) = 0 /\ Len(sent) = 0
  BY EmptySeq DEF Init
<1>2. Base = 0
  BY DEF Init, Base
<1>3. h_cursor # HeaderSize
  BY FramingAssumption DEF Init
<1>4. PacketsIntact
  BY <1>1 DEF PacketsIntact
<1> QED BY <1>1, <1>2, <1>3, <1>4 DEF Aligned, End

\* When a packet has been handled it is the one that was sent.
LEMMA HandledRight ==
  ASSUME TypeOK, PacketsIntact, Len(handled) < Len(sent),
         Base = sent[Len(handled) + 1].start,
         handled' = Append(handled, [start |-> Base,
                                     len |-> sent[Len(handled) + 1].len]),
         sent' = sent
  PROVE  PacketsIntact' /\ Len(handled') = Len(handled) + 1
<1> DEFINE n == Len(handled)
           H == [start : Nat, len : Nat]
           p == [start |-> Base, len |-> sent[n + 1].len]
<1>1. n \in Nat /\ Len(sent) \in Nat /\ DOMAIN sent = 1 .. Len(sent)
      /\ n + 1 \in DOMAIN sent
  BY LenProperties DEF TypeOK
<1>2. sent[n + 1] \in [start : Nat, len : BodyLens]
  BY <1>1, ElementOfSeq DEF TypeOK
<1>3. p = sent[n + 1]
  BY <1>2
<1>4. p \in H /\ handled \in Seq(H)
  BY <1>1, <1>3, SentType DEF TypeOK
<1> HIDE DEF p, H
<1>5. handled' = Append(handled, p)
  BY DEF p
<1>6. /\ handled' \in Seq(H) /\ Len(handled') = n + 1
      /\ \A i \in 1 .. n : handled'[i] = handled[i]
      /\ handled'[n + 1] = p
  BY <1>4, <1>5, AppendProperties
<1>7. DOMAIN handled = 1 .. n /\ DOMAIN handled' = 1 .. n + 1
  BY <1>4, <1>6, LenProperties
<1>8. \A i \in DOMAIN handled' : handled'[i] = sent[i]
  BY <1>1, <1>3, <1>6, <1>7 DEF PacketsIntact
<1> QED BY <1>1, <1>6, <1>8 DEF PacketsIntact

\* One call of ProcessData keeps the reader in step, but for the very first
\* one on a fresh packet whose content_length happens to be 0.
LEMMA AlignedProcess ==
  ASSUME CursorInv, Layout, Aligned, ProcessData
  PROVE  \/ Aligned' /\ (content_length # 0 => content_length' # 0)
         \/ /\ content_length = 0 /\ handled = <<>>
            /\ handled' = <<[start |-> Base, len |-> 0]>>
<1> DEFINE n == Len(handled)
           hr == HeaderRead
<1>1. PICK cl \in LengthAfter :
        /\ size' = size - (hr + BodyRead(cl))
        /\ content_length' = cl
        /\ Complete(cl) \/ Incomplete(cl)
  BY DEF ProcessData
<1> DEFINE br == BodyRead(cl)
<1>2. cl \in Nat /\ b_cursor <= cl
  BY LengthAfterType
<1>3. /\ hr \in Nat /\ hr <= size /\ h_cursor + hr <= HeaderSize
      /\ br \in Nat /\ br <= size - hr /\ b_cursor + br <= cl
      /\ ~HeaderFull => br = 0 /\ hr = size
  BY <1>2, ReadBounds
<1>4. UNCHANGED <<sent, limit, closed, recvd>>
  BY DEF ProcessData, peer
<1>5. /\ size \in Nat /\ h_cursor \in Nat /\ b_cursor \in Nat
      /\ h_cursor <= HeaderSize /\ recvd \in Nat
      /\ HeaderSize \in Nat \ {0} /\ content_length \in Nat
  BY FramingAssumption DEF CursorInv, TypeOK
<1>6. n \in Nat /\ Len(sent) \in Nat /\ DOMAIN sent = 1 .. Len(sent)
  BY LenProperties DEF CursorInv, TypeOK
<1>7. /\ HeaderFull <=> h_cursor + hr = HeaderSize
      /\ h_cursor = HeaderSize => hr = 0
  BY <1>5 DEF HeaderFull, HeaderRead
<1>8. Base = End(n) /\ Base = recvd - (size + h_cursor + b_cursor)
  BY DEF Aligned, Base
<1>9. Incomplete(cl) => /\ h_cursor' = h_cursor + hr /\ b_cursor' = b_cursor + br
                        /\ b_cursor + br # cl /\ handled' = handled
  BY DEF Incomplete
<1>10. Complete(cl) => /\ b_cursor + br = cl /\ h_cursor' = 0 /\ b_cursor' = 0
                       /\ handled' = Append(handled,
                                            [start |-> Base, len |-> cl])
  BY DEF Complete, ClearedBody
<1>11. Base' = recvd - (size' + h_cursor' + b_cursor')
  BY <1>4 DEF Base
<1>12. CASE HeaderFull
  <2>1. n < Len(sent)
    BY <1>3, <1>5, <1>7, <1>12, NextExists
  <2>2. cl = sent[n + 1].len
    <3>1. CASE h_cursor = HeaderSize
      BY <3>1, <1>5 DEF Aligned, LengthAfter
    <3>2. CASE h_cursor # HeaderSize
      <4>1. LengthAfter = DecodedLength(Base)
        BY <3>2, <1>5, <1>12 DEF LengthAfter
      <4> QED BY <4>1, <2>1, <1>8, DecodedRight DEF CursorInv
    <3> QED BY <3>1, <3>2
  <2>3. n + 1 \in DOMAIN sent /\ cl # 0 /\ sent[n + 1].start = End(n)
    BY <1>6, <2>1, <2>2, SentType DEF CursorInv, Layout
  <2>4. CASE Complete(cl)
    <3>1. PacketsIntact' /\ Len(handled') = n + 1
      BY <1>4, <1>8, <1>10, <2>1, <2>2, <2>3, <2>4, HandledRight
         DEF CursorInv, Aligned
    <3>2. Base' = Base + HeaderSize + cl
      <4>1. h_cursor + hr = HeaderSize /\ b_cursor + br = cl
        BY <1>7, <1>10, <1>12, <2>4
      <4>2. Base' = recvd - size' /\ size' = size - (hr + br)
            /\ size' \in Nat
        BY <1>1, <1>3, <1>5, <1>10, <1>11, <2>4
      <4> HIDE DEF hr, br, n
      <4> QED BY <1>2, <1>3, <1>5, <1>8, <4>1, <4>2
    <3>3. End(Len(handled))' =
            sent[n + 1].start + HeaderSize + sent[n + 1].len
      BY <1>4, <1>6, <3>1 DEF End
    <3>4. Base' = End(Len(handled))'
      BY <1>8, <2>2, <2>3, <3>2, <3>3
    <3> QED BY <1>1, <1>5, <1>10, <2>3, <2>4, <3>1, <3>4 DEF Aligned
  <2>5. CASE Incomplete(cl)
    <3>1. PacketsIntact'
      BY <1>4, <1>9, <2>5 DEF Aligned, PacketsIntact
    <3>2. Base' = Base
      BY <1>1, <1>2, <1>3, <1>5, <1>8, <1>9, <1>11, <2>5
    <3>3. End(Len(handled))' = End(n)
      BY <1>4, <1>9, <2>5 DEF End
    <3>4. b_cursor' < cl
      BY <1>2, <1>3, <1>5, <1>9, <2>5
    <3> QED BY <1>1, <1>4, <1>8, <1>9, <2>1, <2>2, <2>3, <2>5, <3>1, <3>2,
               <3>3, <3>4 DEF Aligned
  <2> QED BY <1>1, <2>4, <2>5
<1>13. CASE ~HeaderFull
  <2>1. h_cursor < HeaderSize /\ b_cursor = 0 /\ br = 0
    BY <1>3, <1>5, <1>7, <1>13 DEF CursorInv
  <2>2. cl = content_length
    BY <1>13 DEF LengthAfter
  <2>3. CASE Complete(cl)
    <3>1. content_length = 0 /\ handled = <<>>
      BY <1>10, <2>1, <2>2, <2>3 DEF Aligned
    <3> QED BY <1>10, <2>2, <2>3, <3>1
  <2>4. CASE Incomplete(cl)
    <3>1. PacketsIntact'
      BY <1>4, <1>9, <2>4 DEF Aligned, PacketsIntact
    <3>2. Base' = Base
      BY <1>1, <1>2, <1>3, <1>5, <1>8, <1>9, <1>11, <2>4
    <3>3. End(Len(handled))' = End(n)
      BY <1>4, <1>9, <2>4 DEF End
    <3>4. h_cursor' # HeaderSize
      BY <1>3, <1>5, <1>7, <1>9, <1>13, <2>4
    <3> QED BY <1>1, <1>8, <1>9, <2>2, <2>4, <3>1, <3>2, <3>3, <3>4
            DEF Aligned
  <2> QED BY <1>1, <2>3, <2>4
<1> QED BY <1>12, <1>13

\* No other step disturbs it.
LEMMA AlignedOther ==
  ASSUME CursorInv, Layout, Aligned, [Next]_vars, ~ProcessData
  PROVE  Aligned' /\ UNCHANGED <<content_length, handled>>
<1>1. ASSUME NEW len \in BodyLens, Send(len)
      PROVE  Aligned' /\ UNCHANGED <<content_length, handled>>
  <2>1. /\ Len(sent) \in Nat /\ Len(sent') = Len(sent) + 1
        /\ \A i \in 1 .. Len(sent) : sent'[i] = sent[i]
    BY <1>1, SendWritten DEF CursorInv
  <2>2. UNCHANGED <<recvd, size, h_cursor, b_cursor, content_length, handled>>
    BY <1>1 DEF Send, packet
  <2>3. /\ Len(handled) \in Nat /\ Len(handled) <= Len(sent)
        /\ DOMAIN handled = 1 .. Len(handled)
    BY LenProperties DEF CursorInv, TypeOK, Aligned, PacketsIntact
  <2>4. PacketsIntact'
    BY <2>1, <2>2, <2>3 DEF Aligned, PacketsIntact
  <2>5. Base' = Base
    BY <2>2 DEF Base
  <2>6. End(Len(handled))' = End(Len(handled))
    BY <2>1, <2>2, <2>3 DEF End
  <2>7. Len(handled) < Len(sent) =>
          sent'[Len(handled) + 1] = sent[Len(handled) + 1]
    BY <2>1, <2>3
  <2> QED BY <2>1, <2>2, <2>3, <2>4, <2>5, <2>6, <2>7 DEF Aligned
<1>2. ASSUME UNCHANGED <<sent, handled, h_cursor, b_cursor, content_length>>,
             Base' = Base
      PROVE  Aligned' /\ UNCHANGED <<content_length, handled>>
  BY <1>2 DEF Aligned, PacketsIntact, End
<1>3. CASE PeerClose
  BY <1>2, <1>3 DEF PeerClose, packet, Base
<1>4. ASSUME NEW k \in 1 .. ChunkSize, OnRead(k)
      PROVE  Aligned' /\ UNCHANGED <<content_length, handled>>
  <2>1. size = 0 /\ size' = k /\ recvd' = recvd + k
    BY <1>4 DEF OnRead, CursorInv
  <2>2. UNCHANGED <<sent, handled, h_cursor, b_cursor, content_length>>
    BY <1>4 DEF OnRead, peer, packet
  <2>3. h_cursor \in Nat /\ b_cursor \in Nat /\ recvd \in Nat
    BY FramingAssumption DEF CursorInv, TypeOK
  <2>4. Base' = Base
    BY <2>1, <2>2, <2>3, FramingAssumption DEF Base
  <2> QED BY <1>2, <2>2, <2>4
<1>5. CASE OnEof
  <2>1. size = 0 /\ size' = 0
    BY <1>5 DEF OnEof, CursorInv
  <2> QED BY <1>2, <1>5, <2>1 DEF OnEof, peer, packet, Base
<1>6. CASE UNCHANGED vars
  BY <1>2, <1>6 DEF vars, Base
<1> QED BY <1>1, <1>3, <1>4, <1>5, <1>6 DEF Next, Read

-----------------------------------------------------------------------------
(* The theorems about packets *)

\* With a length that is not 0 in a fresh Message_Packet, Handler is given the
\* packets the peer sent, whole, once each and in order, however long they are
\* and wherever TCP cuts the stream.
THEOREM PacketsAlwaysIntact ==
  ASSUME 0 \notin Indeterminate
  PROVE  Spec => []PacketsIntact
<1> DEFINE Inv == CursorInv /\ Layout /\ Aligned /\ content_length # 0
<1>1. Init => Inv
  BY CursorInit, LayoutInit, AlignedInit DEF Init
<1>2. Inv /\ [Next]_vars => Inv'
  <2> SUFFICES ASSUME Inv, [Next]_vars PROVE Inv'
    OBVIOUS
  <2>1. CursorInv' /\ Layout'
    BY CursorStep, LayoutStep
  <2>2. CASE ProcessData
    BY <2>1, <2>2, AlignedProcess
  <2>3. CASE ~ProcessData
    BY <2>1, <2>3, AlignedOther
  <2> QED BY <2>2, <2>3
<1>3. Inv => PacketsIntact
  BY DEF Aligned
<1> QED BY <1>1, <1>2, <1>3, PTL DEF Spec

\* The first packet came out of an incomplete header, with length 0.
WrongStart == handled # <<>> /\ handled[1].len = 0

LEMMA WrongForGood ==
  ASSUME TypeOK, WrongStart, [Next]_vars PROVE WrongStart'
<1> DEFINE H == [start : Nat, len : Nat]
<1>1. handled \in Seq(H) /\ Len(handled) \in Nat \ {0}
  BY EmptySeq DEF TypeOK, WrongStart
<1> HIDE DEF H
<1>2. ASSUME NEW p, handled' = Append(handled, p) PROVE WrongStart'
  BY <1>1, <1>2 DEF WrongStart
<1>3. handled' = handled \/ (\E p : handled' = Append(handled, p))
  BY DEF Next, vars, Send, PeerClose, ProcessData, Complete, Incomplete,
         Read, OnRead, OnEof
<1> QED BY <1>2, <1>3 DEF WrongStart

\* Whatever content_length held at the start: if the first packet came out
\* right, so do all the later ones.  The hazard of the unset member is over
\* with the first header.
THEOREM IntactOnceStarted == Spec => []PacketsIntactOnceStarted
<1> DEFINE Inv == CursorInv /\ Layout /\ (Aligned \/ WrongStart)
<1>1. Init => Inv
  BY CursorInit, LayoutInit, AlignedInit
<1>2. Inv /\ [Next]_vars => Inv'
  <2> SUFFICES ASSUME Inv, [Next]_vars PROVE Inv'
    OBVIOUS
  <2>1. CursorInv' /\ Layout'
    BY CursorStep, LayoutStep
  <2>2. CASE WrongStart
    BY <2>1, <2>2, WrongForGood DEF CursorInv
  <2>3. CASE Aligned /\ ProcessData
    <3>1. CASE handled' = <<[start |-> Base, len |-> 0]>>
      <4>1. WrongStart'
        BY <3>1 DEF WrongStart
      <4> QED BY <2>1, <4>1
    <3> QED BY <2>1, <2>3, <3>1, AlignedProcess
  <2>4. CASE Aligned /\ ~ProcessData
    BY <2>1, <2>4, AlignedOther
  <2> QED BY <2>2, <2>3, <2>4
<1>3. Inv => PacketsIntactOnceStarted
  <2> SUFFICES ASSUME Inv, handled # <<>>, sent # <<>>, handled[1] = sent[1]
               PROVE  PacketsIntact
    BY DEF PacketsIntactOnceStarted
  <2>1. 1 \in DOMAIN sent
    BY EmptySeq, LenProperties DEF CursorInv, TypeOK
  <2>2. handled[1].len # 0
    BY <2>1, SentType DEF CursorInv
  <2> QED BY <2>2 DEF WrongStart, Aligned
<1> QED BY <1>1, <1>2, <1>3, PTL DEF Spec

\* on_read, ProcessData and Process implement the packet channel: every step
\* of the framing is a step of the channel or leaves it alone.  (The channel's
\* liveness is checked by TLC.)
THEOREM FramingRefinesChannel ==
  ASSUME 0 \notin Indeterminate
  PROVE  Spec => Channel!Init /\ [][Channel!Next]_(Channel!vars)
<1>1. Init => Channel!Init
  BY DEF Init, Channel!Init
<1>2. /\ TypeOK /\ PacketsIntact /\ PacketsIntact' /\ TypeOK' /\ [Next]_vars
      => [Channel!Next]_(Channel!vars)
  <2> SUFFICES ASSUME TypeOK, PacketsIntact, PacketsIntact', TypeOK',
                      [Next]_vars
               PROVE  [Channel!Next]_(Channel!vars)
    OBVIOUS
  <2>1. ASSUME NEW len \in BodyLens, Send(len) PROVE Channel!Put
    <3>1. /\ Len(sent') = Len(sent) + 1 /\ Len(sent) \in Nat
          /\ sent'[Len(sent')] = [start |-> Written, len |-> len]
      BY <2>1, SendWritten
    <3>2. [start |-> Written, len |-> len] \in [start : Nat, len : BodyLens]
      BY WrittenType
    <3>3. /\ ~closed /\ UNCHANGED <<handled, closed>>
          /\ sent' = Append(sent, [start |-> Written, len |-> len])
      BY <2>1 DEF Send
    <3> QED BY <3>1, <3>2, <3>3 DEF Channel!Put
  <2>2. CASE PeerClose
    BY <2>2 DEF PeerClose, Channel!Next, Channel!Close
  <2>3. ASSUME NEW cl, ProcessData, Complete(cl) PROVE Channel!Get
    <3> DEFINE p == [start |-> Base, len |-> cl]
               n == Len(handled)
    <3>1. handled' = Append(handled, p) /\ UNCHANGED <<sent, closed>>
      BY <2>3 DEF ProcessData, Complete, peer
    <3>2. n \in Nat /\ handled \in Seq([start : Nat, len : Nat])
      BY LenProperties DEF TypeOK
    <3> HIDE DEF p
    <3>3. Len(handled') = n + 1 /\ handled'[n + 1] = p
      BY <3>1, <3>2
    <3>4. DOMAIN handled' = 1 .. n + 1
      BY <3>3, LenProperties DEF TypeOK
    <3>5. Len(handled') <= Len(sent') /\ handled'[n + 1] = sent'[n + 1]
      BY <3>2, <3>4 DEF PacketsIntact
    <3>6. Len(sent) \in Nat
      BY LenProperties DEF TypeOK
    <3> QED BY <3>1, <3>2, <3>3, <3>5, <3>6 DEF Channel!Get
  <2>4. ASSUME UNCHANGED <<sent, handled, closed>>
        PROVE  UNCHANGED Channel!vars
    BY <2>4 DEF Channel!vars
  <2>5. CASE ProcessData
    BY <2>3, <2>4, <2>5 DEF ProcessData, Incomplete, peer, Channel!Next
  <2>6. CASE Read \/ OnEof \/ UNCHANGED vars
    BY <2>4, <2>6 DEF Read, OnRead, OnEof, peer, vars
  <2> QED BY <2>1, <2>2, <2>5, <2>6 DEF Next, Channel!Next
<1> QED BY <1>1, <1>2, TypeCorrect, PacketsAlwaysIntact, PTL DEF Spec

=============================================================================
