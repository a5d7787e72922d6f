--------------------------- MODULE MessageChannel ---------------------------
(***************************************************************************)
(* What one direction of a chat connection promises to the code above it:  *)
(* the packets one side sends are handed to the other side's Handler once  *)
(* each, whole, and in the order they were sent, until the connection      *)
(* closes.  Packets still in transit when it closes may be lost.           *)
(*                                                                         *)
(* This is the abstract specification that module Framing implements.      *)
(***************************************************************************)
EXTENDS Naturals, Sequences

CONSTANT Message        \* the packets that can be sent

VARIABLES
  sent,                 \* packets sent, in order
  handled,              \* packets given to the receiver's Handler, in order
  closed                \* has the sending side gone?

vars == <<sent, handled, closed>>

Init == sent = <<>> /\ handled = <<>> /\ closed = FALSE

Put ==
  /\ ~closed
  /\ Len(sent') = Len(sent) + 1
  /\ sent'[Len(sent')] \in Message
  /\ sent' = Append(sent, sent'[Len(sent')])
  /\ UNCHANGED <<handled, closed>>

Get ==
  /\ Len(handled) < Len(sent)
  /\ handled' = Append(handled, sent[Len(handled) + 1])
  /\ UNCHANGED <<sent, closed>>

Close == ~closed /\ closed' = TRUE /\ UNCHANGED <<sent, handled>>

Next == Put \/ Get \/ Close

\* While the connection is open every packet in transit must come out.
Spec == Init /\ [][Next]_vars /\ WF_vars(~closed /\ Get)
=============================================================================
