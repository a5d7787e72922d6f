------------------------- MODULE MCClientWriteQueue -------------------------
(***************************************************************************)
(* Packets of one and of two blocks: three of them as long as the threads  *)
(* take turns, so that two can be under way when a third is sent, and two  *)
(* when they do not.                                                       *)
(***************************************************************************)
EXTENDS ClientWriteQueue

\* With both threads in the queue, behaviours are followed for two packets.
MCFewWhenRaced == raced => Len(packets) <= 2
=============================================================================
