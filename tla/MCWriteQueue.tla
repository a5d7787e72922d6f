---------------------------- MODULE MCWriteQueue ----------------------------
(***************************************************************************)
(* WriteQueue with headers of 2 bytes and blocks of 4: contents of 1 and 2 *)
(* bytes make one block, short and exactly full; 8 bytes make three, the   *)
(* last half full, which go wrong in the first and in the last.            *)
(***************************************************************************)
EXTENDS WriteQueue

MCContentSizes == {1, 2, 8}
=============================================================================
