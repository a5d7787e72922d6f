------------------------------ MODULE MCFraming -----------------------------
(***************************************************************************)
(* Framing at a small scale.  A header of 3 bytes and chunks of 4 keep the *)
(* proportions that matter: a chunk can hold the end of one packet and the *)
(* start of the next, a header can be cut in two, and a body of 6 bytes    *)
(* spans three chunks, like the 5002-byte packet of test_client.cpp.       *)
(***************************************************************************)
EXTENDS Framing

MCBodyLens == {1, 6}

\* Stands for a fresh Message_Packet whose content_length happens to be some
\* length of the wrong value, the right one, or an absurd one.
MCIndeterminate == {1, 2, 9}

\* For the desynchronised streams of the client's run, which have many more
\* states: a body within one chunk or over two, and just one other value.
MCClientBodyLens == {1, 4}
MCClientIndeterminate == {0, 2}
=============================================================================
