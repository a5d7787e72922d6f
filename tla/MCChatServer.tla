---------------------------- MODULE MCChatServer ----------------------------
(***************************************************************************)
(* ChatServer with two users and two endpoints: enough for an endpoint to  *)
(* pass from one user to the other, for a user to be logged in twice, and  *)
(* for applications that cross.                                            *)
(***************************************************************************)
EXTENDS ChatServer, TLC

CONSTANTS ann, bob, e1, e2

MCUser == {ann, bob}
MCConn == {e1, e2}

\* sends is only written, so states that differ in it alone behave alike.  The
\* properties that look at it are action properties, about sends'.
MCView == <<state, database, conns, tables, history>>

MCSymmetry == Permutations(MCUser) \cup Permutations(MCConn)
=============================================================================
