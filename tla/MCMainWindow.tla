---------------------------- MODULE MCMainWindow ----------------------------
(***************************************************************************)
(* MainWindow with two other users, the fewest for which it matters which  *)
(* row is selected and in which order the lists are.                       *)
(***************************************************************************)
EXTENDS MainWindow, TLC

CONSTANTS ann, bob, me

MCPeer == {ann, bob}

\* Applications change the friend list most, and deletions close chats.
MCLists == {"applications", "elsewhere"}
MCChats == {"chats", "deletion"}

\* Lists that crossed are added to each other; longer ones than these are checked
\* when they come about and not followed further.
MaxNames == 3

FewNames == Len(friendlist) <= MaxNames /\ Len(applicationlist) <= MaxNames

MCSymmetry == Permutations(MCPeer)
=============================================================================
