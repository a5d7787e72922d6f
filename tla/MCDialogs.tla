----------------------------- MODULE MCDialogs -----------------------------
(***************************************************************************)
(* Dialogs with two names, one of which other clients try to register as   *)
(* well, and with three dialogs: one registration followed by its profile  *)
(* dialog, or two registration dialogs that take one another's answers and *)
(* a profile dialog made by the wrong one.  Two messages in flight let the *)
(* user click once more before the answer.                                 *)
(***************************************************************************)
EXTENDS Dialogs

CONSTANTS ann, bob

MCUser == {ann, bob}
MCContested == {bob}
=============================================================================
