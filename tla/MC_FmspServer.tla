--------------------------- MODULE MC_FmspServer ----------------------------
(* TLC instances of FmspServer.  Besides the window the server starts with, *)
(* which ends with its first frame, a client can ask for an open window     *)
(* that starts later; for progress, where times do not matter, it asks for  *)
(* the first one again.                                                     *)
EXTENDS FmspServer

MCWindows  == {[target |-> 1, arrival |-> -1]}
MCOneFrame == {NoWindow}

=============================================================================
