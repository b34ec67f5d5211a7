--------------------------- MODULE MCIrcTransport ---------------------------
(***************************************************************************)
(* A thread of another module sends through the IRC module beside the      *)
(* module's own replies, while the module is started and stopped twice.    *)
(***************************************************************************)
EXTENDS IrcTransport

CONSTANT c1
=============================================================================
