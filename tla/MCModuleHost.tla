---------------------------- MODULE MCModuleHost ----------------------------
(* ModuleHost on a small instance: core runs the lifecycle, worker calls,  *)
(* registers and withdraws, other calls and registers.                     *)
EXTENDS ModuleHost

CONSTANTS core, worker, other, a, b, send, answer, chat, who
=============================================================================
