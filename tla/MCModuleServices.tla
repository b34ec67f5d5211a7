-------------------------- MODULE MCModuleServices --------------------------
(* ModuleServices on a small instance: the web worker and another          *)
(* transport, and tables too small for all four modules.                   *)
EXTENDS ModuleServices

CONSTANTS core_thread, web_worker, transport

MCAsks == [t \in {web_worker, transport} |->
             IF t = web_worker THEN {"chat"} ELSE CommandNames]
=============================================================================
