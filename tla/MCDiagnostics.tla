--------------------------- MODULE MCDiagnostics ---------------------------
(* Diagnostics on a small instance: two slots and three persons, one of    *)
(* whom uses two names on one account and one of whom logs in at times.    *)
EXTENDS Diagnostics, TLC

MCPerson ==
  (<<"ada", "ada">> :> "Ada") @@ (<<"ada_", "ada">> :> "Ada") @@
  (<<"bob", NoAccount>> :> "Bob") @@ (<<"bob", "robert">> :> "Bob") @@
  (<<"web", "web">> :> "Web")
MCOrigins == DOMAIN MCPerson
=============================================================================
