--------------------------- MODULE MCRbuvListen ---------------------------
(* RbuvListen with bounds on requests and waiting connections.             *)
EXTENDS RbuvListen
=============================================================================
