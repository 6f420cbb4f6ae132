--------------------------- MODULE MCRbuvRequest ---------------------------
(* RbuvRequest with a few requests and worker threads.                     *)
EXTENDS RbuvRequest
=============================================================================
