---------------------------- MODULE MCRbuvAsync ----------------------------
(* RbuvAsync on two handles and two threads that send.                     *)
EXTENDS RbuvAsync
=============================================================================
