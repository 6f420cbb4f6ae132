------------------------------ MODULE MCRbuvGC ------------------------------
(* RbuvGC with a few objects, all of a kind interchangeable.               *)
EXTENDS RbuvGC, TLC

Symmetric == Permutations(Handle) \cup Permutations(Request)
=============================================================================
