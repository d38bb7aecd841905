---------------------------- MODULE MCRustClient ----------------------------
(***************************************************************************)
(* RustClient with its sources interchangeable: nothing in the client      *)
(* tells one address from another.  For safety properties only.            *)
(***************************************************************************)
EXTENDS RustClient, TLC

Symmetry == Permutations(Sources)

=============================================================================
