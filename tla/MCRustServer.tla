---------------------------- MODULE MCRustServer ----------------------------
(***************************************************************************)
(* RustServer with its session ids interchangeable: the server compares    *)
(* ids only for equality.  For safety properties only.                     *)
(***************************************************************************)
EXTENDS RustServer, TLC

Symmetry == Permutations(SessionIds)

=============================================================================
