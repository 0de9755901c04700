---------------------------- MODULE MCD3d12Objects ----------------------------
(***************************************************************************)
(* Instance of D3d12Objects for model checking.                            *)
(***************************************************************************)
EXTENDS D3d12Objects

CONSTANTS d, foreign, l

OneDevice == [x \in {l} |-> d]

=============================================================================
