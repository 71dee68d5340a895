------------------------------ MODULE MCClient ------------------------------
(***************************************************************************)
(* A world of two entities, a machine whose program is NOP, HLT and then   *)
(* zeroed memory, which is NOP, and a user who types up to MaxLines lines. *)
(***************************************************************************)
EXTENDS Client

=============================================================================
