--------------------------- MODULE MCSemProdCons4 ---------------------------
(* Instance of SemProdCons4, with the invariant of its proof, for TLC. *)
EXTENDS SemProdCons4Proofs
=============================================================================
