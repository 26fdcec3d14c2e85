------------------------------ MODULE MCMoMEMta ------------------------------
(* A small instance of MoMEMta: two inputs, a few calls and points. *)
EXTENDS MoMEMta
=============================================================================
