-------------------------------- MODULE MCPool --------------------------------
(* A small instance of Pool: a few tags, of two types. *)
EXTENDS Pool
=============================================================================
