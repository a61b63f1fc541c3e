-------------------------- MODULE MCRequestPacing ---------------------------
(* RequestPacing on a small instance: see the .cfg for the values.         *)
EXTENDS RequestPacing
=============================================================================
