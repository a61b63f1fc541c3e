--------------------------- MODULE MCClientLimits ---------------------------
(* ClientLimits on a small instance: see the .cfg for the values.          *)
EXTENDS ClientLimits
=============================================================================
