--------------------------- MODULE MCModelGateway ---------------------------
(***************************************************************************)
(* ModelGateway on small instances: see the .cfg files for the values.     *)
(* A UTC day has three ticks, the instants at which something may change:  *)
(* 00:00, 07:00 (midnight in Los Angeles in summer) and 08:00 (in winter). *)
(***************************************************************************)
EXTENDS ModelGateway

Summer(d) == TicksPerDay * d + 1
Winter(d) == TicksPerDay * d + 2

(* The clocks go back on the first date, which lasts 25 hours.             *)
AutumnMidnights == <<Summer(0), Winter(1), Winter(2)>>

(* The clocks go forward on the first date, which lasts 23 hours.          *)
SpringMidnights == <<Winter(0), Summer(1), Summer(2)>>
=============================================================================
