--------------------------- MODULE MCAuditService ---------------------------
(***************************************************************************)
(* AuditService behind its routes on small instances.                      *)
(*                                                                         *)
(* Routes: a single audit, a batch of two at the limit of conversations    *)
(* and one above it, with an engine that raises on the model's facts of a  *)
(* conversation of each of the first two.                                  *)
(*                                                                         *)
(* Batches: a single audit, a batch of two, and a batch of two with a      *)
(* conversation on which the engine raises whatever the model says (a      *)
(* transcript without turns of the agent).                                 *)
(***************************************************************************)
EXTENDS AuditApi, TLC

CONSTANTS single, good, bad, t1, t2, t3, t4, t5

MCSingles == {single}
MCBatches == {good, bad}
MCUploads == {single}
MCTasksOf == (single :> {t1}) @@ (good :> {t2, t3}) @@ (bad :> {t4, t5})
MCContent == [r \in {single, good, bad} |-> "good"]

RoutesSize == (single :> 1) @@ (good :> 2) @@ (bad :> 3)
RoutesBreaks == {<<t1, "complete">>, <<t3, "complete">>}

MCSize == (single :> 1) @@ (good :> 2) @@ (bad :> 2)
MCBreaks == {<<t1, "complete">>, <<t5, "complete">>, <<t5, "partial">>}
NoBreaks == {}
=============================================================================
