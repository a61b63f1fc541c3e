--------------------------- MODULE MCFactPipeline ---------------------------
(***************************************************************************)
(* FactPipeline on a small instance: two conversations with a key each,    *)
(* and two facts, one of which points at a turn that only the first        *)
(* conversation has.                                                       *)
(***************************************************************************)
EXTENDS FactPipeline, TLC

CONSTANTS a, b, ka, kb, both, onlyA

MCConversations == {a, b}
MCKeys == {ka, kb}
MCKeyOf == (a :> ka) @@ (b :> kb)
MCFacts == {both, onlyA}
MCFitting == {<<both, a>>, <<both, b>>, <<onlyA, a>>}
MCLeftovers == {Absent, Unreadable, onlyA}
NoLeftovers == {Absent}
=============================================================================
