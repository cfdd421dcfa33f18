--------------------------- MODULE MCAudioRouting ---------------------------
(* Two HDA controllers, the first with an engine. *)
EXTENDS AudioRouting, TLC

CONSTANTS c1, c2, e1

MCController == {c1, c2}
MCEngine == {e1}
MCParent == e1 :> c1

=============================================================================
