---------------------------- MODULE MCLayerViewer ----------------------------
(* Small instances of LayerViewer for TLC. *)
EXTENDS LayerViewer, TLC

CONSTANTS silakka, other

\* The layout file describes every layer of one keyboard and only the base
\* layer of the other, for which the overlay is not enabled.
TwoAndOne == [p \in Profile |-> IF p = silakka THEN 2 ELSE 1]
NotForOther == [p \in Profile |-> IF p = silakka THEN {0, 1} ELSE {}]
=============================================================================
