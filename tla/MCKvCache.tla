----------------------------- MODULE MCKvCache -----------------------------
(* Bounds of the runs of KvCache. *)
EXTENDS KvCache, TLC
CONSTANTS a, b
OneVal == {a}
TwoVals == {a, b}
FirstLayer == {0}
LaterLayers == 1 .. NLayers - 1
\* No action and no property tells two values apart.
Interchangeable == Permutations(Vals)
=============================================================================
