----------------------------- MODULE MCDesigner -----------------------------
(* Instances of Designer for TLC.                                          *)
EXTENDS Designer, TLC

\* Tabs, calls and places are interchangeable.
Symmetry == Permutations(Tabs) \cup Permutations(Calls) \cup Permutations(Places)
=============================================================================
