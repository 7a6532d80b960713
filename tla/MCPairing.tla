----------------------------- MODULE MCPairing -----------------------------
(* Instances of Pairing for TLC.                                           *)
EXTENDS Pairing, TLC

\* Codes and calls are interchangeable.
Symmetry == Permutations(Codes) \cup Permutations(Calls)
=============================================================================
