---------------------------- MODULE MCShapeStore ----------------------------
(* An instance of ShapeStore for TLC.                                      *)
EXTENDS ShapeStore, Naturals, FiniteSetsExt

CONSTANTS MaxRows \* bound: rows of one fetch

\* Every fetch of up to MaxRows rows, an id that comes twice included; copies
\* are counted from 1.
AllBatches ==
  {b \in UNION {kSubset(k, Fetched) : k \in 0..MaxRows} :
     \A f \in b : f.copy > 1 => [f EXCEPT !.copy = f.copy - 1] \in b}
=============================================================================
