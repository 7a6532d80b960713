---------------------------- MODULE MCAdminPages ----------------------------
(* Instances of AdminPages for TLC.                                        *)
EXTENDS AdminPages, TLC

CONSTANTS k1, f1

Builtin == [colour |-> k1, font |-> f1]

\* Requests, settings' values, events and options are interchangeable.
Symmetry ==
  Permutations(Calls) \cup Permutations(Values) \cup Permutations(Events)
    \cup Permutations(Options)
=============================================================================
