---------------------------- MODULE MCScheduler ----------------------------
(* Instances of Scheduler for TLC.                                         *)
EXTENDS Scheduler, TLC

\* Loops, admins and configs are interchangeable.
Symmetry == Permutations(Loops) \cup Permutations(Admins) \cup Permutations(Configs)
=============================================================================
