--------------------------- MODULE MCOAuthTokens ---------------------------
(* Instances of OAuthTokens for TLC.                                       *)
EXTENDS OAuthTokens, TLC

\* Processes, attempts, grants and keys are interchangeable.
Symmetry ==
  Permutations(Refreshers) \cup Permutations(Browsers) \cup Permutations(States)
    \cup Permutations(Grants) \cup Permutations(Keys)
=============================================================================
