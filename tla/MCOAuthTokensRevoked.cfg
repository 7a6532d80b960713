\* A refresh in flight while an admin revokes or re-authorizes
SPECIFICATION Spec
CONSTANTS
  Ids = {i1}
  Refreshers = {r1}
  Browsers = {b1}
  States = {s1, s2}
  Grants = {g1, g2}
  MaxTurn = 3
  Rotates = TRUE
  Keys = {k1}
  NoKey = noKey
  NoToken = noToken
  NoGrant = noGrant
  NoState = noState

INVARIANT StoredIsAuthorized
