\* Two instances, two refreshes and two callbacks in flight
SPECIFICATION Spec
CONSTANTS
  Ids = {i1, i2}
  Refreshers = {r1, r2}
  Browsers = {b1, b2}
  States = {s1, s2}
  Grants = {g1, g2}
  MaxTurn = 3
  Rotates = TRUE
  Keys = {k1, k2}
  NoKey = noKey
  NoToken = noToken
  NoGrant = noGrant
  NoState = noState
SYMMETRY Symmetry
INVARIANTS
  StoredRefreshCurrent
  StateUsedOnce
  ConsentReachesItsInstance

