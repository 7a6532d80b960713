SPECIFICATION KioskFairSpec
CONSTANTS
  Calls = {c1, c2}
  PollTicks = 3
  Rotations = {1, 2}
  MaxScreens = 3
  MaxEdits = 2
  NoLayout = NoLayout
  NoCall = NoCall
PROPERTY StaysItsTime EveryScreenShown Settles OverlayLifts
