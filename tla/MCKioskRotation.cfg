SPECIFICATION KioskFairSpec
CONSTANTS
  Calls = {c1, c2}
  PollTicks = 3
  Rotations = {4}
  MaxScreens = 2
  MaxEdits = 0
  NoLayout = NoLayout
  NoCall = NoCall
PROPERTY EveryScreenShown
