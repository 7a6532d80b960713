\* Liveness: one pairing code, registered, deleted and registered again
SPECIFICATION FairSpec
CONSTANTS
  Codes = {k1}
  Displays = {d1}
  Calls = {x1, x2}
  MaxBirths = 2
  NoCode = noCode
  NoRow = noRow
  NoDisplay = noDisplay
  Idle = idle
PROPERTIES
  ApprovedShows
  DeletedLeavesPage
