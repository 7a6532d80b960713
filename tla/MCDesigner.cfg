\* Two tabs, two changes in flight, two cards, one instance
SPECIFICATION Spec
CONSTANTS
  MaxCard = 2
  Instances = {1}
  Places = {here, there}
  Headers = {title}
  Tabs = {t1, t2}
  Calls = {x1, x2}
  MaxEdits = 2
  None = none
  NoHeader = noHeader
  NoCard = noCard
  Idle = idle
SYMMETRY Symmetry
INVARIANT LastSaverSeesTable
PROPERTY KeepsTheRest
