\* Two accounts, two requests at once
SPECIFICATION Spec
CONSTANTS
  MaxUser = 2
  Requests = {q1, q2}
  Secrets = {s1, s2}
  MaxBatch = 2
  BatchSize = 2
  Links = {t1}
  NoUser = noUser
  NoSecret = noSecret
  NoCode = noCode
  NoJob = noJob
SYMMETRY Symmetry
INVARIANTS
  EnabledHasSecret
  CodeRedeemedOnce
  OneBatch
  LinkRedeemedOnce
PROPERTY SomeAdminStays
