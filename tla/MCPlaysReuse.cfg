\* An id that comes round again, and the notification filed under it.
CONSTANTS
  s1 = s1  s2 = s2  v1 = v1  v2 = v2
  NoRow = NoRow  NoPlay = NoPlay  Nothing = Nothing
  Sids = {s1}
  Views = {v1, v2}
  Shows <- TwoItems
  MinKeep = 2
  PersistEvery = 2
  StepCap = 3
  Merge = 3
  Notify = TRUE
  Waits = {2}
  Horizon = 4
  MaxRows = 2
  MaxCrashes = 0
  MaxFails = 0
  MaxSpawned = 1
SPECIFICATION Spec
PROPERTIES NoticesAreNotLost
