\* Two devices at once and somebody who wants to hear about plays; no crash and no failed write.
CONSTANTS
  s1 = s1  s2 = s2  v1 = v1  v2 = v2
  NoRow = NoRow  NoPlay = NoPlay  Nothing = Nothing
  Sids = {s1, s2}
  Views = {v1, v2}
  Shows <- TwoDevices
  MinKeep = 2
  PersistEvery = 1
  StepCap = 3
  Merge = 3
  Notify = TRUE
  Waits = {2}
  Horizon = 6
  MaxRows = 3
  MaxCrashes = 0
  MaxFails = 0
  MaxSpawned = 0
SPECIFICATION Spec
PROPERTIES ThrownAwayUntold OneViewing
