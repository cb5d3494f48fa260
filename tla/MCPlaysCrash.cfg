\* A crash soon after a short break: the resumed row still carries its old end.
CONSTANTS
  s1 = s1  s2 = s2  v1 = v1  v2 = v2
  NoRow = NoRow  NoPlay = NoPlay  Nothing = Nothing
  Sids = {s1}
  Views = {v1}
  Shows <- OneItem
  MinKeep = 2
  PersistEvery = 2
  StepCap = 3
  Merge = 6
  Notify = FALSE
  Waits = {2, 5}
  Horizon = 10
  MaxRows = 2
  MaxCrashes = 1
  MaxFails = 0
  MaxSpawned = 1
SPECIFICATION Spec
PROPERTIES OneViewing
