\* One device that switches between two items: pauses, breaks, crashes, failed writes.
CONSTANTS
  s1 = s1  s2 = s2  v1 = v1  v2 = v2
  NoRow = NoRow  NoPlay = NoPlay  Nothing = Nothing
  Sids = {s1}
  Views = {v1, v2}
  Shows <- OneDevice
  MinKeep = 2
  PersistEvery = 2
  StepCap = 3
  Merge = 4
  Notify = FALSE
  Waits = {1, 4}
  Horizon = 5
  MaxRows = 3
  MaxCrashes = 1
  MaxFails = 1
  MaxSpawned = 1
SPECIFICATION Spec
INVARIANTS TypeOK PlaysOwnTheirRows TimeIsHonest PicturesAgree
PROPERTIES LedgerSpec
