\* One play, two destinations, and one of them removed while it is announced.
CONSTANTS
  e1 = e1  e2 = e2  bob = bob  r1 = r1  r2 = r2  a1 = a1
  Nobody = Nobody  NoRow = NoRow
  Events = {e1}
  People = {bob}
  KindOf <- APlay
  About <- OfBob
  Perms <- SignsInOnly
  Wishes <- ServersAndBobs
  Raisers = {r1}
  Admins = {a1}
  PerMinute = 1
  Batch = 2
  GiveUp = 2
  MaxTargets = 2
  MaxOwn = 1
  MaxIds = 2
  MaxTurns = 0
SPECIFICATION Spec
INVARIANTS EveryoneWhoAskedIsTold
