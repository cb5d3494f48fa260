\* Two events, one destination of bob's, two raisers, one message a minute, two tries.
CONSTANTS
  e1 = e1  e2 = e2  bob = bob  r1 = r1  r2 = r2  a1 = a1
  Nobody = Nobody  NoRow = NoRow
  Events = {e1, e2}
  People = {bob}
  KindOf <- TwoKinds
  About <- AboutBob
  Perms <- SignsInOnly
  Wishes <- Bobs
  Raisers = {r1, r2}
  Admins = {a1}
  PerMinute = 1
  Batch = 2
  GiveUp = 2
  MaxTargets = 2
  MaxOwn = 1
  MaxIds = 1
  MaxTurns = 1
SPECIFICATION Spec
INVARIANTS TypeOK SentAsPromised
PROPERTIES  MailboxSpec EndsUnlessPutOff
