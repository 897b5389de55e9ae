SPECIFICATION FairSpec
CONSTANTS
  MaxHits = 2
  MaxDropped = 2
  ErrorsMod = 2
  CPUs = {cpu1, cpu2}
  Readers = {r1, r2}
  None = None
  MaxTraps = 5
INVARIANTS
  TypeOK
  DrainedSlotsAreErased
  SnapshotIsFront
  Accounted
PROPERTIES
  ImplementsHitQueue
  ReadReturns
  CallbackReturns
