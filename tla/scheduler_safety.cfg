CONSTANTS
  p1 = p1
  p2 = p2
  batch = batch
  single = single
  Plates = {p1, p2}
  Providers = {batch, single}
  Batching = {batch}
  Interval <- IntervalOfBatch
  MinCooldown = 2
  BackoffBase = 2
  BackoffCap = 3
  Jitters = {0}
  RetryAfters <- NumberHeaders
  Faults = {"rate_limited", "transient", "untyped"}
  Offsets = {0, 1}
  Horizon = 3
  MaxSequence = 3
SYMMETRY PlateSymmetry
SPECIFICATION Spec
CHECK_DEADLOCK FALSE
INVARIANTS
  TypeOK NoDuplicateWork NoWorkLost NoOversleep OwedIsHeld RequestShape BoundedWait StopIsFinal
PROPERTIES
  DeferralStands RetryIsLater BatchesKeepInterval OwnBackoffKept RetryAfterKept
