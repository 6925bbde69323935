CONSTANTS
  p1 = p1
  p2 = p2
  batch = batch
  single = single
  Plates = {p1, p2}
  Providers = {batch, single}
  Batching = {batch}
  Interval <- IntervalOfSingle
  MinCooldown = 2
  BackoffBase = 1
  BackoffCap = 2
  Jitters = {0}
  RetryAfters <- NumberHeaders
  Faults = {}
  Offsets = {0, 1}
  Horizon = 2
  MaxSequence = 3
SPECIFICATION Spec
CHECK_DEADLOCK FALSE
PROPERTIES
  IntervalKept
