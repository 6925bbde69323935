CONSTANTS
  p1 = p1
  p2 = p2
  batch = batch
  single = single
  Plates = {p1, p2}
  Providers = {batch, single}
  Batching = {batch}
  Interval <- IntervalOfBatch
  MinCooldown = 2
  BackoffBase = 1
  BackoffCap = 2
  Jitters = {0}
  RetryAfters <- NoneOrDate
  Faults = {"rate_limited", "transient"}
  Offsets = {0}
  Horizon = 2
  MaxSequence = 2
SPECIFICATION LiveSpec
CHECK_DEADLOCK FALSE
PROPERTIES
  RequestServed Promise
