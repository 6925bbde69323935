CONSTANTS
  car = car
  van = van
  plain = plain
  edited = edited
  None = None
  Plates = {car, van}
  Records = {plain, edited}
  Faults = {"scheduler", "forward", "unload"}
  MaxUpdates = 3
  MaxRestarts = 1
SPECIFICATION LiveSpec
CHECK_DEADLOCK FALSE
INVARIANTS
  TypeOK MonitoredOnce RunsOnOptions OrphansExplained
PROPERTIES
  Settles Reconciles
