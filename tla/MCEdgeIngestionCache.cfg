SPECIFICATION Spec
CONSTANTS
  adapter = adapter
  sensor = sensor
  switch = switch
  command = command
  Process = {adapter}
  Point = {sensor, switch}
  Published = {sensor, switch}
  Number <- MCNumber
  Null = Null
  ChangeThreshold <- MCChangeThreshold
  MaxObservations = 2
  MaxRestarts = 1
CHECK_DEADLOCK FALSE
INVARIANT
  CacheNamesLastEvent
