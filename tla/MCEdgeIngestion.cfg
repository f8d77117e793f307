SPECIFICATION Spec
CONSTANTS
  adapter = adapter
  sensor = sensor
  switch = switch
  command = command
  Process = {adapter}
  Point = {sensor, switch, command}
  Published = {sensor, switch}
  Number <- MCNumber
  Null = Null
  ChangeThreshold <- MCChangeThreshold
  MaxObservations = 4
  MaxRestarts = 2
CHECK_DEADLOCK FALSE
INVARIANTS
  TypeOK
  SequenceRises
  GapsComeFromRestarts
  HeardIsClose
  IndInv
PROPERTY
  CacheNeverFallsBack
