SPECIFICATION Spec
CONSTANTS
  Owner = {o1, o2}
  Rev = {r1, r2}
  Source = {s1, s2}
  AgentScope = AgentScope
  None = None
  MaxRenders = 2
  MaxLists = 1
  MaxCopies = 1
  MaxStarts = 1
  MaxEvents = 1
  MaxFaults = 1
SYMMETRY Names
INVARIANTS TypeOK AcceptedIsOneRender RefusedOnlyIfTorn EnrichedByItsRevision MissedOnlyAfterGap
           CaughtUpIsNewest ReplayRestoresCache
CHECK_DEADLOCK FALSE
