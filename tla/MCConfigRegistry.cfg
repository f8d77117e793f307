SPECIFICATION Spec
CONSTANTS
  Client = {c1, c2}
  TenantCode = {t}
  AssetCode = {a}
  AgentCode = {g}
  SourceCode = {s1, s2}
  PointCode = {p1}
  PointKey = {k1, k2}
  Revision = {r1}
  RowId = {1, 2}
  None = None
  AgentScope = AgentScope
  MaxLeaves = 3
SYMMETRY Codes
INVARIANTS TypeOK OneRowPerCode NoOrphans CodesAgree
PROPERTIES StoresAllThatIsLeft ImplementsSerialRegistry
CHECK_DEADLOCK FALSE
