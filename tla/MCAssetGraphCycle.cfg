SPECIFICATION Spec
CONSTANTS
  a1 = a1
  a2 = a2
  n1 = n1
  n2 = n2
  b1 = b1
  b2 = b2
  p1 = p1
  p2 = p2
  c1 = c1
  c2 = c2
  c3 = c3
  Client = {a1, a2}
  Node = {n1}
  Key = {"power", "temperature"}
  Relationship = {"feeds"}
  Binding = {b1}
  Point = {p1}
  CatalogNode = {c1, c2}
  Root = Root
  Folder = Folder
  MaxRaces = 1
  Nil = Nil
INVARIANT
  CatalogHasNoCycle
