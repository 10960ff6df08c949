CONSTANTS
  p1 = p1  p2 = p2  o1 = o1  o2 = o2  o3 = o3  x = x
  NoObj = NoObj  None = None
  Ids = {p1, p2, o1, o2, o3, x}
  Inputs = {p1, p2, o1}
  SystemPackages = {p1}
  Store <- MCStore
SPECIFICATION Spec
INVARIANTS TypeOK
PROPERTIES ResolutionNeverRegresses
