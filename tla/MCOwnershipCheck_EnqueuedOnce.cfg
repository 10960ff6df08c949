CONSTANTS
  g = g  r = r  x = x  y = y  u = u  s = s  t = t
  NoObj = NoObj  NoId = NoId
  Ids = {g, r, x, y, u}
  Addrs = {s, t}
  Sender = s
  Inputs = {g, r}
  GasCoins = {g}
  SystemPackages = {y}
  IsEpochChange = FALSE
  IdOrder <- MCIdOrder
  StoreStates <- MCStoreStates
SPECIFICATION Spec
INVARIANTS EnqueuedOnce
CHECK_DEADLOCK FALSE
