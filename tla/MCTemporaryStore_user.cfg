CONSTANTS
  g = g  s = s  m = m  c = c  n = n  w = w  i = i  p = p
  TxDigest = TxDigest  PriorDigest = PriorDigest
  NoObj = NoObj  NoVer = NoVer  NoGas = NoGas
  Ids <- UserIds
  InputIds = {g, s, m}
  MutableInputIds = {g, s, m}
  GasCoin = g
  SecondaryGasCoins = {s}
  SystemStateId = w
  SystemStateInnerId = i
  SystemPackageIds = {}
  Backing <- UserBacking
  Sizes = {1, 2}
  StoragePrice = 2
  NonRefundableRate = 50
  MaxVersion = 5
  MaxVMRuns = 1
  MockTransaction = FALSE
  DebugAssertions = TRUE
SPECIFICATION Spec
INVARIANTS WrittenDeletedDisjoint NoPanic StorageRebateConserved
CHECK_DEADLOCK FALSE
