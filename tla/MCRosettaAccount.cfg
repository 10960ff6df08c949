CONSTANTS
  s1 = s1  s2 = s2  v1 = v1  v2 = v2  c1 = c1  c2 = c2  c3 = c3  q1 = q1  None = None
  Reqs = {q1}
  MaxHeight = 2
  StakeIds = {s1, s2}
  Coins = {c1, c2, c3}
  Balance <- MCBalance
  Validator <- MCValidator
  Principal <- MCPrincipal
  StakeStatus <- MCStakeStatus
  Reward <- MCReward
  CoinsAt <- MCCoinsAt
SPECIFICATION Spec
CHECK_DEADLOCK FALSE
INVARIANTS TypeOK BalanceAtBlock AnsweredFromOneSnapshot
