SPECIFICATION FairSpec
CONSTANTS
  eastmoney = eastmoney
  ths = ths
  Providers = {eastmoney, ths}
  NoProvider = NoProvider
  Chains <- MCChains
  Probers = {a1}
  FailureThreshold = 2
  SuccessThreshold = 2
  BaseCooldown = 1
  MaxCooldown = 2
  MaxRestarts = 1
INVARIANT CircuitConsistent
INVARIANT OneTrialPerCycle
INVARIANT OneFailurePerCycle
PROPERTY PrimaryRecovers
