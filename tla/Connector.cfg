\* One namespaced config, two CRs.
SPECIFICATION FairSpec
CONSTANTS
  p = p
  g = g
  c2 = c2
  CRs = {c1, c2}
  Configs = {p}
  Kind <- MCKind
  Specs = {s1, s2}
  InitSpec <- MCInitSpec
  None = None
  Elsewhere = Elsewhere
  Passwords = {w1, w2}
  Malformed = Malformed
  FirstPassword = w1
  NoWorker = NoWorker
  NoCfg = NoCfg
  Scenarios <- MCScenarios
INVARIANTS
  TypeOK
  UsageInv
  OneClientPerConfig
PROPERTIES
  InUseIsKept
  SharesClients
  UsagesCatchUp
  ConfigsDrain
  CRsDrain
  RotationTakesEffect
CHECK_DEADLOCK FALSE
