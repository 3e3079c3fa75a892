\* A cluster-scoped config: the documented protection of configs in use.
SPECIFICATION Spec
CONSTANTS
  p = p
  g = g
  c2 = c2
  CRs = {c1, c2}
  Configs = {g}
  Kind <- MCKind
  Specs = {s1}
  InitSpec <- MCInitSpec
  None = None
  Elsewhere = Elsewhere
  Passwords = {w1}
  Malformed = Malformed
  FirstPassword = w1
  NoWorker = NoWorker
  NoCfg = NoCfg
  Scenarios <- MCScenarios
PROPERTIES
  EveryKindKept
CHECK_DEADLOCK FALSE
