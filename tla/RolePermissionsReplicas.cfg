\* Two replicas with their own informers reconcile the same CR.
SPECIFICATION Spec
CONSTANTS
  r1 = r1
  r2 = r2
  c1 = c1
  NoCR = NoCR
  Unset = Unset
  NonNumeric = NonNumeric
  Nobody = Nobody
  Replicas <- TwoReplicas
  CRs <- OneCR
  Specs <- OneSpec
  Names <- MCNames
  AdminTrees <- MCAdminTrees
  InitRoles <- EditorAndPublic
  NameId <- NoNumericNames
  MaxRoles = 2
  MaxEdits = 3
  MaxAdmin = 1
  MaxFaults = 1
INVARIANTS
  PinnedTarget
  PinInv
PROPERTY
  RecordStands
CHECK_DEADLOCK FALSE
