\* Two replicas: one may hold a copy of a CR that the other sees deleted.
SPECIFICATION Spec
CONSTANTS
  r1 = r1
  r2 = r2
  c1 = c1
  NoCR = NoCR
  Unset = Unset
  NonNumeric = NonNumeric
  Nobody = Nobody
  Replicas <- TwoReplicas
  CRs <- OneCR
  Specs <- OneSpec
  Names <- MCNames
  AdminTrees <- MCAdminTrees
  InitRoles <- EditorAndPublic
  NameId <- NoNumericNames
  MaxRoles = 2
  MaxEdits = 2
  MaxAdmin = 0
  MaxFaults = 0
PROPERTIES
  NoOrphanGrants
CHECK_DEADLOCK FALSE
