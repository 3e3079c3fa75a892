\* The role is removed after the wipe.
SPECIFICATION FairSpec
CONSTANTS
  r1 = r1
  r2 = r2
  c1 = c1
  NoCR = NoCR
  Unset = Unset
  NonNumeric = NonNumeric
  Nobody = Nobody
  Replicas <- OneReplica
  CRs <- OneCR
  Specs <- OneSpec
  Names <- MCNames
  AdminTrees <- MCAdminTrees
  InitRoles <- EditorOnly
  NameId <- NoNumericNames
  MaxRoles = 1
  MaxEdits = 2
  MaxAdmin = 1
  MaxFaults = 0
PROPERTIES
  ClearedDrains
CHECK_DEADLOCK FALSE
