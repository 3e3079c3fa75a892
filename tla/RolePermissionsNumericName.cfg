\* The metadata.name is a number, the id of another role.
SPECIFICATION Spec
CONSTANTS
  r1 = r1
  r2 = r2
  c1 = c1
  NoCR = NoCR
  Unset = Unset
  NonNumeric = NonNumeric
  Nobody = Nobody
  Replicas <- OneReplica
  CRs <- OneCR
  Specs <- OneSpec
  Names <- MCNames
  AdminTrees <- MCAdminTrees
  InitRoles <- EditorAndPublic
  NameId <- NumericNames
  MaxRoles = 2
  MaxEdits = 1
  MaxAdmin = 0
  MaxFaults = 0
INVARIANTS
  WritesSelectedRole
CHECK_DEADLOCK FALSE
