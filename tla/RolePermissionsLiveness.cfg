\* One replica, one CR: convergence, quiet and deletion.
SPECIFICATION FairSpec
CONSTANTS
  r1 = r1
  r2 = r2
  c1 = c1
  NoCR = NoCR
  Unset = Unset
  NonNumeric = NonNumeric
  Nobody = Nobody
  Replicas <- OneReplica
  CRs <- OneCR
  Specs <- AllSpecs
  Names <- MCNames
  AdminTrees <- MCAdminTrees
  InitRoles <- EditorOnly
  NameId <- NoNumericNames
  MaxRoles = 2
  MaxEdits = 3
  MaxAdmin = 2
  MaxFaults = 1
PROPERTIES
  Converges
  EventuallyQuiet
  DeletionDrains
CHECK_DEADLOCK FALSE
