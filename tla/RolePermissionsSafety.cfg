\* One replica, one CR, every operation of users, administrators and failures.
SPECIFICATION Spec
CONSTANTS
  r1 = r1
  r2 = r2
  c1 = c1
  NoCR = NoCR
  Unset = Unset
  NonNumeric = NonNumeric
  Nobody = Nobody
  Replicas <- OneReplica
  CRs <- OneCR
  Specs <- PolicySpecs
  Names <- MCNames
  AdminTrees <- MCAdminTrees
  InitRoles <- EditorAndPublic
  NameId <- NoNumericNames
  MaxRoles = 3
  MaxEdits = 4
  MaxAdmin = 2
  MaxFaults = 1
INVARIANTS
  TypeOK
  ClearedMeansWiped
  WipeInv
PROPERTIES
  NoOrphanGrants
  KeepsLifecycle
CHECK_DEADLOCK FALSE
