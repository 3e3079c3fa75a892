\* Every list against every tree: what settles, and what that means.
SPECIFICATION Spec
CONSTANTS
  Lists <- MCLists
  Trees <- MCTrees
INVARIANTS
  TypeOK
  UpToDateSound
  ApplySettles
  RoundTrip
