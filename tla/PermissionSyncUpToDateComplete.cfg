SPECIFICATION Spec
CONSTANTS
  Lists <- MCLists
  Trees <- MCTrees
INVARIANT
  UpToDateComplete

