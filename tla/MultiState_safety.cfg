SPECIFICATION Spec
CONSTANTS
  None = None
  pathMain = pathMain
  pathA = pathA
  pathB = pathB
  main = main
  feat = feat
  ghost = ghost
  Paths = {pathMain, pathA, pathB}
  Root = pathMain
  Names = {main, feat, ghost}
  Wanted = {feat, ghost}
  NameOf <- MCNameOf
  Loads = {l1, l2}
  Callers = {c1}
SYMMETRY Symmetry
INVARIANTS SingleFlight RegistryIsConsistent
PROPERTIES CacheStepsAreSound ImplementsLifecycle
