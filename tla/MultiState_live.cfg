SPECIFICATION FairSpec
CONSTANTS
  None = None
  pathMain = pathMain
  pathA = pathA
  pathB = pathB
  main = main
  feat = feat
  ghost = ghost
  Paths = {pathMain, pathA}
  Root = pathMain
  Names = {main, feat}
  Wanted = {feat}
  NameOf <- MCNameOf
  Loads = {l1}
  Callers = {c1, c2}
PROPERTIES RequestsAdvance
