SPECIFICATION GateSpec
CONSTANTS
  LayerOrder <- MCLayerOrder
  GoModule = "m"
  Local = Local
  NoName = NoName
  PkgOrder <- MCPkgOrder
  AllPackages <- MCAllPackages
  RootPool <- MCRootPool
  FragmentPool <- MCFragmentPool
  MaxClauses = 2
INVARIANTS PathsAreExact NarrowScansOnlyMiss ForbidsSurviveFragments
