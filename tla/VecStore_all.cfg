SPECIFICATION StoreSpec
CONSTANTS
  Absent = Absent
  nomic = nomic
  other = other
  d3 = d3
  Daemons = {d1, d2, d3}
  Namespaces = {nomic, other}
  NsOf <- MCNsOf
  Hashes = {h1, h2}
SYMMETRY Symmetry
INVARIANTS VectorsAreOwn UnsavedIsFlagged
PROPERTIES LossNeedsARace
