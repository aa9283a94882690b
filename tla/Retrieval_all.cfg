SPECIFICATION FairSpec
CONSTANTS
  None = None
  v3 = v3
  shape = shape
  reshaped = reshaped
  Nodes = {n1}
  Versions = {v1, v3}
  Shapes = {shape, reshaped}
  Shape <- MCShape
  MaxEdits = 2
INVARIANTS IndexesFollowTheModel
PROPERTIES SearchSettles
