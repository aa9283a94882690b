SPECIFICATION Spec
CONSTANTS
  e = e  h = h
  s = s  t = t  g = g
  None = None
  Packages = {p}
  Keys = {e, h}
  Shapes = {s, t, g}
  Ids = {i}
  Tools = {tool}
  Commands = {command}
  Exported <- MCExported
  Doubled = {}
  Stored <- MCStored
  MaxOps = 4
CHECK_DEADLOCK FALSE
INVARIANTS CurrentIsATarget
PROPERTIES LockedTargetsMatch AppliedDiffIsGone
