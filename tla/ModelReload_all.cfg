SPECIFICATION FairSpec
CONSTANTS
  None = None
  Overlay = Overlay
  top = top
  sub = sub
  Pkgs = {top, sub}
  Root = top
  Above <- MCAbove
  Imports <- MCImports
  Calls <- MCCalls
  Satisfies <- MCSatisfies
  Saveable = {sub}
  MaxEdits = 3
  MaxStops = 1
INVARIANTS NoEditIsLost SubscribersAreTold NextStartIsCurrent
PROPERTY EditsAreServed
CHECK_DEADLOCK FALSE
