SPECIFICATION FairSpec
CONSTANTS
  None = None
  CacheFile = CacheFile
  Revs = {ra, rb}
  Files = {f1, f2}
  Loads = {l1, l2}
  Callers = {c1}
  Limit = 1
INVARIANTS ExportsAreAtomic
PROPERTIES LoadsAreShared CallersAreAnswered
