SPECIFICATION FairSpec
CONSTANTS
  None = None
  feat = feat
  fix = fix
  kMain = kMain
  kRel = kRel
  kFix = kFix
  s1 = s1
  s2 = s2
  WorktreeOf <- MCWorktreeOf
  DefaultKey <- MCDefaultKey
  HomeOf <- MCHomeOf
  Worktrees = {feat}
  Keys = {kMain, kRel}
  States = {s1}
  Builds = {b1, b2}
  Readers = {r1}
  MaxReports = 1
  MaxVersion = 1
INVARIANTS NothingOutlivesItsEvent AnswersAreFresh
PROPERTIES EntriesAreShared ReadersAreAnswered
