---------------------------- MODULE MCReportCache ----------------------------
(* Instances of ReportCache for TLC: keys kMain and kRel of worktree feat, and    *)
(* kFix of worktree fix.                                                          *)
EXTENDS ReportCache, TLC

CONSTANTS feat, fix, kMain, kRel, kFix, s1, s2

MCWorktreeOf == [k \in Keys |-> IF k = kFix THEN fix ELSE feat]
MCDefaultKey == [w \in Worktrees |-> IF w = fix THEN kFix ELSE kMain]
MCHomeOf     == [s \in States |-> feat]

Symmetry == Permutations(Builds) \cup Permutations(Readers)
=============================================================================
