----------------------------- MODULE MCAiRuntime -----------------------------
(* Two threads, two jobs, a stream that is replaced by another.              *)
EXTENDS AiRuntime, TLC
CONSTANTS c1, c2, j1, j2, old, new
MCCallers == {c1, c2}
MCJobs == {j1, j2}
MCFeeds == {old, new}
MCSymmetry == Permutations(MCCallers) \cup Permutations(MCJobs) \cup Permutations(MCFeeds)
=============================================================================
