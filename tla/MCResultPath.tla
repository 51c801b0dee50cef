----------------------------- MODULE MCResultPath -----------------------------
EXTENDS ResultPath, VisionLaws
CONSTANTS j1, j2, k1, k2
MCJobs == {j1, j2}
MCConsumers == {k1, k2}
=============================================================================
