--------------------------- MODULE MCOverlapMetric ---------------------------
(***************************************************************************)
(* Model-checking instance of OverlapMetric.  testOverlap runs 10 warmup   *)
(* and 200 measured iterations; one warmup and two measured iterations,    *)
(* the fewest in which a reset of mpiTestTime can lose a test's time,      *)
(* suffice here.  The test counts cover the three branches of              *)
(* mpiDummyCompute: chunks with a test each (2), no test (0) and a         *)
(* negative count, which tests once.                                       *)
(***************************************************************************)
EXTENDS OverlapMetric

MCTestCalls == {-1, 0, 2}
MCCommTimes == {2, 3}
MCIsendTimes == {1}
MCTestTimes == {0, 1}
MCWaitTimes == {0, 1}
MCOvershoot == {0, 1}
=============================================================================
