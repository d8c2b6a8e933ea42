----------------------------- MODULE MCMpiWorkload -----------------------------
(***************************************************************************)
(* Model-checking instances of MpiWorkload.  One warmup and one measured   *)
(* iteration reach both sides of `if (i >= warmup)` and of every loop      *)
(* exit; two messages per Bandwidth batch make a batch more than one send. *)
(***************************************************************************)
EXTENDS MpiWorkload

\* Every test with testArg3 in {0, 1} but Bandwidth with the default
\* nBatches = 0, whose division by zero is checked on its own.
MCConfigs == (AllTests \X {0, 1}) \ {<<"Bandwidth", 0>>}
MCOverlapGpu == {<<"Overlap", 1>>}
MCBandwidthDefault == {<<"Bandwidth", 0>>}
MCAllToAll == {<<"AllToAll", 0>>}
MCDurations == {1, 2}
\* One USM placement and one aligned_alloc type: the two deallocators.
MCPlacements == {"Shared", "NonUsm"}
=============================================================================
