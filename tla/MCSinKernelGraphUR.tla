-------------------------- MODULE MCSinKernelGraphUR --------------------------
EXTENDS SinKernelGraphUR

\* INSTANTIATE_TEST_SUITE_P(... Values(3), Values(false, true)): the UR binary
\* runs withGraphs = false, then withGraphs = true, in one process.
MCInstances == <<FALSE, TRUE>>

\* The UR copy of DeviceMemoryManager keeps only assert(!"should not reach here").
MCAssertsUR == {"not_found"}
=============================================================================
