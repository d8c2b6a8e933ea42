-------------------------- MODULE MCSinKernelGraphL0 --------------------------
EXTENDS SinKernelGraphL0

\* INSTANTIATE_TEST_SUITE_P(... Values(3), Values(false, true)): the L0 binary
\* runs withGraphs = false, then withGraphs = true, in one process.
MCInstances == <<FALSE, TRUE>>

\* A build without NDEBUG keeps every assert() of the L0 DeviceMemoryManager.
MCAssertsL0 == AssertNames
=============================================================================
