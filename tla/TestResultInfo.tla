---------------------------- MODULE TestResultInfo ----------------------------
(***************************************************************************)
(* The outcome table of the framework (test_case/test_result.cpp): the     *)
(* reporting metadata of every TestResult but Success, looked up by        *)
(* getTestResultInfo once a benchmark's run() returned.  The message text  *)
(* is kept; printSingle, printAll and printAllResults only choose what is  *)
(* printed, skipped decides whether the outcome counts as skipped or       *)
(* failed.                                                                 *)
(***************************************************************************)

Info(msg, single, all, skip, allResults) ==
  [stringMessage |-> msg, printSingle |-> single, printAll |-> all,
   skipped |-> skip, printAllResults |-> allResults]

\* Variant of the table in which Error counts as skipped.
testResultInfoMappingErrorSkipped ==
  [Error |-> Info("ERROR", TRUE, TRUE, TRUE, TRUE),
   DriverFunctionNotFound |-> Info("NO_SUPPORT", TRUE, TRUE, TRUE, TRUE),
   DeviceNotCapable |-> Info("NO_SUPPORT", TRUE, FALSE, TRUE, TRUE),
   ApiNotCapable |-> Info("NO_SUPPORT (API)", TRUE, FALSE, TRUE, TRUE),
   KernelNotFound |-> Info("MISSING_KERNEL", TRUE, TRUE, TRUE, TRUE),
   SkippedApi |-> Info("SKIPPED", FALSE, FALSE, TRUE, TRUE),
   UnsupportedApi |-> Info("SKIPPED", FALSE, FALSE, TRUE, TRUE),
   NoImplementation |-> Info("NO_IMPLEMENT", TRUE, FALSE, TRUE, TRUE),
   IntelExtensionsRequired |-> Info("NO_SUPPORT", TRUE, FALSE, TRUE, TRUE),
   InvalidArgs |-> Info("INVALID_ARGS", TRUE, TRUE, TRUE, TRUE),
   Nooped |-> Info("NOOP", TRUE, TRUE, TRUE, TRUE),
   FilteredOut |-> Info("FILTERED_OUT", TRUE, FALSE, TRUE, FALSE),
   VerificationFail |-> Info("VERIF_FAIL", TRUE, TRUE, FALSE, TRUE),
   KernelBuildError |-> Info("KERNEL_BUILD_ERROR", TRUE, TRUE, FALSE, TRUE)]

\* testResultInfoMapping: TestResult -> {stringMessage, printSingle,
\* printAll, skipped, printAllResults}.
testResultInfoMapping ==
  [Error |-> Info("ERROR", TRUE, TRUE, FALSE, TRUE),
   DriverFunctionNotFound |-> Info("NO_SUPPORT", TRUE, TRUE, TRUE, TRUE),
   DeviceNotCapable |-> Info("NO_SUPPORT", TRUE, FALSE, TRUE, TRUE),
   ApiNotCapable |-> Info("NO_SUPPORT (API)", TRUE, FALSE, TRUE, TRUE),
   KernelNotFound |-> Info("MISSING_KERNEL", TRUE, TRUE, TRUE, TRUE),
   SkippedApi |-> Info("SKIPPED", FALSE, FALSE, TRUE, TRUE),
   UnsupportedApi |-> Info("SKIPPED", FALSE, FALSE, TRUE, TRUE),
   NoImplementation |-> Info("NO_IMPLEMENT", TRUE, FALSE, TRUE, TRUE),
   IntelExtensionsRequired |-> Info("NO_SUPPORT", TRUE, FALSE, TRUE, TRUE),
   InvalidArgs |-> Info("INVALID_ARGS", TRUE, TRUE, TRUE, TRUE),
   Nooped |-> Info("NOOP", TRUE, TRUE, TRUE, TRUE),
   FilteredOut |-> Info("FILTERED_OUT", TRUE, FALSE, TRUE, FALSE),
   VerificationFail |-> Info("VERIF_FAIL", TRUE, TRUE, FALSE, TRUE),
   KernelBuildError |-> Info("KERNEL_BUILD_ERROR", TRUE, TRUE, FALSE, TRUE)]

\* getTestResultInfo finds the entry of a result; a result with none is a
\* FATAL_ERROR_IF, which aborts the process.  (Success is only a developer
\* warning; it has no entry either.)
HasInfo(testResult) == testResult \in DOMAIN testResultInfoMapping

getTestResultInfo(testResult) == testResultInfoMapping[testResult]

\* The outcome counts as skipped rather than failed.
Skipped(testResult) ==
  HasInfo(testResult) /\ getTestResultInfo(testResult).skipped
=============================================================================
