-------------------------- MODULE EmptyKernelEmbargo --------------------------
(***************************************************************************)
(* The EmptyKernelEmbargo benchmark, OpenCL (empty_kernel_embargo_ocl.cpp): *)
(* build "__kernel void empty() {}" from source, launch it once as warmup  *)
(* and then once per iteration on the in-order queue, timing enqueue plus  *)
(* clFinish on the CPU.  The GPU is a second process that runs what was    *)
(* submitted, in order.  Every ASSERT may return Error.                    *)
(***************************************************************************)
EXTENDS Integers, DriverObjects

CONSTANTS
  IterationCounts  \* values arguments.iterations may take

VARIABLES
  iterations,  \* the run's input
  pc,
  program, kernel,
  inflight,    \* launches the GPU has not yet run
  i,           \* the benchmark loop counter
  result       \* the TestResult run() returned

ekeVars == <<iterations, pc, program, kernel, inflight, i, result>>
vars == <<ekeVars, objVars>>

State == <<program, kernel, inflight, i>>

Init ==
  /\ objInit /\ iterations \in IterationCounts
  /\ pc = "noop" /\ program = NULLH /\ kernel = NULLH /\ inflight = 0
  /\ i = 0 /\ result = "none"

Return(r) ==
  result' = r /\ pc' = "done" /\ UNCHANGED State /\ UNCHANGED objVars

\* An ASSERT fails: return TestResult::Error.
ReturnError == Return("Error")

Goto(l) == pc' = l /\ UNCHANGED <<State, result>> /\ UNCHANGED objVars

\* clEnqueueNDRangeKernel(kernel, gws, lws), then go to next.
Launch(next) ==
  /\ Use({kernel}) /\ inflight' = inflight + 1 /\ pc' = next
  /\ UNCHANGED <<program, kernel, i, result>>

\* The GPU runs the oldest launch.
GpuRun ==
  /\ inflight > 0 /\ inflight' = inflight - 1
  /\ UNCHANGED <<iterations, pc, program, kernel, i, result>>
  /\ UNCHANGED objVars

\* isNoopRun(): pushUnitAndType and return Nooped.
Start ==
  pc = "noop" /\ (Return("Nooped") \/ Goto("program")) /\ UNCHANGED iterations

\* clCreateProgramWithSource, ASSERT; clBuildProgram, ASSERT (the program
\* exists when it fails); clCreateKernel("empty"), ASSERT.
CreateKernel ==
  /\ \/ /\ pc = "program"
        /\ \/ ReturnError
           \/ /\ Create /\ program' = Fresh
              /\ \/ pc' = "kernel" /\ UNCHANGED result
                 \/ pc' = "done" /\ result' = "Error"
              /\ UNCHANGED <<kernel, inflight, i>>
     \/ /\ pc = "kernel"
        /\ \/ ReturnError
           \/ /\ Create /\ kernel' = Fresh /\ pc' = "warmup"
              /\ UNCHANGED <<program, inflight, i, result>>
  /\ UNCHANGED iterations

\* Warmup: launch; clFinish; ASSERT_CL_SUCCESS(retVal) of clCreateKernel.
Warmup ==
  /\ \/ pc = "warmup" /\ (ReturnError \/ Launch("finish"))
     \/ pc = "finish" /\ (ReturnError \/ (inflight = 0 /\ Goto("bench")))
  /\ UNCHANGED iterations

\* for (i < iterations): measureStart; launch; clFinish; measureEnd;
\* pushValue(timer.get()); i++.
Iteration ==
  /\ \/ pc = "bench" /\ Goto(IF i < iterations THEN "launch" ELSE "cleanup")
     \/ pc = "launch" /\ (ReturnError \/ Launch("sync"))
     \/ pc = "sync" /\ (ReturnError \/ (inflight = 0 /\ Goto("stats")))
     \/ /\ pc = "stats" /\ i' = i + 1 /\ pc' = "bench"
        /\ UNCHANGED <<program, kernel, inflight, result>> /\ UNCHANGED objVars
  /\ UNCHANGED iterations

\* clReleaseKernel, clReleaseProgram, each ASSERTed; return Success.
Cleanup ==
  /\ pc = "cleanup"
  /\ LET order == <<kernel, program>> IN
     \E k \in 0..Len(order) :
       /\ ReleaseSeq(SubSeq(order, 1, k))
       /\ result' = IF k = Len(order) THEN "Success" ELSE "Error"
  /\ pc' = "done" /\ UNCHANGED <<State, iterations>>

Host == Start \/ CreateKernel \/ Warmup \/ Iteration \/ Cleanup

Next == Host \/ GpuRun

\* The GPU runs what was submitted (clFinish relies on it).
Spec == Init /\ [][Next]_vars /\ WF_vars(GpuRun)

-----------------------------------------------------------------------------
\* Every sample is taken after the empty kernel it timed ran.
SampleAfterCompletion == pc = "stats" => inflight = 0

\* A run that returns Success has released its kernel and program.
SuccessReleasesAll == result = "Success" => live = {}
=============================================================================
