-------------------------- MODULE UsmSharedMigrate --------------------------
(***************************************************************************)
(* The OpenCL multitile benchmarks UsmSharedMigrateCpu and               *)
(* UsmSharedMigrateGpu (usm_shared_migrate_{cpu,gpu}_ocl.cpp).  A USM     *)
(* shared buffer migrates to the side that touches it: the host's writes *)
(* pull pages to the CPU, the fill_with_ones kernel pulls them all to the *)
(* GPU.  The Cpu variant measures host writes after a kernel, the Gpu     *)
(* variant a kernel after host writes.  The GPU is a second process that *)
(* runs the enqueued kernels; clFinish waits for it.  The buffer is two  *)
(* pages: the one holding buffer[0] and the rest.                         *)
(***************************************************************************)
EXTENDS Integers, Sequences, DriverObjects

CONSTANTS
  Directions,        \* variants that may run: subset of {"Cpu", "Gpu"}
  IterationCounts    \* values arguments.iterations may take

VARIABLES
  direction, iterations,
  accessAllBytes,   \* argument of the Cpu variant only (FALSE for Gpu)
  pc,
  buffer, program, kernel,   \* the USM pointer, cl_program, cl_kernel
  inflight,     \* kernels enqueued and not yet run by the GPU
  residency,    \* page -> "CPU" or "GPU": where the page lives
  startResidency,   \* residency when the timer started (ghost)
  i,            \* the benchmark loop counter
  result        \* the TestResult run() returned

Pages == {1, 2}
Sides == {"CPU", "GPU"}

usmVars == <<direction, iterations, accessAllBytes, pc, buffer, program,
             kernel, inflight, residency, startResidency, i, result>>
vars == <<usmVars, objVars>>

Fixed == UNCHANGED <<direction, iterations, accessAllBytes>>
\* What a step that does not start the timer leaves alone.
Keep == Fixed /\ UNCHANGED startResidency
Objects == <<buffer, program, kernel>>

Init ==
  /\ objInit
  /\ direction \in Directions /\ iterations \in IterationCounts
  /\ accessAllBytes \in IF direction = "Cpu" THEN BOOLEAN ELSE {FALSE}
  /\ pc = "noop" /\ buffer = NULLH /\ program = NULLH /\ kernel = NULLH
  /\ inflight = 0 /\ residency \in [Pages -> Sides]
  /\ startResidency = residency /\ i = 0 /\ result = "none"

Return(r) == result' = r /\ pc' = "done"

\* An ASSERT_CL_SUCCESS fails: return TestResult::Error.
ReturnError ==
  Return("Error") /\ UNCHANGED <<Objects, inflight, residency, i>>
  /\ UNCHANGED objVars

\* Go to label l, changing nothing else of the host's.
Goto(l) ==
  pc' = l /\ UNCHANGED <<Objects, inflight, residency, i, result>>
  /\ UNCHANGED objVars

\* isNoopRun(); Opencl opencl (creation may fail: DeviceNotCapable);
\* isUsmSupported (DriverFunctionNotFound).
Start ==
  /\ pc = "noop"
  /\ \/ Return("Nooped") \/ Return("DeviceNotCapable")
     \/ Return("DriverFunctionNotFound")
     \/ pc' = "buffer" /\ UNCHANGED result
  /\ UNCHANGED <<Objects, inflight, residency, i>> /\ UNCHANGED objVars
  /\ Keep

\* UsmHelperOcl::allocate(...); ASSERT_CL_SUCCESS(retVal)
CreateBuffer ==
  /\ pc = "buffer"
  /\ \/ ReturnError
     \/ /\ Create /\ buffer' = Fresh /\ pc' = "program"
        /\ UNCHANGED <<program, kernel, inflight, residency, i, result>>
  /\ Keep

\* clCreateProgramWithSource; clBuildProgram (the program exists when the
\* build fails).
CreateProgram ==
  /\ pc = "program"
  /\ \/ ReturnError
     \/ /\ Create /\ program' = Fresh
        /\ \/ pc' = "kernel" /\ UNCHANGED result
           \/ Return("Error")
        /\ UNCHANGED <<buffer, kernel, inflight, residency, i>>
  /\ Keep

\* clCreateKernel(program, "fill_with_ones", &retVal)
CreateKernel ==
  /\ pc = "kernel"
  /\ \/ ReturnError
     \/ /\ Create /\ kernel' = Fresh
        /\ pc' = (IF direction = "Cpu" THEN "warm_enqueue" ELSE "warm_fill")
        /\ UNCHANGED <<buffer, program, inflight, residency, i, result>>
  /\ Keep

\* The host writes buffer[elementIndex] = 0 over the pages P.
HostWrite(P) ==
  residency' = [p \in Pages |-> IF p \in P THEN "CPU" ELSE residency[p]]

\* clEnqueueNDRangeKernel(fill_with_ones), ASSERTed, then go to next.
EnqueueStep(next) ==
  \/ ReturnError
  \/ /\ Use({buffer, kernel}) /\ inflight' = inflight + 1 /\ pc' = next
     /\ UNCHANGED <<buffer, program, kernel, residency, i, result>>

\* Variant of FinishStep that returns without waiting for the GPU.
FinishStepNoWait(next) ==
  \/ ReturnError
  \/ Goto(next)

\* clFinish(opencl.commandQueue): returns once the GPU ran every kernel.
FinishStep(next) ==
  \/ ReturnError
  \/ inflight = 0 /\ Goto(next)

\* Cpu warmup: clSetKernelArgSVMPointer; enqueue; clFinish; zero every
\* element.
WarmupCpu ==
  /\ direction = "Cpu"
  /\ \/ pc = "warm_enqueue" /\ EnqueueStep("warm_finish")
     \/ pc = "warm_finish" /\ FinishStep("warm_fill")
     \/ /\ pc = "warm_fill" /\ HostWrite(Pages) /\ pc' = "bench"
        /\ UNCHANGED <<Objects, inflight, i, result>> /\ UNCHANGED objVars
  /\ Keep

\* Gpu warmup: zero every element; clSetKernelArgSVMPointer; enqueue;
\* clFinish.
WarmupGpu ==
  /\ direction = "Gpu"
  /\ \/ /\ pc = "warm_fill" /\ HostWrite(Pages) /\ pc' = "warm_enqueue"
        /\ UNCHANGED <<Objects, inflight, i, result>> /\ UNCHANGED objVars
     \/ pc = "warm_enqueue" /\ EnqueueStep("warm_finish")
     \/ pc = "warm_finish" /\ FinishStep("bench")
  /\ Keep

\* for (auto i = 0u; i < arguments.iterations; i++)
BenchHead ==
  /\ pc = "bench"
  /\ Goto(IF i >= iterations THEN "cleanup"
          ELSE IF direction = "Cpu" THEN "enqueue" ELSE "fill")
  /\ Keep

\* Cpu loop body: enqueue and clFinish (migrate to the GPU), then the
\* measured host writes: every element or buffer[0] only.
LoopCpu ==
  /\ direction = "Cpu"
  /\ \/ pc = "enqueue" /\ EnqueueStep("finish") /\ Keep
     \/ pc = "finish" /\ FinishStep("access") /\ Keep
     \/ /\ pc = "access"
        /\ startResidency' = residency
        /\ HostWrite(IF accessAllBytes THEN Pages ELSE {1})
        /\ pc' = "push" /\ UNCHANGED <<Objects, inflight, i, result>>
        /\ UNCHANGED objVars /\ Fixed

\* Gpu loop body: zero every element (migrate to the CPU), then the
\* measured enqueue and clFinish.
LoopGpu ==
  /\ direction = "Gpu"
  /\ \/ /\ pc = "fill" /\ HostWrite(Pages) /\ pc' = "measure"
        /\ UNCHANGED <<Objects, inflight, i, result>> /\ UNCHANGED objVars
        /\ Keep
     \/ /\ pc = "measure" /\ startResidency' = residency
        /\ EnqueueStep("finish") /\ Fixed
     \/ pc = "finish" /\ FinishStep("push") /\ Keep

\* statistics.pushValue(timer.get(), arguments.bufferSize, ...); i++
Push ==
  /\ pc = "push" /\ pc' = "bench" /\ i' = i + 1
  /\ UNCHANGED <<Objects, inflight, residency, result>> /\ UNCHANGED objVars
  /\ Keep

\* clReleaseKernel, clReleaseProgram, clMemFreeINTEL, each ASSERTed;
\* return Success.
Cleanup ==
  /\ pc = "cleanup"
  /\ \E k \in 0..3 :
       /\ ReleaseSeq(SubSeq(<<kernel, program, buffer>>, 1, k))
       /\ Return(IF k = 3 THEN "Success" ELSE "Error")
  /\ UNCHANGED <<Objects, inflight, residency, i>> /\ Keep

\* The GPU runs the oldest enqueued kernel: every page moves to the GPU.
Execute ==
  /\ inflight > 0
  /\ inflight' = inflight - 1 /\ residency' = [p \in Pages |-> "GPU"]
  /\ UNCHANGED <<pc, Objects, i, result>> /\ UNCHANGED objVars /\ Keep

Host ==
  \/ Start \/ CreateBuffer \/ CreateProgram \/ CreateKernel \/ WarmupCpu
  \/ WarmupGpu \/ BenchHead \/ LoopCpu \/ LoopGpu \/ Push \/ Cleanup

Next == Host \/ Execute

\* The GPU runs what was enqueued (clFinish relies on it).
Spec == Init /\ [][Next]_vars /\ WF_vars(Execute)

-----------------------------------------------------------------------------
\* Every measurement times a real migration: when the Gpu variant starts
\* its timer every page is on the CPU, so the measured kernel must pull the
\* whole buffer to the GPU; when the Cpu variant starts its timer every page
\* it is about to write is on the GPU.  A kernel still running when the
\* host writes, or when the timer starts, breaks it.
MeasuresMigration ==
  pc = "push" =>
    \A p \in (IF direction = "Cpu" /\ ~accessAllBytes THEN {1} ELSE Pages) :
      startResidency[p] = IF direction = "Gpu" THEN "CPU" ELSE "GPU"

\* A run that returns Success has released its kernel, program and buffer.
SuccessReleasesAll == result = "Success" => live = {}
=============================================================================
