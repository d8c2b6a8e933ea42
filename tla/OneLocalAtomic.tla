--------------------------- MODULE OneLocalAtomic ---------------------------
(***************************************************************************)
(* The OpenCL atomic benchmark OneLocalAtomic (one_local_atomic_ocl.cpp):  *)
(* create two buffers, build the program and the kernel, run a warmup and *)
(* arguments.iterations measured enqueues, verify, release.  With         *)
(* useEvents every enqueue writes a new event into the one cl_event       *)
(* variable profilingEvent, which the code must release before the next  *)
(* enqueue overwrites it.  Every ASSERT_CL_SUCCESS may return Error.      *)
(***************************************************************************)
EXTENDS Integers, Sequences, DriverObjects

CONSTANTS
  UseEvents,         \* values arguments.useEvents may take
  IterationCounts    \* values arguments.iterations may take

VARIABLES
  useEvents, iterations,   \* the run's arguments
  pc,
  buffer, otherArgumentsBuffer, program, kernel,   \* cl_mem, cl_program, cl_kernel
  profilingEvent,   \* cl_event profilingEvent
  i,                \* the benchmark loop counter
  result            \* the TestResult run() returned

olaVars == <<useEvents, iterations, pc, buffer, otherArgumentsBuffer, program,
             kernel, profilingEvent, i, result>>
vars == <<olaVars, objVars>>

Fixed == UNCHANGED <<useEvents, iterations>>

Objects == <<buffer, otherArgumentsBuffer, program, kernel>>

Init ==
  /\ objInit
  /\ useEvents \in UseEvents /\ iterations \in IterationCounts
  /\ pc = "noop" /\ buffer = NULLH /\ otherArgumentsBuffer = NULLH
  /\ program = NULLH /\ kernel = NULLH /\ profilingEvent = NULLH
  /\ i = 0 /\ result = "none"

Return(r) == result' = r /\ pc' = "done"

\* An ASSERT_CL_SUCCESS fails: return TestResult::Error.
ReturnError ==
  Return("Error") /\ UNCHANGED <<Objects, profilingEvent, i>>
  /\ UNCHANGED objVars

\* Go to label l, leaving the objects and the driver alone.
Goto(l) ==
  pc' = l /\ UNCHANGED <<Objects, profilingEvent, i, result>>
  /\ UNCHANGED objVars

\* isNoopRun(); Opencl opencl; isSupportedAsAtomic or DeviceNotCapable.
Start ==
  /\ pc = "noop"
  /\ \/ Return("Nooped") \/ Return("DeviceNotCapable")
     \/ pc' = "buffer" /\ UNCHANGED result
  /\ UNCHANGED <<Objects, profilingEvent, i>> /\ UNCHANGED objVars /\ Fixed

\* buffer = clCreateBuffer(...); ASSERT_CL_SUCCESS(retVal)
CreateBuffer ==
  /\ pc = "buffer"
  /\ \/ ReturnError
     \/ /\ Create /\ buffer' = Fresh /\ pc' = "other"
        /\ UNCHANGED <<otherArgumentsBuffer, program, kernel, profilingEvent,
                       i, result>>
  /\ Fixed

\* otherArgumentsBuffer = clCreateBuffer(...); clEnqueueFillBuffer;
\* clFinish: the buffer exists when the fill or the finish fails.
CreateOtherBuffer ==
  /\ pc = "other"
  /\ \/ ReturnError
     \/ /\ Create /\ otherArgumentsBuffer' = Fresh
        /\ \/ pc' = "program" /\ UNCHANGED result
           \/ Return("Error")
        /\ UNCHANGED <<buffer, program, kernel, profilingEvent, i>>
  /\ Fixed

\* ProgramHelperOcl::buildProgramFromSourceFile: a result other than
\* Success is returned as is.
BuildProgram ==
  /\ pc = "program"
  /\ \/ \E r \in {"KernelNotFound", "Error"} :
          Return(r) /\ UNCHANGED <<Objects, profilingEvent, i>>
          /\ UNCHANGED objVars
     \/ /\ Create /\ program' = Fresh /\ pc' = "kernel"
        /\ UNCHANGED <<buffer, otherArgumentsBuffer, kernel, profilingEvent,
                       i, result>>
  /\ Fixed

\* kernel = clCreateKernel(program, "one_local_atomic", &retVal)
CreateKernel ==
  /\ pc = "kernel"
  /\ \/ ReturnError
     \/ /\ Create /\ kernel' = Fresh /\ pc' = "warmup"
        /\ UNCHANGED <<buffer, otherArgumentsBuffer, program, profilingEvent,
                       i, result>>
  /\ Fixed

\* The objects the kernel's arguments name (clSetKernelArg 0 and 1).
KernelArgs == {buffer, otherArgumentsBuffer, kernel}

\* clEnqueueNDRangeKernel(..., eventForEnqueue): with useEvents the driver
\* writes a new event into profilingEvent.
Enqueue(next) ==
  /\ pc' = next
  /\ IF useEvents
     THEN CreateUsing(KernelArgs) /\ profilingEvent' = Fresh
     ELSE Use(KernelArgs) /\ UNCHANGED profilingEvent
  /\ UNCHANGED <<buffer, otherArgumentsBuffer, program, kernel, i,
                 result>>

\* Warmup: the four clSetKernelArg calls and the enqueue.
WarmEnqueue ==
  /\ pc = "warmup"
  /\ ReturnError \/ Enqueue("warm_finish")
  /\ Fixed

\* Variant of WarmFinish without the clReleaseEvent of line 100.
WarmFinishKeepsEvent ==
  /\ pc = "warm_finish"
  /\ ReturnError \/ Goto("bench")
  /\ Fixed

\* clFinish; if (eventForEnqueue) clReleaseEvent(profilingEvent)
WarmFinish ==
  /\ pc = "warm_finish"
  /\ \/ ReturnError
     \/ useEvents /\ Release(profilingEvent) /\ pc' = "bench"
        /\ UNCHANGED <<Objects, profilingEvent, i, result>>
     \/ ~useEvents /\ Goto("bench")
  /\ Fixed

\* for (auto i = 0u; i < arguments.iterations; i++)
BenchHead ==
  /\ pc = "bench"
  /\ Goto(IF i < iterations THEN "enqueue" ELSE "verify")
  /\ Fixed

\* measureStart; clEnqueueNDRangeKernel; clFinish; measureEnd
MeasuredEnqueue ==
  /\ pc = "enqueue"
  /\ ReturnError \/ Enqueue("stats")
  /\ Fixed

\* With events: getEventDurationInNanoseconds and clReleaseEvent, each
\* ASSERTed; pushValue; i++.
Stats ==
  /\ pc = "stats"
  /\ \/ ReturnError
     \/ useEvents /\ Release(profilingEvent) /\ pc' = "bench" /\ i' = i + 1
        /\ UNCHANGED <<Objects, profilingEvent, result>>
     \/ ~useEvents /\ pc' = "bench" /\ i' = i + 1
        /\ UNCHANGED <<Objects, profilingEvent, result>> /\ UNCHANGED objVars
  /\ Fixed

\* clEnqueueReadBuffer(buffer); memcmp with the expected value.
Verify ==
  /\ pc = "verify"
  /\ \/ ReturnError
     \/ Return("VerificationFail") /\ Use({buffer})
        /\ UNCHANGED <<Objects, profilingEvent, i>>
     \/ Use({buffer}) /\ Goto("cleanup")
  /\ Fixed

\* The releases of the cleanup block, in order.
CleanupOrder == <<kernel, program, buffer, otherArgumentsBuffer>>

\* The cleanup block: the k-th release that fails returns Error with the
\* ones before it done; when all four succeed, return Success.
Cleanup ==
  /\ pc = "cleanup"
  /\ \E k \in 0..4 :
       /\ ReleaseSeq(SubSeq(CleanupOrder, 1, k))
       /\ Return(IF k = 4 THEN "Success" ELSE "Error")
  /\ UNCHANGED <<Objects, profilingEvent, i>> /\ Fixed

Next ==
  \/ Start \/ CreateBuffer \/ CreateOtherBuffer \/ BuildProgram
  \/ CreateKernel \/ WarmEnqueue \/ WarmFinish \/ BenchHead
  \/ MeasuredEnqueue \/ Stats \/ Verify \/ Cleanup

Spec == Init /\ [][Next]_vars

-----------------------------------------------------------------------------
\* No enqueue writes a new event into profilingEvent while the event it
\* holds is still alive: the warmup and every iteration release their event
\* before the next enqueue overwrites the handle.
EventReleasedBeforeReuse ==
  [][profilingEvent' # profilingEvent => profilingEvent \notin live]_vars

\* A run that returns Success has released its buffers, program, kernel
\* and every event.
SuccessReleasesAll == result = "Success" => live = {}
=============================================================================
