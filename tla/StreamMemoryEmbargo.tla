------------------------- MODULE StreamMemoryEmbargo -------------------------
(***************************************************************************)
(* The StreamMemoryEmbargo benchmark (types stream_3bytesRGBtoY and        *)
(* stream_3BytesAlignedRGBtoY) in its three implementations: Level Zero    *)
(* (immediate command list, one event reused for every fill and launch),   *)
(* OpenCL (in-order queue, clFinish) and SYCL.  Each creates an input      *)
(* buffer of size bytes and a luminance buffer of size / 4 bytes, runs     *)
(* the RGB-to-Y kernel once as warmup and then once per iteration, and     *)
(* pushes each sample with a weight in bytes (GB/s).  The GPU is a second  *)
(* process that runs what was submitted, in order.  Every ASSERT may       *)
(* return Error.  The kernel is the one the SYCL code spells out: one      *)
(* work-item per luminance byte, reading the 3 bytes of its pixel and      *)
(* writing 1 byte.                                                          *)
(***************************************************************************)
EXTENDS Integers, Sequences, SequencesExt, DriverObjects

CONSTANTS
  Apis,            \* implementations: subset of {"L0", "OpenCL", "SYCL"}
  Types,           \* values arguments.type may take
  Sizes,           \* values arguments.size (bytes) may take
  Fp64,            \* whether the device supports doubles
  GroupSizes,      \* the device's maximum work-group size
  UseEvents,       \* values arguments.useEvents may take
  IterationCounts  \* values arguments.iterations may take

VARIABLES
  api, type, size, fp64, groupSize, useEvents, iterations,  \* the run's inputs
  pc,
  module,      \* ze_module_handle_t module / cl_program program
  kernel, cmdList, eventPool,
  event,       \* L0: the one ze event; OpenCL: profilingEvent
  buffers,     \* buffers[0 .. buffersCount - 1], as a sequence
  f,           \* the fill loop's counter (1-based)
  signalled,   \* the L0 event is signalled
  inflight,    \* submitted commands the GPU has not yet run
  i,           \* the benchmark loop counter
  result       \* the TestResult run() returned

smeVars == <<api, type, size, fp64, groupSize, useEvents, iterations, pc,
             module, kernel, cmdList, eventPool, event, buffers, f,
             signalled, inflight, i, result>>
vars == <<smeVars, objVars>>

Inputs == <<api, type, size, fp64, groupSize, useEvents, iterations>>
State == <<module, kernel, cmdList, eventPool, event, buffers, f,
           signalled, inflight, i>>

Init ==
  /\ objInit
  /\ api \in Apis /\ type \in Types /\ size \in Sizes /\ fp64 \in Fp64
  /\ groupSize \in GroupSizes /\ useEvents \in UseEvents
  /\ iterations \in IterationCounts
  /\ pc = "noop" /\ module = NULLH /\ kernel = NULLH /\ cmdList = NULLH
  /\ eventPool = NULLH /\ event = NULLH /\ buffers = <<>> /\ f = 1
  /\ signalled = FALSE /\ inflight = 0 /\ i = 0 /\ result = "none"

-----------------------------------------------------------------------------
(* What is dispatched and what is reported.                                *)

\* reduction = 4: the luminance buffer has one byte per 4 input bytes.
reduction == 4

\* L0: elementSize = useDoubles ? sizeof(double) : sizeof(float);
\* gws = size / elementSize; the dispatch is gws / groupSizeX groups of
\* groupSizeX work-items.
L0Items ==
  LET elementSize == IF fp64 THEN 8 ELSE 4 IN
  ((size \div elementSize) \div groupSize) * groupSize

\* OpenCL: elementSize = 4u for both types; globalWorkSize = size /
\* elementSize, localWorkSize = CL_DEVICE_MAX_WORK_GROUP_SIZE.
OclItems == size \div 4

\* SYCL: parallel_for over luminanceSize = bufferLuminance.size() items.
SyclItems == size \div reduction

Items ==
  CASE api = "L0" -> L0Items [] api = "OpenCL" -> OclItems
    [] api = "SYCL" -> SyclItems

\* Each work-item reads the 3 bytes of its pixel and writes 1 byte.
BytesMoved == 4 * Items

\* L0 and OpenCL: transferSize = size / reduction + 3 * size / 4.
L0TransferSize == (size \div reduction) + ((3 * size) \div 4)

\* SYCL: bufferX.size() + bufferLuminance.size(), in elements: bytes for
\* the 3-byte type, uchar4 pixels for the aligned one.
SyclTransferSize ==
  IF type = "RGBtoY" THEN size + (size \div 4)
  ELSE (size \div 4) + (size \div 4)

TransferSize == IF api = "SYCL" THEN SyclTransferSize ELSE L0TransferSize

-----------------------------------------------------------------------------
(* Steps shared by the three implementations.                              *)

Return(r) ==
  result' = r /\ pc' = "done" /\ UNCHANGED State /\ UNCHANGED objVars

\* An ASSERT fails: return TestResult::Error.
ReturnError == Return("Error")

Goto(l) == pc' = l /\ UNCHANGED <<State, result>> /\ UNCHANGED objVars

Fixed == UNCHANGED Inputs

\* Submit one command that reads the objects S (a launch or a fill).
Submit(S, next) ==
  /\ Use(S) /\ inflight' = inflight + 1 /\ pc' = next
  /\ UNCHANGED <<module, kernel, cmdList, eventPool, event, buffers, f,
                 signalled, i, result>>

\* The GPU runs the oldest submitted command; on the L0 immediate list
\* every command signals the one event.
GpuRun ==
  /\ inflight > 0 /\ inflight' = inflight - 1
  /\ signalled' = (api = "L0" \/ signalled)
  /\ UNCHANGED <<pc, module, kernel, cmdList, eventPool, event, buffers, f,
                 i, result>>
  /\ UNCHANGED objVars /\ Fixed

\* isNoopRun(): pushUnitAndType and return Nooped.
Start ==
  /\ pc = "noop"
  /\ \/ Return("Nooped")
     \/ Goto(CASE api = "L0" -> "l0_device" [] api = "OpenCL" -> "alloc"
               [] api = "SYCL" -> "sycl_warmup")
  /\ Fixed

-----------------------------------------------------------------------------
(* Level Zero (stream_memory_immediate_embargo_l0.cpp).                    *)

\* LevelZero levelzero(...): no command queue returns DeviceNotCapable;
\* zeDeviceGetModuleProperties (fp64flags); loadBinaryFile of the fp64
\* or the float SPIR-V: empty returns KernelNotFound; zeModuleCreate.
L0Setup ==
  /\ pc = "l0_device"
  /\ \/ Return("DeviceNotCapable") \/ ReturnError \/ Return("KernelNotFound")
     \/ /\ Create /\ module' = Fresh /\ pc' = "alloc"
        /\ UNCHANGED <<kernel, cmdList, eventPool, event, buffers, f,
                       signalled, inflight, i, result>>
  /\ Fixed

\* zeMemAllocDevice(&buffers[buffersCount++]) for the input buffer and
\* for the luminance buffer (bufferSizes[1] = bufferSize / reduction).  In
\* OpenCL, clCreateBuffer's retVal is overwritten before it is checked: a
\* failed create leaves a null cl_mem in buffers.
AllocBuffer ==
  /\ pc = "alloc" /\ api \in {"L0", "OpenCL"}
  /\ \/ api = "L0" /\ ReturnError
     \/ /\ Create /\ buffers' = Append(buffers, Fresh)
        /\ pc' = IF Len(buffers) = 1
                 THEN (IF api = "L0" THEN "kernel" ELSE "program") ELSE "alloc"
        /\ UNCHANGED <<module, kernel, cmdList, eventPool, event, f,
                       signalled, inflight, i, result>>
     \/ /\ api = "OpenCL" /\ buffers' = Append(buffers, NULLH)
        /\ pc' = IF Len(buffers) = 1 THEN "program" ELSE "alloc"
        /\ UNCHANGED <<module, kernel, cmdList, eventPool, event, f,
                       signalled, inflight, i, result>> /\ UNCHANGED objVars
  /\ Fixed

\* zeKernelCreate(module, type's kernel name), then zeKernelSetGroupSize:
\* the kernel exists when the second fails.
L0CreateKernel ==
  /\ pc = "kernel"
  /\ \/ ReturnError
     \/ /\ Create /\ kernel' = Fresh
        /\ \/ pc' = "cmdlist" /\ UNCHANGED result
           \/ pc' = "done" /\ result' = "Error"
        /\ UNCHANGED <<module, cmdList, eventPool, event, buffers, f,
                       signalled, inflight, i>>
  /\ Fixed

\* zeCommandListCreateImmediate; zeEventPoolCreate; zeEventCreate.
L0CreateCmdList ==
  /\ pc = "cmdlist"
  /\ \/ ReturnError
     \/ /\ Create /\ cmdList' = Fresh /\ pc' = "pool"
        /\ UNCHANGED <<module, kernel, eventPool, event, buffers, f,
                       signalled, inflight, i, result>>
  /\ Fixed

L0CreateEventPool ==
  /\ pc = "pool"
  /\ \/ ReturnError
     \/ /\ Create /\ eventPool' = Fresh /\ pc' = "event"
        /\ UNCHANGED <<module, kernel, cmdList, event, buffers, f,
                       signalled, inflight, i, result>>
  /\ Fixed

L0CreateEvent ==
  /\ pc = "event"
  /\ \/ ReturnError
     \/ /\ Create /\ event' = Fresh /\ pc' = "fill"
        /\ UNCHANGED <<module, kernel, cmdList, eventPool, buffers, f,
                       signalled, inflight, i, result>>
  /\ Fixed

\* zeEventHostSynchronize(event, UINT64_MAX): returns once the event is
\* signalled, then go to next.
L0Sync(next) == ReturnError \/ (signalled /\ Goto(next))

\* zeEventHostReset(event), then go to next.
L0Reset(next) ==
  \/ ReturnError
  \/ /\ signalled' = FALSE /\ pc' = next
     /\ UNCHANGED <<module, kernel, cmdList, eventPool, event, buffers, f,
                    inflight, i, result>> /\ UNCHANGED objVars

\* for (i < buffersCount) { zeCommandListAppendMemoryFill(cmdList,
\* buffers[i], ..., event); zeKernelSetArgumentValue(kernel, i,
\* buffers[i]); zeEventHostSynchronize(event); zeEventHostReset(event); }
\* then zeKernelSetArgumentValue(kernel, buffersCount, scalarValue).
L0Fill ==
  /\ \/ /\ pc = "fill" /\ f <= Len(buffers)
        /\ \/ ReturnError
           \/ Submit({cmdList, buffers[f], kernel, event}, "fill_sync")
     \/ pc = "fill_sync" /\ L0Sync("fill_reset")
     \/ /\ pc = "fill_reset"
        /\ \/ ReturnError
           \/ /\ signalled' = FALSE /\ f' = f + 1 /\ pc' = "fill"
              /\ UNCHANGED <<module, kernel, cmdList, eventPool, event,
                             buffers, inflight, i, result>>
              /\ UNCHANGED objVars
     \/ pc = "fill" /\ f > Len(buffers) /\ (ReturnError \/ Goto("warmup"))
  /\ api = "L0" /\ Fixed

\* Variant of L0Warmup without the zeEventHostReset of line 169.
L0WarmupNoReset ==
  /\ \/ /\ pc = "warmup"
        /\ ReturnError \/ Submit({cmdList, kernel, event}, "warm_sync")
     \/ pc = "warm_sync" /\ L0Sync("warm_reset")
     \/ pc = "warm_reset" /\ (ReturnError \/ Goto("bench"))
  /\ api = "L0" /\ Fixed

\* Warmup: zeCommandListAppendLaunchKernel(cmdList, kernel, ..., event);
\* zeEventHostSynchronize(event); zeEventHostReset(event).
L0Warmup ==
  /\ \/ /\ pc = "warmup"
        /\ ReturnError \/ Submit({cmdList, kernel, event}, "warm_sync")
     \/ pc = "warm_sync" /\ L0Sync("warm_reset")
     \/ pc = "warm_reset" /\ L0Reset("bench")
  /\ api = "L0" /\ Fixed

\* for (i < arguments.iterations): measureStart; append the launch;
\* zeEventHostSynchronize; measureEnd; with useEvents
\* zeEventQueryKernelTimestamp(event); pushValue(time, transferSize);
\* zeEventHostReset(event); i++.
L0Iteration ==
  /\ \/ pc = "bench" /\ Goto(IF i < iterations THEN "launch" ELSE "cleanup")
     \/ /\ pc = "launch"
        /\ ReturnError \/ Submit({cmdList, kernel, event}, "sync")
     \/ pc = "sync" /\ L0Sync("stats")
     \/ /\ pc = "stats"
        /\ \/ useEvents /\ ReturnError
           \/ useEvents /\ Use({event}) /\ pc' = "reset"
              /\ UNCHANGED <<State, result>>
           \/ ~useEvents /\ Goto("reset")
     \/ /\ pc = "reset"
        /\ \/ ReturnError
           \/ /\ signalled' = FALSE /\ i' = i + 1 /\ pc' = "bench"
              /\ UNCHANGED <<module, kernel, cmdList, eventPool, event,
                             buffers, f, inflight, result>>
              /\ UNCHANGED objVars
  /\ api = "L0" /\ Fixed

\* zeEventDestroy, zeEventPoolDestroy, zeMemFree of each buffer,
\* zeCommandListDestroy, zeKernelDestroy, zeModuleDestroy, each checked:
\* the first k succeed, a failure of the next returns Error.
L0Cleanup ==
  /\ pc = "cleanup" /\ api = "L0"
  /\ LET order == <<event, eventPool>> \o buffers
                  \o <<cmdList, kernel, module>> IN
     \E k \in 0..Len(order) :
          /\ ReleaseSeq(SubSeq(order, 1, k))
          /\ result' = IF k = Len(order) THEN "Success" ELSE "Error"
  /\ pc' = "done" /\ UNCHANGED State /\ Fixed
-----------------------------------------------------------------------------
(* OpenCL (stream_memory_embargo_ocl.cpp).                                 *)

\* ProgramHelperOcl::buildProgramFromSourceFile: a result other than
\* Success is returned as is (the buffers stay allocated).
OclBuildProgram ==
  /\ pc = "program"
  /\ \/ \E r \in {"KernelNotFound", "Error"} : Return(r)
     \/ /\ Create /\ module' = Fresh /\ pc' = "ocl_kernel"
        /\ UNCHANGED <<kernel, cmdList, eventPool, event, buffers, f,
                       signalled, inflight, i, result>>
  /\ Fixed

\* kernel = clCreateKernel(program, kernelName, &retVal); ASSERT.
OclCreateKernel ==
  /\ pc = "ocl_kernel"
  /\ \/ ReturnError
     \/ /\ Create /\ kernel' = Fresh /\ pc' = "ocl_fill"
        /\ UNCHANGED <<module, cmdList, eventPool, event, buffers, f,
                       signalled, inflight, i, result>>
  /\ Fixed

\* for (i < buffersCount) { clEnqueueFillBuffer(buffers[i]) (fails on a
\* null buffer); clSetKernelArg(kernel, i, buffers[i]); } then
\* clSetKernelArg(kernel, buffersCount, elementSize, &scalarValue).
\* clEnqueueFillBuffer on the null cl_mem a failed create left: the call
\* can only fail.
FillFails == pc = "ocl_fill" /\ f <= Len(buffers) /\ buffers[f] = NULLH

OclFill ==
  /\ \/ /\ pc = "ocl_fill" /\ f <= Len(buffers)
        /\ \/ ReturnError
           \/ /\ buffers[f] # NULLH /\ Use({buffers[f], kernel})
              /\ inflight' = inflight + 1 /\ f' = f + 1
              /\ UNCHANGED <<pc, module, kernel, cmdList, eventPool, event,
                             buffers, signalled, i, result>>
     \/ /\ pc = "ocl_fill" /\ f > Len(buffers)
        /\ ReturnError \/ Goto("ocl_warmup")
  /\ Fixed

\* Warm up: clEnqueueNDRangeKernel(globalWorkSize, localWorkSize);
\* clFinish(commandQueue).
OclWarmup ==
  /\ \/ /\ pc = "ocl_warmup"
        /\ ReturnError \/ Submit({kernel} \cup Range(buffers), "ocl_finish")
     \/ pc = "ocl_finish" /\ (ReturnError \/ (inflight = 0 /\ Goto("bench")))
  /\ Fixed

\* for (i < arguments.iterations): measureStart; clEnqueueNDRangeKernel
\* (with useEvents into profilingEvent); clFinish; measureEnd; with
\* useEvents getEventDurationInNanoseconds and clReleaseEvent; pushValue.
OclIteration ==
  /\ \/ pc = "bench" /\ Goto(IF i < iterations THEN "launch" ELSE "cleanup")
     \/ /\ pc = "launch"
        /\ \/ ReturnError
           \/ /\ useEvents /\ CreateUsing({kernel} \cup Range(buffers))
              /\ event' = Fresh /\ inflight' = inflight + 1 /\ pc' = "sync"
              /\ UNCHANGED <<module, kernel, cmdList, eventPool, buffers, f,
                             signalled, i, result>>
           \/ ~useEvents /\ Submit({kernel} \cup Range(buffers), "sync")
     \/ pc = "sync" /\ (ReturnError \/ (inflight = 0 /\ Goto("stats")))
     \/ /\ pc = "stats"
        /\ \/ useEvents /\ ReturnError
           \/ useEvents /\ Release(event) /\ i' = i + 1 /\ pc' = "bench"
              /\ UNCHANGED <<module, kernel, cmdList, eventPool, event,
                             buffers, f, signalled, inflight, result>>
           \/ /\ ~useEvents /\ i' = i + 1 /\ pc' = "bench"
              /\ UNCHANGED <<module, kernel, cmdList, eventPool, event,
                             buffers, f, signalled, inflight, result>>
              /\ UNCHANGED objVars
  /\ api = "OpenCL" /\ Fixed

\* clReleaseMemObject of each buffer, clReleaseKernel, clReleaseProgram,
\* each ASSERTed; return Success.
OclCleanup ==
  /\ pc = "cleanup" /\ api = "OpenCL"
  /\ LET order == buffers \o <<kernel, module>> IN
     \E k \in 0..Len(order) :
       /\ ReleaseSeq(SubSeq(order, 1, k))
       /\ result' = IF k = Len(order) THEN "Success" ELSE "Error"
  /\ pc' = "done" /\ UNCHANGED State /\ Fixed

-----------------------------------------------------------------------------
(* SYCL (stream_memory_embargo_sycl.cpp): the buffers are sycl::buffer     *)
(* objects the benchmark object owns; nothing is released by hand.        *)

\* Warm-up: benchmark->run(queue) submits the parallel_for; event.wait().
SyclWarmup ==
  /\ \/ pc = "sycl_warmup" /\ Submit({}, "sycl_wait")
     \/ pc = "sycl_wait" /\ inflight = 0 /\ Goto("bench")
  /\ Fixed

\* for (i < arguments.iterations): measureStart; run; event.wait();
\* measureEnd; pushValue(time, benchmark->transferSize()).  Then return
\* Success.
SyclIteration ==
  /\ \/ /\ pc = "bench"
        /\ IF i < iterations THEN Goto("launch") ELSE Return("Success")
     \/ pc = "launch" /\ Submit({}, "sync")
     \/ pc = "sync" /\ inflight = 0 /\ Goto("stats")
     \/ /\ pc = "stats" /\ i' = i + 1 /\ pc' = "bench"
        /\ UNCHANGED <<module, kernel, cmdList, eventPool, event, buffers, f,
                       signalled, inflight, result>>
        /\ UNCHANGED objVars
  /\ api = "SYCL" /\ Fixed

Host ==
  \/ Start \/ L0Setup \/ AllocBuffer \/ L0CreateKernel \/ L0CreateCmdList
  \/ L0CreateEventPool \/ L0CreateEvent \/ L0Fill \/ L0Warmup
  \/ L0Iteration \/ L0Cleanup \/ OclBuildProgram \/ OclCreateKernel
  \/ OclFill \/ OclWarmup \/ OclIteration \/ OclCleanup \/ SyclWarmup
  \/ SyclIteration

Next == Host \/ GpuRun

\* The GPU runs what was submitted (every wait relies on it).
Spec == Init /\ [][Next]_vars /\ WF_vars(GpuRun)

-----------------------------------------------------------------------------
\* Every sample is taken after the kernel it timed ran: the L0 event the
\* host waits on was signalled by this iteration's launch, not by an
\* earlier fill or launch whose signal was not reset.
SampleAfterCompletion == pc = "stats" => inflight = 0

\* The weight of every sample, the bytes the GB/s figure divides by, is the
\* number of bytes the timed kernel read and wrote.
SampleWeightIsBytesMoved == pc = "stats" => TransferSize = BytesMoved

\* A run that returns Success has released every object it created.
SuccessReleasesAll == result = "Success" => live = {}
=============================================================================
