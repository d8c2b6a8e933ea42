----------------------- MODULE SharedLocalMemoryEmbargo -----------------------
(***************************************************************************)
(* The SharedLocalMemoryEmbargo benchmark in its two implementations:      *)
(* Level Zero (a regular command list executed on the command queue and    *)
(* waited for with zeCommandQueueSynchronize; with useEvents one           *)
(* timestamp event that the kernel launch signals on every execution) and  *)
(* OpenCL (in-order profiling queue, clFinish, one profiling event per     *)
(* iteration).  Each checks arguments.slmSize against the device's shared  *)
(* local memory, creates a 1 MB device buffer and the slm_alloc_size       *)
(* kernel, fills the buffer, runs the kernel once as warmup and then once  *)
(* per iteration.  The GPU is a second process that runs what was          *)
(* submitted, in order.  Every ASSERT may return Error.                    *)
(***************************************************************************)
EXTENDS Integers, Sequences, DriverObjects

CONSTANTS
  Apis,            \* implementations: subset of {"L0", "OpenCL"}
  SlmSizes,        \* values arguments.slmSize may take
  MaxSlmSizes,     \* the device's maxSharedLocalMemory / CL_DEVICE_LOCAL_MEM_SIZE
  UseEvents,       \* values arguments.useEvents may take
  IterationCounts  \* values arguments.iterations may take

VARIABLES
  api, slmSize, maxSlm, useEvents, iterations,  \* the run's inputs
  pc,
  module,      \* ze_module_handle_t module / cl_program program
  kernel, buffer, cmdList, eventPool,
  event,       \* L0: the timestamp event; OpenCL: profilingEvent
  queue,       \* submitted commands the GPU has not run: TRUE if it signals
  signalled,   \* the L0 event is signalled
  resignalled, \* history: the GPU signalled the L0 event while signalled
  i,           \* the benchmark loop counter
  result       \* the TestResult run() returned

slmVars == <<api, slmSize, maxSlm, useEvents, iterations, pc, module, kernel,
             buffer, cmdList, eventPool, event, queue, signalled, resignalled,
             i, result>>
vars == <<slmVars, objVars>>

Inputs == <<api, slmSize, maxSlm, useEvents, iterations>>
State == <<module, kernel, buffer, cmdList, eventPool, event, queue,
           signalled, resignalled, i>>

Init ==
  /\ objInit
  /\ api \in Apis /\ slmSize \in SlmSizes /\ maxSlm \in MaxSlmSizes
  /\ useEvents \in UseEvents /\ iterations \in IterationCounts
  /\ pc = "noop" /\ module = NULLH /\ kernel = NULLH /\ buffer = NULLH
  /\ cmdList = NULLH /\ eventPool = NULLH /\ event = NULLH /\ queue = <<>>
  /\ signalled = FALSE /\ resignalled = FALSE
  /\ i = 0 /\ result = "none"

-----------------------------------------------------------------------------
Return(r) ==
  result' = r /\ pc' = "done" /\ UNCHANGED State /\ UNCHANGED objVars

\* An ASSERT fails: return TestResult::Error.
ReturnError == Return("Error")

Goto(l) == pc' = l /\ UNCHANGED <<State, result>> /\ UNCHANGED objVars

Fixed == UNCHANGED Inputs

\* Create one object, store its handle with the update u, go to l.
CreateAs(u, l) == Create /\ u /\ pc' = l

\* Submit one command that reads the objects S: a fill, or a kernel launch
\* (which signals the L0 event when the list was appended with it).
Submit(S, signals, next) ==
  /\ Use(S) /\ queue' = Append(queue, signals) /\ pc' = next
  /\ UNCHANGED <<module, kernel, buffer, cmdList, eventPool, event,
                 signalled, resignalled, i, result>>

\* The GPU runs the oldest submitted command.
GpuRun ==
  /\ queue # <<>> /\ queue' = Tail(queue)
  /\ signalled' = (signalled \/ Head(queue))
  /\ resignalled' = (resignalled \/ (Head(queue) /\ signalled))
  /\ UNCHANGED <<pc, module, kernel, buffer, cmdList, eventPool, event,
                 i, result>>
  /\ UNCHANGED objVars /\ Fixed

\* Variant of Drained that waits for the timestamp event instead of the
\* queue (zeEventHostSynchronize on an event the command may not signal).
DrainedAwaitsSignal == queue = <<>> /\ signalled

\* The host's wait for the queue: zeCommandQueueSynchronize / clFinish.
Drained == queue = <<>>

\* isNoopRun(): pushUnitAndType and return Nooped.
Start ==
  /\ pc = "noop"
  /\ Return("Nooped") \/ Goto(IF api = "L0" THEN "l0_device" ELSE "ocl_device")
  /\ Fixed

-----------------------------------------------------------------------------
(* Level Zero (shared_local_memory_embargo_l0.cpp).                        *)

\* No command queue, or slmSize > maxSharedLocalMemory: DeviceNotCapable;
\* loadBinaryFile("shared_local_memory.spv") empty: KernelNotFound;
\* zeModuleCreate; zeMemAllocDevice(bufferSize).
L0Setup ==
  /\ \/ /\ pc = "l0_device"
        /\ \/ Return("DeviceNotCapable")
           \/ slmSize > maxSlm /\ Return("DeviceNotCapable")
           \/ slmSize <= maxSlm /\ Return("KernelNotFound")
           \/ slmSize <= maxSlm /\ ReturnError
           \/ /\ slmSize <= maxSlm
              /\ CreateAs(module' = Fresh, "l0_buffer")
              /\ UNCHANGED <<kernel, buffer, cmdList, eventPool, event, queue,
                             signalled, resignalled, i, result>>
     \/ /\ pc = "l0_buffer"
        /\ \/ ReturnError
           \/ /\ CreateAs(buffer' = Fresh, "l0_kernel")
              /\ UNCHANGED <<module, kernel, cmdList, eventPool, event, queue,
                             signalled, resignalled, i, result>>
  /\ Fixed

\* zeKernelCreate("slm_alloc_size"), zeKernelSetGroupSize (the kernel
\* exists when it fails), zeCommandListCreate; with useEvents
\* zeEventPoolCreate and zeEventCreate.
L0CreateObjects ==
  /\ \/ /\ pc = "l0_kernel"
        /\ \/ ReturnError
           \/ /\ Create /\ kernel' = Fresh
              /\ \/ pc' = "l0_cmdlist" /\ UNCHANGED result
                 \/ pc' = "done" /\ result' = "Error"
              /\ UNCHANGED <<module, buffer, cmdList, eventPool, event, queue,
                             signalled, resignalled, i>>
     \/ /\ pc = "l0_cmdlist"
        /\ \/ ReturnError
           \/ /\ CreateAs(cmdList' = Fresh, IF useEvents THEN "l0_pool" ELSE "l0_fill")
              /\ UNCHANGED <<module, kernel, buffer, eventPool, event, queue,
                             signalled, resignalled, i, result>>
     \/ /\ pc = "l0_pool"
        /\ \/ ReturnError
           \/ /\ CreateAs(eventPool' = Fresh, "l0_event")
              /\ UNCHANGED <<module, kernel, buffer, cmdList, event, queue,
                             signalled, resignalled, i, result>>
     \/ /\ pc = "l0_event"
        /\ \/ ReturnError
           \/ /\ CreateAs(event' = Fresh, "l0_fill")
              /\ UNCHANGED <<module, kernel, buffer, cmdList, eventPool, queue,
                             signalled, resignalled, i, result>>
  /\ Fixed

\* The launch's handles: the event is NULLH without useEvents.
LaunchObjects == {cmdList, kernel} \cup (IF useEvents THEN {event} ELSE {})

\* zeCommandListAppendMemoryFill, the three zeKernelSetArgumentValue,
\* zeCommandListClose, execute, zeCommandQueueSynchronize,
\* zeCommandListReset; then zeCommandListAppendLaunchKernel(cmdList,
\* kernel, event) and zeCommandListClose.
L0Fill ==
  /\ \/ /\ pc = "l0_fill"
        /\ ReturnError \/ Submit({cmdList, buffer, kernel}, FALSE, "l0_fill_sync")
     \/ pc = "l0_fill_sync" /\ (ReturnError \/ (Drained /\ Goto("l0_append")))
     \/ /\ pc = "l0_append"
        /\ \/ ReturnError
           \/ Use(LaunchObjects) /\ pc' = "l0_warmup" /\ UNCHANGED <<State, result>>
  /\ api = "L0" /\ Fixed

\* Variant of L0Warmup without the zeEventHostReset of line 152.
L0WarmupNoReset ==
  /\ \/ /\ pc = "l0_warmup"
        /\ ReturnError \/ Submit(LaunchObjects, useEvents, "l0_warm_sync")
     \/ pc = "l0_warm_sync" /\ (ReturnError \/ (Drained /\ Goto("l0_warm_reset")))
     \/ /\ pc = "l0_warm_reset"
        /\ ReturnError \/ Goto("bench")
  /\ api = "L0" /\ Fixed

\* Warmup: execute the list, zeCommandQueueSynchronize; with useEvents
\* zeEventHostReset(event).
L0Warmup ==
  /\ \/ /\ pc = "l0_warmup"
        /\ ReturnError \/ Submit(LaunchObjects, useEvents, "l0_warm_sync")
     \/ pc = "l0_warm_sync" /\ (ReturnError \/ (Drained /\ Goto("l0_warm_reset")))
     \/ /\ pc = "l0_warm_reset"
        /\ \/ ~useEvents /\ Goto("bench")
           \/ useEvents /\ ReturnError
           \/ /\ useEvents /\ signalled' = FALSE /\ pc' = "bench"
              /\ UNCHANGED <<module, kernel, buffer, cmdList, eventPool, event,
                             queue, resignalled, i, result>>
              /\ UNCHANGED objVars
  /\ api = "L0" /\ Fixed

\* for (i < iterations): measureStart; execute; zeCommandQueueSynchronize;
\* measureEnd; with useEvents zeEventQueryKernelTimestamp(event),
\* pushValue and zeEventHostReset(event), else pushValue(timer.get()).
L0Iteration ==
  /\ \/ pc = "bench" /\ Goto(IF i < iterations THEN "launch" ELSE "cleanup")
     \/ /\ pc = "launch"
        /\ ReturnError \/ Submit(LaunchObjects, useEvents, "sync")
     \/ pc = "sync" /\ (ReturnError \/ (Drained /\ Goto("stats")))
     \/ /\ pc = "stats"
        /\ \/ useEvents /\ ReturnError
           \/ useEvents /\ Use({event}) /\ pc' = "reset" /\ UNCHANGED <<State, result>>
           \/ /\ ~useEvents /\ i' = i + 1 /\ pc' = "bench"
              /\ UNCHANGED <<module, kernel, buffer, cmdList, eventPool, event,
                             queue, signalled, resignalled, result>>
              /\ UNCHANGED objVars
     \/ /\ pc = "reset"
        /\ \/ ReturnError
           \/ /\ signalled' = FALSE /\ i' = i + 1 /\ pc' = "bench"
              /\ UNCHANGED <<module, kernel, buffer, cmdList, eventPool, event,
                             queue, resignalled, result>>
              /\ UNCHANGED objVars
  /\ api = "L0" /\ Fixed

\* With useEvents zeEventDestroy and zeEventPoolDestroy; zeMemFree,
\* zeCommandListDestroy, zeKernelDestroy, zeModuleDestroy, each ASSERTed.
L0Cleanup ==
  /\ pc = "cleanup" /\ api = "L0"
  /\ LET order == (IF useEvents THEN <<event, eventPool>> ELSE <<>>)
                  \o <<buffer, cmdList, kernel, module>> IN
     \E k \in 0..Len(order) :
       /\ ReleaseSeq(SubSeq(order, 1, k))
       /\ result' = IF k = Len(order) THEN "Success" ELSE "Error"
  /\ pc' = "done" /\ UNCHANGED State /\ Fixed

-----------------------------------------------------------------------------
(* OpenCL (shared_local_memory_embargo_ocl.cpp).                           *)

\* clGetDeviceInfo(CL_DEVICE_LOCAL_MEM_SIZE): slmSize above it returns
\* DeviceNotCapable; clCreateBuffer, whose retVal is overwritten by
\* clCreateKernel before it is checked: a failed create leaves a null
\* cl_mem; buildProgramFromSourceFile: a result other than Success is
\* returned as is (the buffer stays allocated); clCreateKernel, ASSERT.
OclSetup ==
  /\ \/ /\ pc = "ocl_device"
        /\ \/ slmSize > maxSlm /\ Return("DeviceNotCapable")
           \/ /\ slmSize <= maxSlm
              /\ CreateAs(buffer' = Fresh, "ocl_program")
              /\ UNCHANGED <<module, kernel, cmdList, eventPool, event, queue,
                             signalled, resignalled, i, result>>
           \/ slmSize <= maxSlm /\ Goto("ocl_program")
     \/ /\ pc = "ocl_program"
        /\ \/ \E r \in {"KernelNotFound", "Error"} : Return(r)
           \/ /\ CreateAs(module' = Fresh, "ocl_kernel")
              /\ UNCHANGED <<kernel, buffer, cmdList, eventPool, event, queue,
                             signalled, resignalled, i, result>>
     \/ /\ pc = "ocl_kernel"
        /\ \/ ReturnError
           \/ /\ CreateAs(kernel' = Fresh, "ocl_fill")
              /\ UNCHANGED <<module, buffer, cmdList, eventPool, event, queue,
                             signalled, resignalled, i, result>>
  /\ api = "OpenCL" /\ Fixed

\* clEnqueueFillBuffer on the null cl_mem a failed create left: the call
\* can only fail.
FillFails == pc = "ocl_fill" /\ buffer = NULLH

\* clEnqueueFillBuffer (fails on a null buffer) and the three
\* clSetKernelArg; warm up: clEnqueueNDRangeKernel, clFinish.
OclWarmup ==
  /\ \/ /\ pc = "ocl_fill"
        /\ \/ ReturnError
           \/ buffer # NULLH /\ Submit({buffer, kernel}, FALSE, "ocl_warmup")
     \/ /\ pc = "ocl_warmup"
        /\ ReturnError \/ Submit({kernel, buffer}, FALSE, "ocl_finish")
     \/ pc = "ocl_finish" /\ (ReturnError \/ (Drained /\ Goto("bench")))
  /\ api = "OpenCL" /\ Fixed

\* for (i < iterations): measureStart; clEnqueueNDRangeKernel, with
\* useEvents into profilingEvent; clFinish; measureEnd; with useEvents
\* getEventDurationInNanoseconds and clReleaseEvent; pushValue.
OclIteration ==
  /\ \/ pc = "bench" /\ Goto(IF i < iterations THEN "launch" ELSE "cleanup")
     \/ /\ pc = "launch"
        /\ \/ ReturnError
           \/ /\ useEvents /\ CreateUsing({kernel, buffer})
              /\ event' = Fresh /\ queue' = Append(queue, FALSE) /\ pc' = "sync"
              /\ UNCHANGED <<module, kernel, buffer, cmdList, eventPool,
                             signalled, resignalled, i, result>>
           \/ ~useEvents /\ Submit({kernel, buffer}, FALSE, "sync")
     \/ pc = "sync" /\ (ReturnError \/ (Drained /\ Goto("stats")))
     \/ /\ pc = "stats"
        /\ \/ useEvents /\ ReturnError
           \/ /\ useEvents /\ Release(event) /\ i' = i + 1 /\ pc' = "bench"
              /\ UNCHANGED <<module, kernel, buffer, cmdList, eventPool, event,
                             queue, signalled, resignalled, result>>
           \/ /\ ~useEvents /\ i' = i + 1 /\ pc' = "bench"
              /\ UNCHANGED <<module, kernel, buffer, cmdList, eventPool, event,
                             queue, signalled, resignalled, result>>
              /\ UNCHANGED objVars
  /\ api = "OpenCL" /\ Fixed

\* clReleaseMemObject, clReleaseKernel, clReleaseProgram, each ASSERTed.
OclCleanup ==
  /\ pc = "cleanup" /\ api = "OpenCL"
  /\ LET order == <<buffer, kernel, module>> IN
     \E k \in 0..Len(order) :
       /\ ReleaseSeq(SubSeq(order, 1, k))
       /\ result' = IF k = Len(order) THEN "Success" ELSE "Error"
  /\ pc' = "done" /\ UNCHANGED State /\ Fixed

Host ==
  \/ Start \/ L0Setup \/ L0CreateObjects \/ L0Fill \/ L0Warmup
  \/ L0Iteration \/ L0Cleanup \/ OclSetup \/ OclWarmup \/ OclIteration
  \/ OclCleanup

Next == Host \/ GpuRun

\* The GPU runs what was submitted (every wait relies on it).
Spec == Init /\ [][Next]_vars /\ WF_vars(GpuRun)

-----------------------------------------------------------------------------
\* Every sample is taken after the kernel it timed ran: measureEnd follows
\* zeCommandQueueSynchronize / clFinish.
SampleAfterCompletion == pc = "stats" => queue = <<>>

\* The timestamp event is reset before every execution signals it again:
\* the warmup's signal is reset before the first measured launch, and each
\* iteration's signal after its timestamp was read.
EventResetBeforeSignal == ~resignalled

\* A run that returns Success has released every object it created.
SuccessReleasesAll == result = "Success" => live = {}
=============================================================================
