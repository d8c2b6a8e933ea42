------------------------- MODULE SingleQueueWorkload -------------------------
(***************************************************************************)
(* The L0 workload single_queue_workload_shared_buffer_l0: a process that  *)
(* opens a buffer another process exported (zeMemOpenIpcHandle), makes it  *)
(* resident, and runs an "increment" kernel over totalThreadsCount uint32  *)
(* values at bufferOffset bytes into it: once as warmup, then once per     *)
(* iteration, timed from execute to queue synchronize.  Memory is byte     *)
(* addresses relative to bufferBase; the GPU is a second process that      *)
(* runs what was executed.  Every failing ZE call returns Error on the     *)
(* spot (ZE_RESULT_SUCCESS_OR_RETURN_ERROR, ASSERT_ZE_RESULT_SUCCESS).     *)
(***************************************************************************)
EXTENDS Integers, DriverObjects

CONSTANTS
  WorkgroupSizes,    \* values arguments.workgroupSize (wgs) may take
  WorkgroupCounts,   \* values arguments.workgroupCount (wgc) may take
  Offsets,           \* values arguments.offsetWithinBuffer may take
  IterationCounts    \* values arguments.iterations may take

VARIABLES
  workgroupSize, workgroupCount, offsetWithinBuffer, iterations,
  pc,
  bufferBase, module, kernel, cmdList,   \* the handles run() holds
  resident,    \* addresses made resident and not evicted
  inflight,    \* executions of cmdList not yet run by the GPU
  i,           \* the benchmark loop counter
  result       \* the TestResult run() returned

sqVars == <<workgroupSize, workgroupCount, offsetWithinBuffer, iterations,
            pc, bufferBase, module, kernel, cmdList, resident, inflight, i,
            result>>
vars == <<sqVars, objVars>>

Fixed == UNCHANGED <<workgroupSize, workgroupCount, offsetWithinBuffer,
                     iterations>>
Handles == <<bufferBase, module, kernel, cmdList>>

totalThreadsCount == workgroupSize * workgroupCount

\* bufferSizeInBytes = totalThreadsCount * sizeof(uint32_t)
bufferSizeInBytes == totalThreadsCount * 4

\* The bytes [from, from + size).
Bytes(from, size) == from .. (from + size - 1)

\* What the kernel writes: one uint32 per work-item from its buffer
\* argument, bufferBase + offsetWithinBuffer.
KernelBytes == Bytes(offsetWithinBuffer, totalThreadsCount * 4)

Init ==
  /\ objInit
  /\ workgroupSize \in WorkgroupSizes /\ workgroupCount \in WorkgroupCounts
  /\ offsetWithinBuffer \in Offsets /\ iterations \in IterationCounts
  /\ pc = "tiles" /\ bufferBase = NULLH /\ module = NULLH /\ kernel = NULLH
  /\ cmdList = NULLH /\ resident = {} /\ inflight = 0 /\ i = 0
  /\ result = "none"

Return(r) ==
  /\ result' = r /\ pc' = "done"
  /\ UNCHANGED <<Handles, resident, inflight, i>> /\ UNCHANGED objVars

\* A ZE call fails: return TestResult::Error, releasing nothing.
ReturnError == Return("Error")

\* Go to label l, changing nothing else of the host's.
Goto(l) ==
  pc' = l /\ UNCHANGED <<Handles, resident, inflight, i, result>>
  /\ UNCHANGED objVars

\* zeDeviceGetSubDevices; if (tilesCount > 1) return DeviceNotCapable.
Tiles ==
  /\ pc = "tiles"
  /\ \/ ReturnError \/ Return("DeviceNotCapable") \/ Goto("open")
  /\ Fixed

\* zeMemOpenIpcHandle(..., &bufferBase); then zeContextMakeMemoryResident(
\* bufferBase, bufferSizeInBytes).
OpenIpc ==
  /\ pc = "open"
  /\ \/ ReturnError
     \/ /\ Create /\ bufferBase' = Fresh /\ pc' = "resident"
        /\ UNCHANGED <<module, kernel, cmdList, resident, inflight, i, result>>
  /\ Fixed

MakeResident ==
  /\ pc = "resident"
  /\ \/ ReturnError
     \/ /\ resident' = resident \cup Bytes(0, bufferSizeInBytes)
        /\ pc' = "spirv" /\ UNCHANGED objVars
        /\ UNCHANGED <<Handles, inflight, i, result>>
  /\ Fixed

\* loadBinaryFile("single_queue_workload_increment.spv"); an empty result
\* returns KernelNotFound.
LoadSpirv ==
  /\ pc = "spirv"
  /\ \/ Return("KernelNotFound") \/ Goto("module")
  /\ Fixed

\* zeModuleCreate; zeKernelCreate(module, "increment").
CreateModule ==
  /\ pc = "module"
  /\ \/ ReturnError
     \/ /\ Create /\ module' = Fresh /\ pc' = "kernel"
        /\ UNCHANGED <<bufferBase, kernel, cmdList, resident, inflight, i,
                       result>>
  /\ Fixed

CreateKernel ==
  /\ pc = "kernel"
  /\ \/ ReturnError
     \/ /\ Create /\ kernel' = Fresh /\ pc' = "args"
        /\ UNCHANGED <<bufferBase, module, cmdList, resident, inflight, i,
                       result>>
  /\ Fixed

\* zeKernelSetGroupSize; zeKernelSetArgumentValue(buffer),
\* (operationsCount).
SetArguments ==
  /\ pc = "args"
  /\ \/ ReturnError
     \/ /\ Use({kernel}) /\ pc' = "cmdlist"
        /\ UNCHANGED <<Handles, resident, inflight, i, result>>
  /\ Fixed

\* zeCommandListCreate; zeCommandListAppendLaunchKernel;
\* zeCommandListClose (the list exists when the last two fail).
CreateCommandList ==
  /\ pc = "cmdlist"
  /\ \/ ReturnError
     \/ /\ Create /\ cmdList' = Fresh
        /\ \/ pc' = "warmup" /\ UNCHANGED result
           \/ pc' = "done" /\ result' = "Error"
        /\ UNCHANGED <<bufferBase, module, kernel, resident, inflight, i>>
  /\ Fixed

\* zeCommandQueueExecuteCommandLists(cmdList), then go to next.
ExecuteStep(next) ==
  \/ ReturnError
  \/ /\ Use({cmdList}) /\ inflight' = inflight + 1 /\ pc' = next
     /\ UNCHANGED <<Handles, resident, i, result>>

\* Variant of SynchronizeStep that returns before the GPU finished.
SynchronizeStepNoWait(next) ==
  \/ ReturnError
  \/ Goto(next)

\* zeCommandQueueSynchronize(queue, UINT64_MAX): returns once the GPU ran
\* every execution, then go to next.
SynchronizeStep(next) ==
  \/ ReturnError
  \/ inflight = 0 /\ Goto(next)

\* Warmup: execute and synchronize.
Warmup ==
  /\ \/ pc = "warmup" /\ ExecuteStep("warm_sync")
     \/ pc = "warm_sync" /\ SynchronizeStep("bench")
  /\ Fixed

\* for (i < arguments.iterations) { synchronization.synchronize(io);
\* timer.measureStart(); ...  The cross-process synchronization returns
\* once every workload reached it; this process is modelled alone.
BenchHead ==
  /\ pc = "bench"
  /\ Goto(IF i < iterations THEN "execute" ELSE "evict")
  /\ Fixed

\* The timed execute and synchronize (ASSERT_ZE_RESULT_SUCCESS), then
\* timer.measureEnd(); statistics.pushValue(timer.get()); i++.
Iteration ==
  /\ \/ pc = "execute" /\ ExecuteStep("sync")
     \/ pc = "sync" /\ SynchronizeStep("push")
     \/ /\ pc = "push" /\ pc' = "bench" /\ i' = i + 1
        /\ UNCHANGED <<Handles, resident, inflight, result>>
        /\ UNCHANGED objVars
  /\ Fixed

\* zeContextEvictMemory(buffer, bufferSizeInBytes): buffer, not
\* bufferBase.
Evict ==
  /\ pc = "evict"
  /\ \/ ReturnError
     \/ /\ resident' = resident \ Bytes(offsetWithinBuffer, bufferSizeInBytes)
        /\ pc' = "destroy"
        /\ UNCHANGED <<Handles, inflight, i, result>> /\ UNCHANGED objVars
  /\ Fixed

\* zeCommandListDestroy, zeKernelDestroy, zeModuleDestroy,
\* zeMemCloseIpcHandle(bufferBase), each checked; return Success.  The
\* first k succeed; a failure of the next returns Error.
Destroy ==
  /\ pc = "destroy"
  /\ \E k \in 0..4 :
       /\ ReleaseSeq(SubSeq(<<cmdList, kernel, module, bufferBase>>, 1, k))
       /\ result' = IF k = 4 THEN "Success" ELSE "Error"
  /\ pc' = "done"
  /\ UNCHANGED <<Handles, resident, inflight, i>>
  /\ Fixed

\* The GPU runs one execution of cmdList: the increment kernel writes
\* KernelBytes.
GpuRun ==
  /\ inflight > 0 /\ inflight' = inflight - 1
  /\ UNCHANGED <<pc, Handles, resident, i, result>> /\ UNCHANGED objVars
  /\ Fixed

Host ==
  \/ Tiles \/ OpenIpc \/ MakeResident \/ LoadSpirv \/ CreateModule
  \/ CreateKernel \/ SetArguments \/ CreateCommandList \/ Warmup
  \/ BenchHead \/ Iteration \/ Evict \/ Destroy

Next == Host \/ GpuRun

\* The GPU runs what was executed (the synchronize relies on it).
Spec == Init /\ [][Next]_vars /\ WF_vars(GpuRun)

-----------------------------------------------------------------------------
\* Every execution of the kernel writes only memory the process made
\* resident: while an execution is pending, the bytes at bufferBase +
\* offsetWithinBuffer it writes lie in what zeContextMakeMemoryResident
\* covered and zeContextEvictMemory has not yet taken back.
KernelTouchesResident == inflight > 0 => KernelBytes \subseteq resident

\* Every sample is pushed after the execution it timed ran on the GPU.
SampleAfterCompletion == pc = "push" => inflight = 0

\* A run that returns Success has closed the IPC handle and destroyed
\* its module, kernel and command list.
SuccessReleasesAll == result = "Success" => live = {}
=============================================================================
