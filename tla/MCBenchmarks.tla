---------------------------- MODULE MCBenchmarks ----------------------------
(***************************************************************************)
(* The single-process benchmark bodies, checked in one model: each        *)
(* behaviour runs one of them (the test case the binary was asked for),   *)
(* chosen in the initial state.  The driver-object benchmarks share the   *)
(* driver's handle bookkeeping.                                            *)
(***************************************************************************)
EXTENDS Naturals

VARIABLES
  which,
  bwApi, bwIterations, bwPc, bwI, bwBuffer, bwQueue, bwLastWriter,
  bwMeasured, bwResult,
  gmpCount, gmpIterations, gmpPc, gmpAllocations, gmpI, gmpJ, gmpResult,
  cclCount, cclIterations, cclPc, cclLists, cclList, cclI, cclJ, cclResult,
  olaUseEvents, olaIterations, olaPc, olaBuffer, olaOther, olaProgram,
  olaKernel, olaEvent, olaI, olaResult,
  usmDirection, usmIterations, usmAllBytes, usmPc, usmBuffer, usmProgram,
  usmKernel, usmInflight, usmResidency, usmStart, usmI, usmResult,
  eclUseEvents, eclMeasure, eclIterations, eclCalls, eclPc, eclSubmitted,
  eclPending, eclDeps, eclEvent, eclI, eclIteration, eclTimed,
  eclUnfinished, eclResult,
  sqWgs, sqWgc, sqOffset, sqIterations, sqPc, sqBufferBase, sqModule,
  sqKernel, sqCmdList, sqResident, sqInflight, sqI, sqResult,
  pcMemInfos, pcAllocCnt, pcUsedCnt, pcMisuse, pcAborted, pcHeld, pcReady,
  smeApi, smeType, smeSize, smeFp64, smeGroupSize, smeUseEvents,
  smeIterations, smePc, smeModule, smeKernel, smeCmdList, smeEventPool,
  smeEvent, smeBuffers, smeF, smeSignalled, smeInflight, smeI, smeResult,
  slmApi, slmSlmSize, slmMaxSlm, slmUseEvents, slmIterations, slmPc,
  slmModule, slmKernel, slmBuffer, slmCmdList, slmEventPool, slmEvent,
  slmQueue, slmSignalled, slmResignalled, slmI, slmResult,
  ekeIterations, ekePc, ekeProgram, ekeKernel, ekeInflight, ekeI, ekeResult,
  live, released, misuse

\* Small arguments: loops of zero, one and several passes, an odd index
\* for modifyAllocations, and both useEvents values.
MCIterations == {0, 1, 2}

BW == INSTANCE BestWalker WITH
  Apis <- {"L0", "SYCL"}, IterationCounts <- {0, 1, 2, 3},
  api <- bwApi, iterations <- bwIterations, pc <- bwPc, i <- bwI,
  buffer <- bwBuffer, queue <- bwQueue, lastWriter <- bwLastWriter,
  measured <- bwMeasured, result <- bwResult

GMP == INSTANCE GetMemoryProperties WITH
  AllocationsCounts <- {0, 1, 2, 3}, IterationCounts <- MCIterations,
  allocationsCount <- gmpCount, iterations <- gmpIterations, pc <- gmpPc,
  allocations <- gmpAllocations, i <- gmpI, j <- gmpJ, result <- gmpResult

CCL == INSTANCE CreateCommandListImmediate WITH
  CmdListCounts <- {1, 2}, IterationCounts <- MCIterations,
  cmdListCount <- cclCount, iterations <- cclIterations, pc <- cclPc,
  commandLists <- cclLists, commandList <- cclList, i <- cclI, j <- cclJ,
  result <- cclResult

OLA == INSTANCE OneLocalAtomic WITH
  UseEvents <- {FALSE, TRUE}, IterationCounts <- MCIterations,
  useEvents <- olaUseEvents, iterations <- olaIterations, pc <- olaPc,
  buffer <- olaBuffer, otherArgumentsBuffer <- olaOther,
  program <- olaProgram, kernel <- olaKernel, profilingEvent <- olaEvent,
  i <- olaI, result <- olaResult

USM == INSTANCE UsmSharedMigrate WITH
  Directions <- {"Cpu", "Gpu"}, IterationCounts <- MCIterations,
  direction <- usmDirection, iterations <- usmIterations,
  accessAllBytes <- usmAllBytes, pc <- usmPc, buffer <- usmBuffer,
  program <- usmProgram, kernel <- usmKernel, inflight <- usmInflight,
  residency <- usmResidency, startResidency <- usmStart, i <- usmI,
  result <- usmResult

ECL == INSTANCE ExecuteCommandListImmediate WITH
  UseEvents <- {FALSE, TRUE}, MeasureCompletion <- {FALSE, TRUE},
  IterationCounts <- MCIterations, CallCounts <- {0, 1, 2},
  useEvents <- eclUseEvents, measureCompletion <- eclMeasure,
  iterations <- eclIterations, amountOfCalls <- eclCalls, pc <- eclPc,
  submitted <- eclSubmitted, pending <- eclPending, deps <- eclDeps,
  event <- eclEvent, i <- eclI, iteration <- eclIteration,
  timed <- eclTimed, unfinished <- eclUnfinished, result <- eclResult

\* The shared-buffer workload at offset 0 (its offset case is checked in
\* MCSingleQueueWorkload): one or two work-items, four or eight bytes.
SQ == INSTANCE SingleQueueWorkload WITH
  WorkgroupSizes <- {1, 2}, WorkgroupCounts <- {1}, Offsets <- {0},
  IterationCounts <- MCIterations,
  workgroupSize <- sqWgs, workgroupCount <- sqWgc,
  offsetWithinBuffer <- sqOffset, iterations <- sqIterations, pc <- sqPc,
  bufferBase <- sqBufferBase, module <- sqModule, kernel <- sqKernel,
  cmdList <- sqCmdList, resident <- sqResident, inflight <- sqInflight,
  i <- sqI, result <- sqResult

\* The pool's client: three tensors, so that first-fit has a choice among
\* several free entries; count() of Tensor4D(1,1,1,1) and of
\* Tensor4D(a,b,c,d) is 1 and 2 (only their order matters to alloc); the
\* asserts compiled out, as in the release build.
PC == INSTANCE PoolClient WITH
  SIZE_MAX <- 2147483647, Asserts <- {}, Slots <- {"t1", "t2", "t3"},
  Counts <- {1, 2},
  memInfos <- pcMemInfos, allocCnt <- pcAllocCnt, usedCnt <- pcUsedCnt,
  misuse <- pcMisuse, aborted <- pcAborted, held <- pcHeld, ready <- pcReady

\* The stream embargo benchmark in its three implementations, on a float
\* and an fp64 device (its weights are checked in MCStreamMemoryEmbargo).
SME == INSTANCE StreamMemoryEmbargo WITH
  Apis <- {"L0", "OpenCL", "SYCL"}, Types <- {"RGBtoY", "AlignedRGBtoY"},
  Sizes <- {16}, Fp64 <- {FALSE, TRUE}, GroupSizes <- {2},
  UseEvents <- {FALSE, TRUE}, IterationCounts <- MCIterations,
  api <- smeApi, type <- smeType, size <- smeSize, fp64 <- smeFp64,
  groupSize <- smeGroupSize, useEvents <- smeUseEvents,
  iterations <- smeIterations, pc <- smePc, module <- smeModule,
  kernel <- smeKernel, cmdList <- smeCmdList, eventPool <- smeEventPool,
  event <- smeEvent, buffers <- smeBuffers, f <- smeF,
  signalled <- smeSignalled, inflight <- smeInflight, i <- smeI,
  result <- smeResult

\* The shared-local-memory embargo benchmark in both implementations, with
\* an slmSize the device fits and one it does not.
SLM == INSTANCE SharedLocalMemoryEmbargo WITH
  Apis <- {"L0", "OpenCL"}, SlmSizes <- {1, 2}, MaxSlmSizes <- {1},
  UseEvents <- {FALSE, TRUE}, IterationCounts <- MCIterations,
  api <- slmApi, slmSize <- slmSlmSize, maxSlm <- slmMaxSlm,
  useEvents <- slmUseEvents, iterations <- slmIterations, pc <- slmPc,
  module <- slmModule, kernel <- slmKernel, buffer <- slmBuffer,
  cmdList <- slmCmdList, eventPool <- slmEventPool, event <- slmEvent,
  queue <- slmQueue, signalled <- slmSignalled,
  resignalled <- slmResignalled, i <- slmI, result <- slmResult

EKE == INSTANCE EmptyKernelEmbargo WITH
  IterationCounts <- MCIterations,
  iterations <- ekeIterations, pc <- ekePc, program <- ekeProgram,
  kernel <- ekeKernel, inflight <- ekeInflight, i <- ekeI,
  result <- ekeResult

bwVars == <<bwApi, bwIterations, bwPc, bwI, bwBuffer, bwQueue, bwLastWriter,
            bwMeasured, bwResult>>
gmpVars == <<gmpCount, gmpIterations, gmpPc, gmpAllocations, gmpI, gmpJ,
             gmpResult>>
cclVars == <<cclCount, cclIterations, cclPc, cclLists, cclList, cclI, cclJ,
             cclResult>>
olaVars == <<olaUseEvents, olaIterations, olaPc, olaBuffer, olaOther,
             olaProgram, olaKernel, olaEvent, olaI, olaResult>>
usmVars == <<usmDirection, usmIterations, usmAllBytes, usmPc, usmBuffer,
             usmProgram, usmKernel, usmInflight, usmResidency, usmStart, usmI,
             usmResult>>
eclVars == <<eclUseEvents, eclMeasure, eclIterations, eclCalls, eclPc,
             eclSubmitted, eclPending, eclDeps, eclEvent, eclI, eclIteration,
             eclTimed, eclUnfinished, eclResult>>
sqVars == <<sqWgs, sqWgc, sqOffset, sqIterations, sqPc, sqBufferBase,
            sqModule, sqKernel, sqCmdList, sqResident, sqInflight, sqI,
            sqResult>>
pcVars == <<pcMemInfos, pcAllocCnt, pcUsedCnt, pcMisuse, pcAborted, pcHeld,
            pcReady>>
smeVars == <<smeApi, smeType, smeSize, smeFp64, smeGroupSize, smeUseEvents,
             smeIterations, smePc, smeModule, smeKernel, smeCmdList,
             smeEventPool, smeEvent, smeBuffers, smeF, smeSignalled,
             smeInflight, smeI, smeResult>>
slmVars == <<slmApi, slmSlmSize, slmMaxSlm, slmUseEvents, slmIterations,
             slmPc, slmModule, slmKernel, slmBuffer, slmCmdList, slmEventPool,
             slmEvent, slmQueue, slmSignalled, slmResignalled, slmI,
             slmResult>>
ekeVars == <<ekeIterations, ekePc, ekeProgram, ekeKernel, ekeInflight, ekeI,
             ekeResult>>
objVars == <<live, released, misuse>>
vars == <<which, bwVars, gmpVars, cclVars, olaVars, usmVars, eclVars,
          sqVars, pcVars, smeVars, slmVars, ekeVars, objVars>>

Init ==
  /\ which \in {"BestWalker", "GetMemoryProperties",
                "CreateCommandListImmediate", "OneLocalAtomic",
                "UsmSharedMigrate", "ExecuteCommandListImmediate",
                "SingleQueueWorkload", "PoolClient",
                "StreamMemoryEmbargo", "SharedLocalMemoryEmbargo",
                "EmptyKernelEmbargo"}
  \* the arguments of the benchmarks that do not run are irrelevant
  \* (stated first, so that only the running one's are enumerated)
  /\ which # "BestWalker" => bwApi = "L0" /\ bwIterations = 0
  /\ which # "GetMemoryProperties" => gmpCount = 0 /\ gmpIterations = 0
  /\ which # "CreateCommandListImmediate" => cclCount = 1 /\ cclIterations = 0
  /\ which # "OneLocalAtomic" => olaUseEvents = FALSE /\ olaIterations = 0
  /\ which # "UsmSharedMigrate" =>
       /\ usmDirection = "Cpu" /\ usmIterations = 0 /\ usmAllBytes = FALSE
       /\ usmResidency = [p \in USM!Pages |-> "CPU"]
  /\ which # "ExecuteCommandListImmediate" =>
       /\ eclUseEvents = FALSE /\ eclMeasure = FALSE
       /\ eclIterations = 0 /\ eclCalls = 0
  /\ which # "SingleQueueWorkload" => sqWgs = 1 /\ sqIterations = 0
  /\ which # "StreamMemoryEmbargo" =>
       /\ smeApi = "L0" /\ smeType = "RGBtoY" /\ smeFp64 = FALSE
       /\ smeUseEvents = FALSE /\ smeIterations = 0
  /\ which # "SharedLocalMemoryEmbargo" =>
       /\ slmApi = "L0" /\ slmSlmSize = 1 /\ slmMaxSlm = 1
       /\ slmUseEvents = FALSE /\ slmIterations = 0
  /\ which # "EmptyKernelEmbargo" => ekeIterations = 0
  /\ BW!Init /\ GMP!Init /\ CCL!Init /\ OLA!Init /\ USM!Init /\ ECL!Init
  /\ SQ!Init /\ PC!Init /\ SME!Init /\ SLM!Init /\ EKE!Init

RunBestWalker ==
  which = "BestWalker" /\ BW!Next
  /\ UNCHANGED <<which, gmpVars, cclVars, olaVars, usmVars, eclVars,
                 objVars, sqVars, pcVars, smeVars, slmVars, ekeVars>>
RunGetMemoryProperties ==
  which = "GetMemoryProperties" /\ GMP!Next
  /\ UNCHANGED <<which, bwVars, cclVars, olaVars, usmVars, eclVars,
                 sqVars, pcVars, smeVars, slmVars, ekeVars>>
RunCreateCommandListImmediate ==
  which = "CreateCommandListImmediate" /\ CCL!Next
  /\ UNCHANGED <<which, bwVars, gmpVars, olaVars, usmVars, eclVars,
                 sqVars, pcVars, smeVars, slmVars, ekeVars>>
RunOneLocalAtomic ==
  which = "OneLocalAtomic" /\ OLA!Next
  /\ UNCHANGED <<which, bwVars, gmpVars, cclVars, usmVars, eclVars,
                 sqVars, pcVars, smeVars, slmVars, ekeVars>>
RunUsmSharedMigrate ==
  which = "UsmSharedMigrate" /\ USM!Next
  /\ UNCHANGED <<which, bwVars, gmpVars, cclVars, olaVars, eclVars,
                 sqVars, pcVars, smeVars, slmVars, ekeVars>>
RunExecuteCommandListImmediate ==
  which = "ExecuteCommandListImmediate" /\ ECL!Next
  /\ UNCHANGED <<which, bwVars, gmpVars, cclVars, olaVars, usmVars, objVars,
                 sqVars, pcVars, smeVars, slmVars, ekeVars>>

RunPoolClient ==
  which = "PoolClient" /\ PC!Next
  /\ UNCHANGED <<which, bwVars, gmpVars, cclVars, olaVars, usmVars, eclVars,
                 sqVars, objVars, smeVars, slmVars, ekeVars>>

RunSingleQueueWorkload ==
  which = "SingleQueueWorkload" /\ SQ!Next
  /\ UNCHANGED <<which, bwVars, gmpVars, cclVars, olaVars, usmVars, eclVars,
                 pcVars, smeVars, slmVars, ekeVars>>

RunStreamMemoryEmbargo ==
  which = "StreamMemoryEmbargo" /\ SME!Next
  /\ UNCHANGED <<which, bwVars, gmpVars, cclVars, olaVars, usmVars, eclVars,
                 sqVars, pcVars, slmVars, ekeVars>>

RunSharedLocalMemoryEmbargo ==
  which = "SharedLocalMemoryEmbargo" /\ SLM!Next
  /\ UNCHANGED <<which, bwVars, gmpVars, cclVars, olaVars, usmVars, eclVars,
                 sqVars, pcVars, smeVars, ekeVars>>

RunEmptyKernelEmbargo ==
  which = "EmptyKernelEmbargo" /\ EKE!Next
  /\ UNCHANGED <<which, bwVars, gmpVars, cclVars, olaVars, usmVars, eclVars,
                 sqVars, pcVars, smeVars, slmVars>>

Next ==
  RunBestWalker \/ RunGetMemoryProperties \/ RunCreateCommandListImmediate
  \/ RunOneLocalAtomic \/ RunUsmSharedMigrate \/ RunExecuteCommandListImmediate
  \/ RunSingleQueueWorkload \/ RunPoolClient \/ RunStreamMemoryEmbargo
  \/ RunSharedLocalMemoryEmbargo \/ RunEmptyKernelEmbargo

\* Fairness: every GPU runs what was submitted, and every benchmark's host
\* thread, the one thread of run(), takes its next step once it can.  The
\* host's fairness excludes the steps that return Error: a failing driver
\* call is a possible step, never one the host is forced to take, so that
\* a wait that can only end in an error counts as a hang.  A call on the
\* null buffer a failed clCreateBuffer left fails for certain, and is taken.
NoError(r) == r' # "Error"

Spec ==
  /\ Init /\ [][Next]_vars
  /\ WF_vars(RunBestWalker /\ BW!Host /\ NoError(bwResult))
  /\ WF_vars(RunGetMemoryProperties /\ NoError(gmpResult))
  /\ WF_vars(RunCreateCommandListImmediate /\ NoError(cclResult))
  /\ WF_vars(RunOneLocalAtomic /\ NoError(olaResult))
  /\ WF_vars(RunUsmSharedMigrate /\ USM!Host /\ NoError(usmResult))
  /\ WF_vars(RunExecuteCommandListImmediate /\ ECL!Host /\ NoError(eclResult))
  /\ WF_vars(RunSingleQueueWorkload /\ SQ!Host /\ NoError(sqResult))
  /\ WF_vars(RunStreamMemoryEmbargo /\ SME!Host /\ NoError(smeResult))
  /\ WF_vars(RunSharedLocalMemoryEmbargo /\ SLM!Host /\ NoError(slmResult))
  /\ WF_vars(RunEmptyKernelEmbargo /\ EKE!Host /\ NoError(ekeResult))
  /\ WF_vars(RunStreamMemoryEmbargo /\ SME!Host /\ SME!FillFails)
  /\ WF_vars(RunSharedLocalMemoryEmbargo /\ SLM!Host /\ SLM!FillFails)
  /\ WF_vars(which = "BestWalker" /\ BW!Execute
             /\ UNCHANGED <<which, gmpVars, cclVars, olaVars, usmVars, eclVars,
                            objVars, sqVars, pcVars, smeVars, slmVars, ekeVars>>)
  /\ WF_vars(which = "UsmSharedMigrate" /\ USM!Execute
             /\ UNCHANGED <<which, bwVars, gmpVars, cclVars, olaVars, eclVars,
                            sqVars, pcVars, smeVars, slmVars, ekeVars>>)
  /\ WF_vars(which = "ExecuteCommandListImmediate" /\ ECL!Complete
             /\ UNCHANGED <<which, bwVars, gmpVars, cclVars, olaVars, usmVars,
                            objVars, sqVars, pcVars, smeVars, slmVars, ekeVars>>)
  /\ WF_vars(which = "SingleQueueWorkload" /\ SQ!GpuRun
             /\ UNCHANGED <<which, bwVars, gmpVars, cclVars, olaVars, usmVars,
                            eclVars, pcVars, smeVars, slmVars, ekeVars>>)
  /\ WF_vars(which = "StreamMemoryEmbargo" /\ SME!GpuRun
             /\ UNCHANGED <<which, bwVars, gmpVars, cclVars, olaVars, usmVars,
                            eclVars, sqVars, pcVars, slmVars, ekeVars>>)
  /\ WF_vars(which = "SharedLocalMemoryEmbargo" /\ SLM!GpuRun
             /\ UNCHANGED <<which, bwVars, gmpVars, cclVars, olaVars, usmVars,
                            eclVars, sqVars, pcVars, smeVars, ekeVars>>)
  /\ WF_vars(which = "EmptyKernelEmbargo" /\ EKE!GpuRun
             /\ UNCHANGED <<which, bwVars, gmpVars, cclVars, olaVars, usmVars,
                            eclVars, sqVars, pcVars, smeVars, slmVars>>)

-----------------------------------------------------------------------------
\* Every best-walker spin ends on the write of its own iteration's kernel.
MeasuresOwnKernel == BW!MeasuresOwnKernel

\* Every benchmark body returns from run(), whatever its arguments and
\* wherever an ASSERT fails: no wait (zeCommandQueueSynchronize, clFinish,
\* an event or queue wait, the best walker's spin on device memory) blocks
\* on a command the GPU never runs or an event nothing signals.  (The pool
\* client is an open-ended sequence of calls and is not a run().)
ResultOf ==
  [BestWalker |-> bwResult, GetMemoryProperties |-> gmpResult,
   CreateCommandListImmediate |-> cclResult, OneLocalAtomic |-> olaResult,
   UsmSharedMigrate |-> usmResult, ExecuteCommandListImmediate |-> eclResult,
   SingleQueueWorkload |-> sqResult, StreamMemoryEmbargo |-> smeResult,
   SharedLocalMemoryEmbargo |-> slmResult, EmptyKernelEmbargo |-> ekeResult]

RunReturns ==
  <>(which = "PoolClient" \/ ResultOf[which] # "none")

TR == INSTANCE TestResultInfo

\* Measured iterations each benchmark completed (samples pushed).
Completed ==
  [BestWalker |-> bwI, GetMemoryProperties |-> gmpJ,
   CreateCommandListImmediate |-> cclJ, OneLocalAtomic |-> olaI,
   UsmSharedMigrate |-> usmI, ExecuteCommandListImmediate |-> eclI,
   SingleQueueWorkload |-> sqI, StreamMemoryEmbargo |-> smeI,
   SharedLocalMemoryEmbargo |-> slmI, EmptyKernelEmbargo |-> ekeI]

\* Every outcome a benchmark's run() returns, Success aside, has an entry
\* in the framework's testResultInfoMapping (getTestResultInfo would
\* otherwise abort the batch with FATAL_ERROR_IF), and one the table counts
\* as skipped (no support, missing kernel, noop) is returned only before a
\* measured iteration completed: samples are never discarded as "skipped"
\* and a failure after measuring is never hidden as one.  ("crash" is the
\* division by zero of GetMemoryProperties, which returns nothing.)
OutcomeAccounted ==
  \A b \in DOMAIN ResultOf :
    ResultOf[b] \notin {"none", "Success", "crash"} =>
      /\ TR!HasInfo(ResultOf[b])
      /\ TR!Skipped(ResultOf[b]) => Completed[b] = 0

\* No benchmark releases a driver object twice or uses one it released: the
\* reallocations of modifyAllocations, the reused command-list slots and
\* the overwritten profiling event included.
NoInvalidHandle == misuse = {}

\* A benchmark that returns Success has released every driver object it
\* created: allocations, command lists, buffers, program, kernel, events.
SuccessReleasesAll ==
  /\ GMP!SuccessFreesAll /\ CCL!SuccessDestroysAll /\ OLA!SuccessReleasesAll
  /\ USM!SuccessReleasesAll /\ SQ!SuccessReleasesAll
  /\ SME!SuccessReleasesAll /\ SLM!SuccessReleasesAll /\ EKE!SuccessReleasesAll

\* OneLocalAtomic never overwrites a live profiling event.
EventReleasedBeforeReuse == OLA!EventReleasedBeforeReuse

\* Every USM shared-migrate sample times a migration: the Gpu variant's
\* kernel starts on a buffer wholly on the CPU, the Cpu variant's host
\* writes start on pages the kernel moved to the GPU.
MeasuresMigration == USM!MeasuresMigration

\* ExecuteCommandListImmediate's completion-time samples end after every
\* kernel the iteration submitted completed, with either kind of wait.
MeasuresCompletion == ECL!MeasuresCompletion

\* Every sample the shared-buffer workload and the stream, shared-local-
\* memory and empty-kernel embargo benchmarks push timed a kernel that
\* completed: no wait returns on the stale signal of an earlier command.
SampleAfterCompletion ==
  /\ SQ!SampleAfterCompletion /\ SME!SampleAfterCompletion
  /\ SLM!SampleAfterCompletion /\ EKE!SampleAfterCompletion

\* The L0 shared-local-memory benchmark's timestamp event is reset on the
\* host before the GPU signals it again: after the warmup and after each
\* iteration's timestamp was read.
EventResetBeforeSignal == SLM!EventResetBeforeSignal

\* The device memory pool, driven by a caller that keeps its contract,
\* counts in usedCnt exactly the entries it handed out, never hands one
\* buffer to two tensors, hands out only buffers large enough, and
\* implements the abstract allocator (see PoolClient).
UsedCountAccurate == PC!UsedCountAccurate
NoAliasing == PC!NoAliasing
BufferFits == PC!BufferFits
RefinesAllocator == PC!RefinesAllocator
=============================================================================
