----------------------------- MODULE BestWalker -----------------------------
(***************************************************************************)
(* The ULLS best-walker-submission benchmark (L0 and SYCL): the host       *)
(* resets a word of host memory, submits a kernel that writes 1 into it,  *)
(* and spins until it reads 1; the time between submit and the end of the *)
(* spin is the measurement.  The GPU is a second process that executes    *)
(* the submitted kernels in order.  Kernels are tagged with the iteration *)
(* that submitted them (0 for the warmup), which is ghost state that lets *)
(* the properties say whose write ended a spin.                           *)
(***************************************************************************)
EXTENDS Integers, Sequences

CONSTANTS
  Apis,         \* implementations that may run: subset of {"L0", "SYCL"}
  IterationCounts  \* values arguments.iterations may take

VARIABLES
  api,          \* the implementation this run uses
  iterations,   \* arguments.iterations of this run
  pc,           \* the host's position in run()
  i,            \* the loop counter of the benchmark loop
  buffer,       \* *volatileBuffer: the word the kernel writes
  queue,        \* tags of kernels submitted and not yet executed by the GPU
  lastWriter,   \* tag of the kernel whose write the buffer holds (ghost)
  measured,     \* tag of the kernel whose write ended the last spin (ghost)
  result        \* the TestResult run() returned

vars == <<api, iterations, pc, i, buffer, queue, lastWriter, measured, result>>

None == -1

Init ==
  /\ api \in Apis /\ iterations \in IterationCounts
  /\ pc = "noop" /\ i = 0 /\ buffer = 0 /\ queue = <<>>
  /\ lastWriter = None /\ measured = None /\ result = "none"

\* The run's inputs never change.
Fixed == UNCHANGED <<api, iterations>>

\* return from run() with result r
Return(r) == result' = r /\ pc' = "done"

\* An ASSERT_ZE_RESULT_SUCCESS fails: return TestResult::Error.
ReturnError ==
  /\ api = "L0" /\ Return("Error")
  /\ UNCHANGED <<i, buffer, queue, lastWriter, measured>>

\* isNoopRun(), then allocate the host buffer (its initial contents are
\* unspecified), load the kernel binary (KernelNotFound if it is empty),
\* create module, kernel and command list.
SetupL0 ==
  /\ pc = "noop" /\ api = "L0"
  /\ \/ Return("Nooped") /\ UNCHANGED buffer
     \/ Return("KernelNotFound") /\ buffer' \in {0, 1}
     \/ ReturnError /\ UNCHANGED buffer
     \/ pc' = "warmup" /\ buffer' \in {0, 1} /\ UNCHANGED result
  /\ UNCHANGED <<i, queue, lastWriter, measured>> /\ Fixed

\* isNoopRun(), then sycl::malloc_host; the kernel is a lambda.
SetupSycl ==
  /\ pc = "noop" /\ api = "SYCL"
  /\ \/ Return("Nooped") /\ UNCHANGED buffer
     \/ pc' = "warmup" /\ buffer' \in {0, 1} /\ UNCHANGED result
  /\ UNCHANGED <<i, queue, lastWriter, measured>> /\ Fixed

\* Submit the kernel (tag t) to the queue.
Submit(t) == queue' = Append(queue, t)

\* Warmup: zeCommandQueueExecuteCommandLists / single_task(writeOne).
Warmup ==
  /\ pc = "warmup"
  /\ \/ ReturnError
     \/ Submit(0) /\ pc' = "warm_sync" /\ UNCHANGED result
  /\ UNCHANGED <<i, buffer, lastWriter, measured>> /\ Fixed

\* Variant of WarmupSync that returns without waiting for the warmup.
WarmupSyncNoWait ==
  /\ pc = "warm_sync"
  /\ \/ ReturnError
     \/ pc' = "loop" /\ UNCHANGED result
  /\ UNCHANGED <<i, buffer, queue, lastWriter, measured>> /\ Fixed

\* zeCommandQueueSynchronize / .wait(): returns once the queue is empty.
WarmupSync ==
  /\ pc = "warm_sync"
  /\ \/ ReturnError
     \/ queue = <<>> /\ pc' = "loop" /\ UNCHANGED result
  /\ UNCHANGED <<i, buffer, queue, lastWriter, measured>> /\ Fixed

\* for (auto i = 0u; i < arguments.iterations; i++)
LoopHead ==
  /\ pc = "loop"
  /\ pc' = IF i < iterations THEN "reset" ELSE "cleanup"
  /\ UNCHANGED <<i, buffer, queue, lastWriter, measured, result>> /\ Fixed

\* *volatileBuffer = 0; _mm_clflush(buffer);
Reset ==
  /\ pc = "reset"
  /\ buffer' = 0 /\ pc' = "submit"
  /\ UNCHANGED <<i, queue, lastWriter, measured, result>> /\ Fixed

\* timer.measureStart(); execute the command list writing 1.
SubmitIteration ==
  /\ pc = "submit"
  /\ \/ ReturnError
     \/ Submit(i + 1) /\ pc' = "spin" /\ UNCHANGED result
  /\ UNCHANGED <<i, buffer, lastWriter, measured>> /\ Fixed

\* while (*volatileBuffer != 1) {} timer.measureEnd();
Spin ==
  /\ pc = "spin" /\ buffer = 1
  /\ measured' = lastWriter /\ pc' = "sync"
  /\ UNCHANGED <<i, buffer, queue, lastWriter, result>> /\ Fixed

\* Variant of Sync that never increments the loop counter.
SyncNoIncrement ==
  /\ pc = "sync"
  /\ \/ ReturnError /\ UNCHANGED <<i, queue>>
     \/ queue = <<>> /\ pc' = "loop" /\ UNCHANGED <<result, queue, i>>
  /\ UNCHANGED <<buffer, lastWriter, measured>> /\ Fixed

\* zeCommandQueueSynchronize / queue.wait(); statistics.pushValue; i++.
Sync ==
  /\ pc = "sync"
  /\ \/ ReturnError /\ UNCHANGED <<i, queue>>
     \/ /\ queue = <<>>
        /\ i' = i + 1
        /\ pc' = "loop" /\ UNCHANGED <<result, queue>>
  /\ UNCHANGED <<buffer, lastWriter, measured>> /\ Fixed

\* Destroy kernel, module, buffer and command list (L0) or free the
\* buffer (SYCL); return Success.
Cleanup ==
  /\ pc = "cleanup"
  /\ ReturnError \/ Return("Success")
  /\ UNCHANGED <<i, buffer, queue, lastWriter, measured>> /\ Fixed

\* The GPU executes the oldest submitted kernel: *buffer = 1.
Execute ==
  /\ queue # <<>>
  /\ buffer' = 1 /\ lastWriter' = Head(queue) /\ queue' = Tail(queue)
  /\ UNCHANGED <<pc, i, measured, result>> /\ Fixed

Host == SetupL0 \/ SetupSycl \/ Warmup \/ WarmupSync \/ LoopHead \/ Reset
          \/ SubmitIteration \/ Spin \/ Sync \/ Cleanup

Next == Host \/ Execute

\* The host thread is scheduled and the GPU runs submitted work.
Spec == Init /\ [][Next]_vars /\ WF_vars(Host) /\ WF_vars(Execute)

-----------------------------------------------------------------------------
(* Properties *)

\* Every spin that ends, ends on the write of the kernel submitted in that
\* same iteration, never on a late write of the warmup or of an earlier
\* iteration: the measured time covers this iteration's submission.
MeasuresOwnKernel == pc = "sync" => measured = i + 1

\* run() returns: every spin ends, since the GPU eventually executes the
\* kernel the host waits for, and the loop runs arguments.iterations times.
HostFinishes == <>(pc = "done")
=============================================================================
