------------------------- MODULE GetMemoryProperties -------------------------
(***************************************************************************)
(* The L0 API-overhead benchmark GetMemoryPropertiesWithModifiedAllocations*)
(* (get_memory_properties_with_modified_allocations_l0.cpp): allocate      *)
(* AllocationsCount device buffers, query them all per iteration, then     *)
(* free and reallocate every odd-indexed one (modifyAllocations), and free *)
(* them all at the end.  Every ASSERT_ZE_RESULT_SUCCESS may return Error.  *)
(***************************************************************************)
EXTENDS Integers, Sequences, DriverObjects

CONSTANTS
  AllocationsCounts,   \* values arguments.AllocationsCount may take
  IterationCounts      \* values arguments.iterations may take

VARIABLES
  allocationsCount, iterations,   \* the run's arguments
  pc,
  allocations,    \* std::vector<void *> allocations
  i,              \* index of the allocation, modify and cleanup loops
  j,              \* the benchmark loop counter
  result          \* the TestResult run() returned, or "crash"

gmpVars == <<allocationsCount, iterations, pc, allocations, i, j, result>>
vars == <<gmpVars, objVars>>

Fixed == UNCHANGED <<allocationsCount, iterations>>

Init ==
  /\ objInit
  /\ allocationsCount \in AllocationsCounts /\ iterations \in IterationCounts
  /\ pc = "noop" /\ allocations = <<>> /\ i = 0 /\ j = 0 /\ result = "none"

Return(r) == result' = r /\ pc' = "done"

\* An ASSERT_ZE_RESULT_SUCCESS fails: return TestResult::Error.
ReturnError ==
  Return("Error") /\ UNCHANGED <<allocations, i, j>> /\ UNCHANGED objVars

\* The allocations the vector holds (indices 0 .. AllocationsCount - 1).
Held == {allocations[k] : k \in DOMAIN allocations}

\* isNoopRun(); LevelZero levelzero; allocations.reserve(...)
Start ==
  /\ pc = "noop"
  /\ \/ Return("Nooped")
     \/ pc' = "alloc" /\ UNCHANGED result
  /\ UNCHANGED <<allocations, i, j>> /\ UNCHANGED objVars /\ Fixed

\* for i < AllocationsCount: zeMemAllocDevice; allocations.push_back(ptr)
Allocate ==
  /\ pc = "alloc"
  /\ IF i < allocationsCount
     THEN \/ ReturnError
          \/ /\ Create /\ allocations' = Append(allocations, Fresh)
             /\ i' = i + 1 /\ UNCHANGED <<pc, j, result>>
     ELSE pc' = "warmup" /\ UNCHANGED <<allocations, i, j, result>>
                         /\ UNCHANGED objVars
  /\ Fixed

\* Warmup: zeMemGetAllocProperties on every allocation.
Warmup ==
  /\ pc = "warmup"
  /\ \/ ReturnError
     \/ Use(Held) /\ pc' = "bench" /\ UNCHANGED <<allocations, i, j, result>>
  /\ Fixed

\* for (auto i = 0u; i < arguments.iterations; i++)
BenchHead ==
  /\ pc = "bench"
  /\ IF j < iterations THEN pc' = "measure" /\ i' = i
                       ELSE pc' = "cleanup" /\ i' = 0
  /\ UNCHANGED <<allocations, j, result>> /\ UNCHANGED objVars /\ Fixed

\* measureStart; zeMemGetAllocProperties on every allocation; measureEnd;
\* then call modifyAllocations().
Measure ==
  /\ pc = "measure"
  /\ \/ ReturnError
     \/ Use(Held) /\ pc' = "modify" /\ i' = 0 /\ UNCHANGED <<allocations, j, result>>
  /\ Fixed

\* modifyAllocations: for index < AllocationsCount, if (index & 1) ...
ModifyHead ==
  /\ pc = "modify"
  /\ IF i < allocationsCount
     THEN IF i % 2 = 1 THEN pc' = "modify_free" /\ i' = i
                       ELSE pc' = pc /\ i' = i + 1
     ELSE pc' = "push" /\ i' = i
  /\ UNCHANGED <<allocations, j, result>> /\ UNCHANGED objVars /\ Fixed

\* zeMemFree(levelzero.context, allocations[index])
ModifyFree ==
  /\ pc = "modify_free"
  /\ \/ ReturnError
     \/ Release(allocations[i + 1]) /\ pc' = "modify_alloc"
        /\ UNCHANGED <<allocations, i, j, result>>
  /\ Fixed

\* Variant of ModifyAlloc that forgets allocations[index] = ptr.
ModifyAllocNoStore ==
  /\ pc = "modify_alloc"
  /\ \/ ReturnError
     \/ /\ Create /\ i' = i + 1 /\ pc' = "modify"
        /\ UNCHANGED <<allocations, j, result>>
  /\ Fixed

\* zeMemAllocDevice(..., &ptr); allocations[index] = ptr
ModifyAlloc ==
  /\ pc = "modify_alloc"
  /\ \/ ReturnError
     \/ /\ Create /\ allocations' = [allocations EXCEPT ![i + 1] = Fresh]
        /\ i' = i + 1 /\ pc' = "modify" /\ UNCHANGED <<j, result>>
  /\ Fixed

\* statistics.pushValue(timer.get() / arguments.AllocationsCount, ...):
\* an integer division, which traps when AllocationsCount is 0.
Push ==
  /\ pc = "push"
  /\ IF allocationsCount = 0
     THEN Return("crash") /\ UNCHANGED j
     ELSE j' = j + 1 /\ pc' = "bench" /\ UNCHANGED result
  /\ UNCHANGED <<allocations, i>> /\ UNCHANGED objVars /\ Fixed

\* Cleanup: zeMemFree every allocation; return Success.
Cleanup ==
  /\ pc = "cleanup"
  /\ IF i < allocationsCount
     THEN \/ ReturnError
          \/ Release(allocations[i + 1]) /\ i' = i + 1
             /\ UNCHANGED <<pc, allocations, j, result>>
     ELSE Return("Success") /\ UNCHANGED <<allocations, i, j>>
                            /\ UNCHANGED objVars
  /\ Fixed

Next ==
  \/ Start \/ Allocate \/ Warmup \/ BenchHead \/ Measure \/ ModifyHead
  \/ ModifyFree \/ ModifyAlloc \/ Push \/ Cleanup

Spec == Init /\ [][Next]_vars

-----------------------------------------------------------------------------
\* No allocation is freed twice or queried after it was freed, although
\* modifyAllocations frees and replaces half of them in every iteration.
NoInvalidHandle == misuse = {}

\* A run that returns Success has freed every allocation it made, the
\* replacements made by modifyAllocations included.
SuccessFreesAll == result = "Success" => live = {}
=============================================================================
